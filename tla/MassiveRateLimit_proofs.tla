---------------------- MODULE MassiveRateLimit_proofs ----------------------
(***************************************************************************)
(* The rolling budget holds for every number of callers and slots, every   *)
(* expiry and tolerance, and however the clocks are set, the machine       *)
(* sleeps or boots, processes die and writes fail.  The argument needs no  *)
(* honest clock: monotonic time never outruns true time, so what is left   *)
(* of a slot by the monotonic clock is at least what is left of it really. *)
(* That no sleep is too long rests on the order of the stored readings.    *)
(***************************************************************************)
EXTENDS MassiveRateLimit, SequenceTheorems, WellFoundedInduction, TLAPS

Slots == Seq([from : Nat, to : Nat])

\* The budget b accounts for the reservations q at true time r and monotonic
\* time m: every reservation it no longer holds is over for at least Expiry,
\* and each it holds seems no older than it is, but for one in flight, whose
\* recorded time says nothing yet.
Covered(b, q, r, m) ==
    LET ts == b.timestamps
        gone == Len(q) - Len(b.timestamps) IN
    /\ gone >= 0
    /\ \A i \in 1 .. gone : r - q[i].to >= Expiry
    /\ \A i \in 1 .. Len(ts) :
           (i < Len(ts) \/ ~b.in_flight) => m - ts[i].mono <= r - q[gone + i].to

-----------------------------------------------------------------------------
\* Positions counted from the end of one list are positions of a longer one.
LEMMA ShiftUp ==
    ASSUME NEW g \in Int, NEW l \in Int, NEW d \in Int, NEW i \in Int,
           g >= 0, g + l = d, 1 <= i, i <= l
    PROVE  i \in 1 .. l /\ g + i \in 1 .. d
OBVIOUS

LEMMA ShiftDown ==
    ASSUME NEW g \in Int, NEW l \in Int, NEW n \in Int, NEW i \in Int,
           g >= 0, n <= l, g < i, i <= g + n
    PROVE  /\ i - g \in 1 .. n /\ i - g \in 1 .. l
           /\ i = g + (i - g)
OBVIOUS

LEMMA SlotTypes ==
    ASSUME NEW q \in Slots
    PROVE  /\ Len(q) \in Nat /\ DOMAIN q = 1 .. Len(q)
           /\ \A i \in 1 .. Len(q) :
                  /\ q[i] \in [from : Nat, to : Nat]
                  /\ q[i].from \in Nat /\ q[i].to \in Nat
<1>1. q \in Seq([from : Nat, to : Nat])  BY DEF Slots
<1>2. Len(q) \in Nat /\ DOMAIN q = 1 .. Len(q)  BY <1>1, LenProperties
<1>3. ASSUME NEW i \in 1 .. Len(q) PROVE q[i] \in [from : Nat, to : Nat]
  BY <1>1, ElementOfSeq
<1> QED  BY <1>2, <1>3

LEMMA BudgetTypes ==
    ASSUME NEW b \in Budget
    PROVE  /\ b.timestamps \in Seq(Reading) /\ Len(b.timestamps) \in Nat
           /\ b.last \in Reading /\ b.in_flight \in BOOLEAN
           /\ \A i \in 1 .. Len(b.timestamps) :
                  /\ b.timestamps[i] \in Reading
                  /\ b.timestamps[i].wall \in Nat
                  /\ b.timestamps[i].mono \in Nat
<1>1. b.timestamps \in Seq(Reading) /\ b.last \in Reading
      /\ b.in_flight \in BOOLEAN
  BY DEF Budget
<1>2. Len(b.timestamps) \in Nat  BY <1>1, LenProperties
<1>3. ASSUME NEW i \in 1 .. Len(b.timestamps)
      PROVE b.timestamps[i] \in Reading
  BY <1>1, ElementOfSeq
<1> QED  BY <1>1, <1>2, <1>3 DEF Reading

\* WellFormed without the sequence it builds.
LEMMA WellFormedMeans ==
    ASSUME NEW b \in Budget
    PROVE  WellFormed(b) <=>
               /\ Len(b.timestamps) <= MaxSlots
               /\ b.in_flight => Len(b.timestamps) >= 1
               /\ \A i \in 1 .. Len(b.timestamps) - 1 :
                      NotBefore(b.timestamps[i], b.timestamps[i + 1])
               /\ Len(b.timestamps) >= 1 =>
                      NotBefore(b.timestamps[Len(b.timestamps)], b.last)
<1> DEFINE ts == b.timestamps
           pairs == Append(b.timestamps, b.last)
<1>1. ts \in Seq(Reading) /\ b.last \in Reading /\ Len(ts) \in Nat
  BY DEF Budget
<1>2. /\ \A i \in 1 .. Len(ts) : pairs[i] = ts[i]
      /\ pairs[Len(ts) + 1] = b.last
  BY <1>1, AppendProperties
<1>3. ts # <<>> <=> Len(ts) >= 1
  BY <1>1, EmptySeq
<1>4. (\A i \in 1 .. Len(ts) : NotBefore(pairs[i], pairs[i + 1])) <=>
          /\ \A i \in 1 .. Len(ts) - 1 : NotBefore(ts[i], ts[i + 1])
          /\ Len(ts) >= 1 => NotBefore(ts[Len(ts)], b.last)
  <2> HIDE DEF ts, pairs
  <2>1. ASSUME \A i \in 1 .. Len(ts) : NotBefore(pairs[i], pairs[i + 1])
        PROVE  /\ \A i \in 1 .. Len(ts) - 1 : NotBefore(ts[i], ts[i + 1])
               /\ Len(ts) >= 1 => NotBefore(ts[Len(ts)], b.last)
    <3>1. ASSUME NEW i \in 1 .. Len(ts) - 1
          PROVE  NotBefore(ts[i], ts[i + 1])
      <4>1. i \in 1 .. Len(ts) /\ i + 1 \in 1 .. Len(ts)  BY <1>1
      <4> QED  BY <4>1, <1>2, <2>1
    <3>2. ASSUME Len(ts) >= 1 PROVE NotBefore(ts[Len(ts)], b.last)
      <4>1. Len(ts) \in 1 .. Len(ts)  BY <1>1, <3>2
      <4> QED  BY <4>1, <1>2, <2>1
    <3> QED  BY <3>1, <3>2
  <2>2. ASSUME \A i \in 1 .. Len(ts) - 1 : NotBefore(ts[i], ts[i + 1]),
               Len(ts) >= 1 => NotBefore(ts[Len(ts)], b.last),
               NEW i \in 1 .. Len(ts)
        PROVE  NotBefore(pairs[i], pairs[i + 1])
    <3>1. CASE i = Len(ts)
      <4>1. Len(ts) >= 1  BY <1>1
      <4> QED  BY <4>1, <3>1, <2>2, <1>2
    <3>2. CASE i # Len(ts)
      <4>1. i \in 1 .. Len(ts) - 1 /\ i + 1 \in 1 .. Len(ts)  BY <1>1, <3>2
      <4> QED  BY <4>1, <2>2, <1>2
    <3> QED  BY <3>1, <3>2
  <2> QED  BY <2>1, <2>2
<1> QED  BY <1>3, <1>4 DEF WellFormed

-----------------------------------------------------------------------------
\* Later is a moment at which monotonic time has not advanced further than
\* true time: a tick, a sleep or a boot of the machine.
LEMMA CoveredLater ==
    ASSUME NEW b \in Budget, NEW q \in Slots, NEW r \in Nat, NEW m \in Nat,
           NEW r2 \in Nat, NEW m2 \in Nat, r2 >= r, m2 - m <= r2 - r,
           Covered(b, q, r, m)
    PROVE  Covered(b, q, r2, m2)
<1> DEFINE ts == b.timestamps
           gone == Len(q) - Len(b.timestamps)
<1>1. ts \in Seq(Reading) /\ Len(ts) \in Nat /\ Len(q) \in Nat /\ gone \in Int
  BY BudgetTypes, SlotTypes
<1>2. \A i \in 1 .. Len(q) : q[i].to \in Nat
  BY SlotTypes
<1>3. \A i \in 1 .. Len(ts) : ts[i].mono \in Nat
  BY BudgetTypes
<1>4. gone >= 0
  BY DEF Covered
<1>5. ASSUME NEW i \in 1 .. gone PROVE r2 - q[i].to >= Expiry
  <2>1. i \in 1 .. Len(q)  BY <1>1
  <2>2. r - q[i].to >= Expiry  BY DEF Covered
  <2>3. q[i].to \in Nat  BY <2>1, <1>2
  <2> QED  BY <2>2, <2>3, RateLimitAssumption
<1>6. ASSUME NEW i \in 1 .. Len(ts), i < Len(ts) \/ ~b.in_flight
      PROVE  m2 - ts[i].mono <= r2 - q[gone + i].to
  <2>1. gone + i \in 1 .. Len(q)  BY <1>1, <1>4
  <2>2. m - ts[i].mono <= r - q[gone + i].to  BY <1>6 DEF Covered
  <2>3. q[gone + i].to \in Nat /\ ts[i].mono \in Nat  BY <2>1, <1>2, <1>3
  <2> DEFINE t == ts[i].mono
             e == q[gone + i].to
  <2>4. t \in Nat /\ e \in Nat /\ m - t <= r - e  BY <2>2, <2>3
  <2> HIDE DEF t, e
  <2>5. m2 - t <= r2 - e  BY <2>4, SMT
  <2> QED  BY <2>5 DEF t, e
<1> QED  BY <1>4, <1>5, <1>6 DEF Covered

\* A settled slot counts from now, when every reservation is in the past.
LEMMA CoveredSettled ==
    ASSUME NEW b \in Budget, NEW q \in Slots, NEW r \in Nat,
           NEW now \in Reading, Len(b.timestamps) >= 1,
           \A i \in 1 .. Len(q) : q[i].to <= r,
           Covered(b, q, r, now.mono)
    PROVE  Covered(Settled(b, now), q, r, now.mono)
<1> DEFINE ts == b.timestamps
           us == Settled(b, now).timestamps
           gone == Len(q) - Len(b.timestamps)
<1>1. /\ ts \in Seq(Reading) /\ Len(ts) \in Nat /\ Len(q) \in Nat
      /\ gone \in Int /\ now.mono \in Nat
  BY BudgetTypes, SlotTypes DEF Reading
<1>2. us = [ts EXCEPT ![Len(ts)] = now] /\ ~Settled(b, now).in_flight
  BY DEF Settled
<1>3. /\ us \in Seq(Reading) /\ Len(us) = Len(ts)
      /\ us[Len(ts)] = now
      /\ \A i \in 1 .. Len(ts) : i # Len(ts) => us[i] = ts[i]
  BY <1>1, <1>2, ExceptSeq
<1>4. gone >= 0 /\ \A i \in 1 .. gone : r - q[i].to >= Expiry
  BY DEF Covered
<1>5. ASSUME NEW i \in 1 .. Len(us)
      PROVE  now.mono - us[i].mono <= r - q[gone + i].to
  <2>1. gone + i \in 1 .. Len(q)  BY <1>1, <1>3, <1>4
  <2>2. q[gone + i].to \in Nat /\ q[gone + i].to <= r  BY <2>1, SlotTypes
  <2>3. CASE i = Len(ts)
    BY <2>2, <2>3, <1>1, <1>3
  <2>4. CASE i # Len(ts)
    <3>1. i \in 1 .. Len(ts) /\ i < Len(ts)  BY <1>1, <1>3, <2>4
    <3>2. now.mono - ts[i].mono <= r - q[gone + i].to
      BY <3>1 DEF Covered
    <3> QED  BY <3>1, <3>2, <2>4, <1>3
  <2> QED  BY <2>3, <2>4
<1>6. Len(q) - Len(us) = gone  BY <1>3
<1> QED  BY <1>3, <1>4, <1>5, <1>6 DEF Covered

\* What is in flight ends now: nothing is claimed of it yet.
LEMMA CoveredEnded ==
    ASSUME NEW b \in Budget, NEW q \in Slots, NEW p \in Slots, NEW r \in Nat,
           NEW m \in Nat, Covered(b, q, r, m),
           b.in_flight, Len(b.timestamps) >= 1, Len(p) = Len(q),
           \A i \in 1 .. Len(q) : i < Len(q) => p[i] = q[i]
    PROVE  Covered(b, p, r, m)
<1> DEFINE ts == b.timestamps
           gone == Len(q) - Len(b.timestamps)
<1>1. Len(ts) \in Nat /\ Len(q) \in Nat /\ gone \in Int
  BY BudgetTypes, SlotTypes
<1>2. gone >= 0  BY DEF Covered
<1>3. ASSUME NEW i \in 1 .. gone PROVE r - p[i].to >= Expiry
  <2>1. i \in 1 .. Len(q) /\ i < Len(q)  BY <1>1
  <2> QED  BY <2>1 DEF Covered
<1>4. ASSUME NEW i \in 1 .. Len(ts), i < Len(ts)
      PROVE  m - ts[i].mono <= r - p[gone + i].to
  <2>1. gone + i \in 1 .. Len(q) /\ gone + i < Len(q)
    <3>1. gone + Len(ts) = Len(q)  BY <1>1
    <3> HIDE DEF ts, gone
    <3> QED  BY <1>1, <1>2, <1>4, <3>1
  <2>2. m - ts[i].mono <= r - q[gone + i].to  BY <1>4 DEF Covered
  <2>3. p[gone + i] = q[gone + i]  BY <2>1
  <2> QED  BY <2>2, <2>3
<1> QED  BY <1>2, <1>3, <1>4 DEF Covered

\* A reservation takes a slot and is in flight.
LEMMA CoveredReserved ==
    ASSUME NEW b \in Budget, NEW q \in Slots, NEW r \in Nat, NEW m \in Nat,
           NEW now \in Reading, NEW e \in [from : Nat, to : Nat],
           ~b.in_flight, Covered(b, q, r, m)
    PROVE  Covered(Reserved(b, now), Append(q, e), r, m)
<1> DEFINE ts == b.timestamps
           us == Reserved(b, now).timestamps
           p == Append(q, e)
           gone == Len(q) - Len(b.timestamps)
<1>1. /\ ts \in Seq(Reading) /\ Len(ts) \in Nat
      /\ q \in Seq([from : Nat, to : Nat]) /\ Len(q) \in Nat /\ gone \in Int
  BY BudgetTypes, SlotTypes DEF Slots
<1>2. /\ us = Append(ts, now) /\ Reserved(b, now).in_flight
  BY DEF Reserved
<1>3. /\ Len(us) = Len(ts) + 1 /\ Len(p) = Len(q) + 1
      /\ \A i \in 1 .. Len(ts) : us[i] = ts[i]
      /\ \A i \in 1 .. Len(q) : p[i] = q[i]
  BY <1>1, <1>2, AppendProperties
<1>4. gone >= 0 /\ Len(p) - Len(us) = gone
  BY <1>1, <1>3 DEF Covered
<1>5. ASSUME NEW i \in 1 .. gone PROVE r - p[i].to >= Expiry
  <2>1. i \in 1 .. Len(q)  BY <1>1
  <2> QED  BY <2>1, <1>3 DEF Covered
<1>6. ASSUME NEW i \in 1 .. Len(us), i < Len(us)
      PROVE  m - us[i].mono <= r - p[gone + i].to
  <2>1. i \in Nat /\ i >= 1 /\ i < Len(ts) + 1
    <3>1. i \in 1 .. Len(us) /\ Len(us) = Len(ts) + 1  BY <1>3, <1>6
    <3> HIDE DEF us, ts
    <3> QED  BY <3>1, <1>1, <1>6
  <2>2. i \in 1 .. Len(ts) /\ gone + i \in 1 .. Len(q)
    <3>1. /\ gone + Len(ts) = Len(q) /\ gone >= 0 /\ gone \in Int
          /\ Len(ts) \in Int /\ Len(q) \in Int
      BY <1>1, <1>4
    <3>2. i \in Int /\ 1 <= i /\ i <= Len(ts)
      <4> HIDE DEF ts
      <4> QED  BY <2>1, <1>1
    <3> HIDE DEF ts, gone
    <3> QED  BY <3>1, <3>2, ShiftUp
  <2>3. m - ts[i].mono <= r - q[gone + i].to  BY <2>2 DEF Covered
  <2> QED  BY <2>2, <2>3, <1>3
<1> QED  BY <1>2, <1>4, <1>5, <1>6 DEF Covered

\* The state with its first n slots dropped, as Look leaves it.
Pruned(b, n) ==
    [b EXCEPT !.timestamps = SubSeq(b.timestamps, n + 1, Len(b.timestamps))]

LEMMA PrunedMeans ==
    ASSUME NEW b \in Budget, NEW n \in 0 .. Len(b.timestamps)
    PROVE  /\ Pruned(b, n) \in Budget
           /\ Pruned(b, n).last = b.last
           /\ Pruned(b, n).in_flight = b.in_flight
           /\ Len(Pruned(b, n).timestamps) = Len(b.timestamps) - n
           /\ \A i \in 1 .. Len(b.timestamps) - n :
                  Pruned(b, n).timestamps[i] = b.timestamps[n + i]
<1> DEFINE ts == b.timestamps
           kept == SubSeq(ts, n + 1, Len(ts))
<1>1. /\ ts \in Seq(Reading) /\ Len(ts) \in Nat
      /\ \A i \in 1 .. Len(ts) : ts[i] \in Reading
  BY BudgetTypes
<1>2. n + 1 \in Int /\ Len(ts) \in Int /\ n \in Int
  BY <1>1
<1>3. \A i \in n + 1 .. Len(ts) : ts[i] \in Reading
  BY <1>1, <1>2
<1>4. /\ kept \in Seq(Reading)
      /\ Len(kept) = IF n + 1 <= Len(ts) THEN Len(ts) - (n + 1) + 1 ELSE 0
      /\ \A i \in 1 .. Len(ts) - (n + 1) + 1 : kept[i] = ts[n + 1 + i - 1]
  <2> HIDE DEF ts
  <2> QED  BY <1>2, <1>3, SubSeqProperties
<1>5. Len(kept) = Len(ts) - n
  <2>1. Len(kept) = IF n + 1 <= Len(ts) THEN Len(ts) - (n + 1) + 1 ELSE 0
    BY <1>4
  <2>2. n <= Len(ts)  BY <1>1
  <2> HIDE DEF ts, kept
  <2> QED  BY <2>1, <2>2, <1>2
<1>6. ASSUME NEW i \in 1 .. Len(ts) - n PROVE kept[i] = ts[n + i]
  <2>1. i \in 1 .. Len(ts) - (n + 1) + 1 /\ n + 1 + i - 1 = n + i
    BY <1>2
  <2> QED  BY <2>1, <1>4
<1>7. /\ Pruned(b, n) \in Budget
      /\ Pruned(b, n).timestamps = kept
      /\ Pruned(b, n).last = b.last
      /\ Pruned(b, n).in_flight = b.in_flight
  <2>1. kept \in Seq(Reading)  BY <1>4
  <2>2. Pruned(b, n) = [b EXCEPT !.timestamps = kept]  BY DEF Pruned
  <2> HIDE DEF kept
  <2> QED  BY <2>1, <2>2 DEF Budget
<1> QED  BY <1>5, <1>6, <1>7

\* Slots whose monotonic age has reached Expiry are over.
LEMMA CoveredPruned ==
    ASSUME NEW b \in Budget, NEW q \in Slots, NEW r \in Nat,
           NEW now \in Reading, NEW n \in 0 .. Len(b.timestamps),
           ~b.in_flight, Covered(b, q, r, now.mono),
           \A i \in 1 .. n : ~Young(b.timestamps[i], now)
    PROVE  Covered(Pruned(b, n), q, r, now.mono)
<1> DEFINE ts == b.timestamps
           us == Pruned(b, n).timestamps
           gone == Len(q) - Len(b.timestamps)
<1>1. /\ Len(ts) \in Nat /\ Len(q) \in Nat /\ gone \in Int
      /\ gone + Len(ts) = Len(q) /\ now.mono \in Nat /\ n \in Nat
      /\ n <= Len(ts)
  BY BudgetTypes, SlotTypes DEF Reading
<1>2. gone >= 0 /\ \A i \in 1 .. gone : r - q[i].to >= Expiry
  BY DEF Covered
<1>3. ASSUME NEW i \in 1 .. Len(ts)
      PROVE  /\ gone + i \in 1 .. Len(q)
             /\ now.mono - ts[i].mono <= r - q[gone + i].to
             /\ ts[i].mono \in Nat /\ q[gone + i].to \in Nat
  <2>1. gone + i \in 1 .. Len(q)
    <3> HIDE DEF ts, gone
    <3> QED  BY <1>1, <1>2
  <2> QED  BY <2>1, BudgetTypes, SlotTypes DEF Covered
<1>4. /\ ~Pruned(b, n).in_flight /\ Len(us) = Len(ts) - n
      /\ \A i \in 1 .. Len(ts) - n : us[i] = ts[n + i]
  BY PrunedMeans
<1>5. Len(q) - Len(us) = gone + n
  <2>1. Len(us) = Len(ts) - n  BY <1>4
  <2> DEFINE k == Len(us)
             l == Len(ts)
             d == Len(q)
  <2>2. /\ k = l - n /\ gone + l = d
        /\ l \in Int /\ d \in Int /\ gone \in Int /\ n \in Int
    BY <2>1, <1>1
  <2> HIDE DEF k, l, d, gone
  <2>3. d - k = gone + n  BY <2>2
  <2> QED  BY <2>3 DEF k, d
<1>6. ASSUME NEW i \in 1 .. gone + n PROVE r - q[i].to >= Expiry
  <2>1. CASE i <= gone
    BY <2>1, <1>1, <1>2
  <2>2. CASE i > gone
    <3> DEFINE j == i - gone
    <3> HIDE DEF j
    <3>1. j \in 1 .. n /\ j \in 1 .. Len(ts) /\ i = gone + j
      <4>1. /\ gone \in Int /\ gone >= 0 /\ Len(ts) \in Int
            /\ n \in Int /\ n <= Len(ts)
        BY <1>1, <1>2
      <4>2. i \in Int /\ gone < i /\ i <= gone + n
        <5> HIDE DEF gone
        <5> QED  BY <4>1, <2>2
      <4> HIDE DEF ts, gone
      <4> QED  BY <4>1, <4>2, ShiftDown DEF j
    <3>2. now.mono - ts[j].mono >= Expiry
      <4>1. /\ ~(now.mono - ts[j].mono < Expiry)
            /\ ts[j].mono \in Nat
        BY <3>1, <1>3 DEF Young
      <4> QED  BY <4>1, <1>1, RateLimitAssumption
    <3>3. /\ now.mono - ts[j].mono <= r - q[i].to
          /\ ts[j].mono \in Nat /\ q[i].to \in Nat
      BY <3>1, <1>3
    <3> DEFINE t == ts[j].mono
               e == q[i].to
    <3>4. /\ now.mono - t >= Expiry /\ now.mono - t <= r - e
          /\ t \in Nat /\ e \in Nat
      BY <3>2, <3>3
    <3> HIDE DEF t, e
    <3>5. r - e >= Expiry  BY <3>4, <1>1, RateLimitAssumption
    <3> QED  BY <3>5 DEF e
  <2> QED  BY <2>1, <2>2, <1>1
<1>7. ASSUME NEW i \in 1 .. Len(us)
      PROVE  now.mono - us[i].mono <= r - q[gone + n + i].to
  <2>1. /\ n + i \in 1 .. Len(ts) /\ i \in 1 .. Len(ts) - n
        /\ gone + (n + i) = gone + n + i
    <3>1. Len(us) = Len(ts) - n /\ i \in 1 .. Len(us)  BY <1>4, <1>7
    <3> DEFINE l == Len(ts)
    <3>2. /\ i \in 1 .. l - n /\ l \in Nat /\ n \in Nat
          /\ gone \in Int
      <4> HIDE DEF us, gone
      <4> QED  BY <3>1, <1>1
    <3> HIDE DEF l, gone
    <3>3. n + i \in 1 .. l /\ gone + (n + i) = gone + n + i  BY <3>2
    <3> QED  BY <3>2, <3>3 DEF l
  <2>2. now.mono - ts[n + i].mono <= r - q[gone + (n + i)].to
    BY <2>1, <1>3
  <2> QED  BY <2>1, <2>2, <1>4
<1>8. gone + n >= 0  BY <1>1, <1>2
<1> DEFINE rest == gone + n
<1> HIDE DEF rest, us
<1>9. /\ Len(q) - Len(us) = rest /\ rest >= 0
      /\ \A i \in 1 .. rest : r - q[i].to >= Expiry
      /\ \A i \in 1 .. Len(us) :
             now.mono - us[i].mono <= r - q[rest + i].to
  BY <1>5, <1>6, <1>7, <1>8 DEF rest
<1> QED  BY <1>9 DEF Covered, us

\* When every reservation is over, nothing need be held.
LEMMA CoveredFresh ==
    ASSUME NEW q \in Slots, NEW r \in Nat, NEW m \in Nat, NEW now,
           \A i \in 1 .. Len(q) : r - q[i].to >= Expiry
    PROVE  Covered(Fresh(now), q, r, m)
<1>1. Len(Fresh(now).timestamps) = 0 /\ Len(q) \in Nat
  BY SlotTypes DEF Fresh
<1> QED  BY <1>1 DEF Covered

-----------------------------------------------------------------------------
LEMMA NotBeforeTransitive ==
    ASSUME NEW a \in Reading, NEW b \in Reading, NEW d \in Reading,
           NotBefore(a, b), NotBefore(b, d)
    PROVE  NotBefore(a, d)
BY DEF NotBefore, Reading

LEMMA NotBeforeReflexive ==
    ASSUME NEW a \in Reading
    PROVE  NotBefore(a, a)
BY DEF NotBefore, Reading

LEMMA SettledMeans ==
    ASSUME NEW b \in Budget, NEW now \in Reading, Len(b.timestamps) >= 1
    PROVE  /\ Settled(b, now) \in Budget
           /\ Len(Settled(b, now).timestamps) = Len(b.timestamps)
           /\ Settled(b, now).timestamps[Len(b.timestamps)] = now
           /\ \A i \in 1 .. Len(b.timestamps) : i # Len(b.timestamps) =>
                  Settled(b, now).timestamps[i] = b.timestamps[i]
           /\ ~Settled(b, now).in_flight
           /\ Settled(b, now).last = now
<1> DEFINE ts == b.timestamps
           us == [ts EXCEPT ![Len(ts)] = now]
<1>1. ts \in Seq(Reading) /\ Len(ts) \in 1 .. Len(ts)
  BY BudgetTypes
<1>2. /\ us \in Seq(Reading) /\ Len(us) = Len(ts) /\ us[Len(ts)] = now
      /\ \A i \in 1 .. Len(ts) : i # Len(ts) => us[i] = ts[i]
  <2> HIDE DEF ts
  <2> QED  BY <1>1, ExceptSeq
<1>3. Settled(b, now) = [timestamps |-> us, last |-> now, in_flight |-> FALSE]
  BY DEF Settled
<1> HIDE DEF us
<1> QED  BY <1>2, <1>3 DEF Budget

LEMMA SettledWellFormed ==
    ASSUME NEW b \in Budget, NEW now \in Reading, Len(b.timestamps) >= 1,
           WellFormed(b), NotBefore(b.last, now)
    PROVE  WellFormed(Settled(b, now))
<1> DEFINE ts == b.timestamps
           us == Settled(b, now).timestamps
           k == Len(b.timestamps)
<1>1. /\ k \in Nat /\ k >= 1 /\ b.last \in Reading
      /\ \A i \in 1 .. k : ts[i] \in Reading
  BY BudgetTypes
<1>2. /\ Settled(b, now) \in Budget /\ Len(us) = k /\ us[k] = now
      /\ \A i \in 1 .. k : i # k => us[i] = ts[i]
      /\ ~Settled(b, now).in_flight /\ Settled(b, now).last = now
  BY SettledMeans
<1>3. /\ k <= MaxSlots
      /\ \A i \in 1 .. k - 1 : NotBefore(ts[i], ts[i + 1])
      /\ NotBefore(ts[k], b.last)
  BY <1>1, WellFormedMeans
<1>4. NotBefore(ts[k], now)
  <2>1. ts[k] \in Reading  BY <1>1
  <2> QED  BY <2>1, <1>1, <1>3, NotBeforeTransitive
<1>5. ASSUME NEW i \in 1 .. k - 1
      PROVE  NotBefore(us[i], us[i + 1])
  <2> HIDE DEF ts, us, k
  <2>1. /\ i \in 1 .. k /\ i # k /\ i + 1 \in 1 .. k /\ k \in 1 .. k
    BY <1>1
  <2>2. us[i] = ts[i] /\ NotBefore(ts[i], ts[i + 1])
    BY <2>1, <1>2, <1>3
  <2>3. CASE i + 1 = k
    <3>1. NotBefore(ts[i], now)
      <4>1. NotBefore(ts[i], ts[k]) /\ ts[i] \in Reading /\ ts[k] \in Reading
        BY <2>1, <2>2, <2>3, <1>1
      <4> QED  BY <4>1, <1>4, NotBeforeTransitive
    <3> QED  BY <3>1, <2>2, <2>3, <1>2
  <2>4. CASE i + 1 # k
    BY <2>1, <2>2, <2>4, <1>2
  <2> QED  BY <2>3, <2>4
<1>6. NotBefore(us[k], now)  BY <1>2, NotBeforeReflexive
<1>7. \A i \in 1 .. Len(us) - 1 : NotBefore(us[i], us[i + 1])
  BY <1>2, <1>5
<1>8. NotBefore(us[Len(us)], Settled(b, now).last)
  BY <1>2, <1>6
<1>9. Len(us) <= MaxSlots  BY <1>2, <1>3
<1> HIDE DEF us, ts, k
<1> QED  BY <1>2, <1>7, <1>8, <1>9, WellFormedMeans DEF us

LEMMA ReservedMeans ==
    ASSUME NEW b \in Budget, NEW now \in Reading
    PROVE  /\ Reserved(b, now) \in Budget
           /\ Len(Reserved(b, now).timestamps) = Len(b.timestamps) + 1
           /\ Reserved(b, now).timestamps[Len(b.timestamps) + 1] = now
           /\ \A i \in 1 .. Len(b.timestamps) :
                  Reserved(b, now).timestamps[i] = b.timestamps[i]
           /\ Reserved(b, now).in_flight
           /\ Reserved(b, now).last = now
<1> DEFINE ts == b.timestamps
           us == Append(ts, now)
<1>1. ts \in Seq(Reading)  BY BudgetTypes
<1>2. /\ us \in Seq(Reading) /\ Len(us) = Len(ts) + 1
      /\ us[Len(ts) + 1] = now
      /\ \A i \in 1 .. Len(ts) : us[i] = ts[i]
  <2> HIDE DEF ts
  <2> QED  BY <1>1, AppendProperties
<1>3. Reserved(b, now) = [timestamps |-> us, last |-> now, in_flight |-> TRUE]
  BY DEF Reserved
<1> HIDE DEF us
<1> QED  BY <1>2, <1>3 DEF Budget

LEMMA ReservedWellFormed ==
    ASSUME NEW b \in Budget, NEW now \in Reading, WellFormed(b),
           Len(b.timestamps) < MaxSlots, NotBefore(b.last, now)
    PROVE  WellFormed(Reserved(b, now))
<1> DEFINE ts == b.timestamps
           us == Reserved(b, now).timestamps
           k == Len(b.timestamps)
<1>1. /\ k \in Nat /\ b.last \in Reading
      /\ \A i \in 1 .. k : ts[i] \in Reading
  BY BudgetTypes
<1>2. /\ Reserved(b, now) \in Budget /\ Len(us) = k + 1 /\ us[k + 1] = now
      /\ \A i \in 1 .. k : us[i] = ts[i]
      /\ Reserved(b, now).last = now
  BY ReservedMeans
<1>3. /\ \A i \in 1 .. k - 1 : NotBefore(ts[i], ts[i + 1])
      /\ k >= 1 => NotBefore(ts[k], b.last)
  BY WellFormedMeans
<1>4. ASSUME k >= 1 PROVE NotBefore(ts[k], now)
  <2>1. ts[k] \in Reading  BY <1>1, <1>4
  <2> QED  BY <2>1, <1>1, <1>3, <1>4, NotBeforeTransitive
<1>5. ASSUME NEW i \in 1 .. k
      PROVE  NotBefore(us[i], us[i + 1])
  <2> HIDE DEF ts, us, k
  <2>1. k >= 1 /\ us[i] = ts[i]  BY <1>1, <1>2
  <2>2. CASE i = k
    BY <2>1, <2>2, <1>2, <1>4
  <2>3. CASE i # k
    <3>1. i \in 1 .. k - 1 /\ i + 1 \in 1 .. k  BY <1>1, <2>3
    <3> QED  BY <3>1, <2>1, <1>2, <1>3
  <2> QED  BY <2>2, <2>3
<1>6. Len(us) <= MaxSlots /\ Len(us) >= 1
  <2>1. k < MaxSlots /\ Len(us) = k + 1  BY <1>2
  <2> HIDE DEF us, k
  <2> QED  BY <2>1, <1>1, RateLimitAssumption
<1>7. \A i \in 1 .. Len(us) - 1 : NotBefore(us[i], us[i + 1])
  <2>1. Len(us) - 1 = k  BY <1>1, <1>2
  <2> QED  BY <2>1, <1>5
<1>8. NotBefore(us[Len(us)], Reserved(b, now).last)
  BY <1>2, NotBeforeReflexive
<1> HIDE DEF us, ts, k
<1> QED  BY <1>2, <1>6, <1>7, <1>8, WellFormedMeans DEF us

LEMMA PrunedWellFormed ==
    ASSUME NEW b \in Budget, NEW n \in 0 .. Len(b.timestamps),
           WellFormed(b), ~b.in_flight
    PROVE  WellFormed(Pruned(b, n))
<1> DEFINE ts == b.timestamps
           us == Pruned(b, n).timestamps
           k == Len(b.timestamps)
<1>1. k \in Nat /\ n \in Nat /\ n <= k
  BY BudgetTypes
<1>2. /\ Pruned(b, n) \in Budget /\ Len(us) = k - n
      /\ \A i \in 1 .. k - n : us[i] = ts[n + i]
      /\ Pruned(b, n).last = b.last /\ ~Pruned(b, n).in_flight
  BY PrunedMeans
<1>3. /\ k <= MaxSlots
      /\ \A i \in 1 .. k - 1 : NotBefore(ts[i], ts[i + 1])
      /\ k >= 1 => NotBefore(ts[k], b.last)
  BY WellFormedMeans
<1> DEFINE l == k - n
<1>4. ASSUME NEW i \in 1 .. l - 1
      PROVE  NotBefore(us[i], us[i + 1])
  <2>1. /\ i \in 1 .. k - n /\ i + 1 \in 1 .. k - n
        /\ n + i \in 1 .. k - 1 /\ n + (i + 1) = (n + i) + 1
    <3> HIDE DEF k
    <3> QED  BY <1>1
  <2> QED  BY <2>1, <1>2, <1>3
<1>5. ASSUME l >= 1 PROVE NotBefore(us[l], b.last)
  <2>1. l \in 1 .. k - n /\ n + l = k /\ k >= 1
    <3> HIDE DEF k
    <3> QED  BY <1>1, <1>5
  <2> QED  BY <2>1, <1>2, <1>3
<1>6. Len(us) = l /\ l <= MaxSlots
  <2>1. Len(us) = l  BY <1>2
  <2> HIDE DEF k, us
  <2> QED  BY <2>1, <1>1, <1>3, RateLimitAssumption
<1> HIDE DEF us, ts, k, l
<1>7. /\ Len(us) <= MaxSlots
      /\ \A i \in 1 .. Len(us) - 1 : NotBefore(us[i], us[i + 1])
      /\ Len(us) >= 1 => NotBefore(us[Len(us)], b.last)
  BY <1>4, <1>5, <1>6
<1> QED  BY <1>2, <1>7, WellFormedMeans DEF us

LEMMA FreshMeans ==
    ASSUME NEW now \in Reading
    PROVE  /\ Fresh(now) \in Budget /\ WellFormed(Fresh(now))
           /\ Len(Fresh(now).timestamps) = 0 /\ Fresh(now).last = now
           /\ ~Fresh(now).in_flight
<1>1. /\ Fresh(now) \in Budget /\ Len(Fresh(now).timestamps) = 0
      /\ Fresh(now).last = now /\ ~Fresh(now).in_flight
  BY EmptySeq DEF Fresh, Budget
<1> QED  BY <1>1, WellFormedMeans, RateLimitAssumption

-----------------------------------------------------------------------------
\* A state that can be loaded and accounts for every reservation.
Good(b) == WellFormed(b) /\ Covered(b, requests, real, clock.mono)

HistoryInv ==
    /\ requests \in Slots
    /\ \A i \in 1 .. Len(requests) : requests[i].to <= real
    /\ RollingBudget

DiskInv ==
    /\ disk \in [present : BOOLEAN, marked : BOOLEAN, budget : Budget]
    /\ Len(disk.budget.timestamps) <= MaxSlots
    /\ disk.present => Good(disk.budget)
    /\ ~disk.present /\ ~disk.marked => requests = <<>>

\* What the owner of the lock knows at each of its steps.
OwnerInv(c) ==
    LET p == proc[c] IN
    /\ p.at \in {"loaded", "opened", "looking", "reserving", "sending", "sent"}
           => Good(p.state)
    /\ p.at \in {"looking", "reserving"} => ~p.state.in_flight
    /\ p.at \in {"looking", "reserving", "sending", "sent"}
           => NotBefore(p.state.last, p.seen)
    /\ p.at = "reserving" => Len(p.state.timestamps) < MaxSlots
    /\ p.at \in {"sending", "sent"} => p.state.in_flight
    /\ p.at = "sending" => (disk.present => disk.budget.in_flight)
    /\ p.at = "settling" =>
           \A i \in 1 .. Len(requests) :
               clock.mono - p.start.mono <= real - requests[i].to

\* Exactly the owner of the lock is inside.
Exclusive ==
    /\ lock \in Callers \cup {None}
    /\ \A c \in Callers : proc[c].at \in Inside <=> lock = c

BudgetInv ==
    /\ real \in Nat /\ clock \in Reading /\ faults \in Nat
    /\ proc \in [Callers -> Locals]
    /\ HistoryInv /\ DiskInv /\ Exclusive
    /\ \A c \in Callers : OwnerInv(c)

LEMMA BudgetInvImplies == BudgetInv => TypeOK /\ RollingBudget /\ SavedStateLoads
BY DEF BudgetInv, HistoryInv, DiskInv, Exclusive, TypeOK, SavedStateLoads, Good,
       Slots

LEMMA InsideNames ==
    ASSUME NEW x
    PROVE  x \in Inside <=> x \in {"loaded", "looking", "reserving", "sending",
                                   "sent", "opened", "settling"}
BY DEF Inside

LEMMA ZeroIsReading == Zero \in Reading
BY DEF Zero, Reading

LEMMA IdleIsLocals == Idle \in Locals /\ Idle.at = "idle"
<1>1. MaxSlots \in 1 .. MaxSlots  BY RateLimitAssumption
<1>2. Fresh(Zero) \in Budget  BY FreshMeans, ZeroIsReading
<1> QED  BY <1>1, <1>2, ZeroIsReading DEF Idle, Locals

LEMMA IdleOwner ==
    ASSUME NEW c \in Callers, proc[c].at \notin Inside
    PROVE  OwnerInv(c)
BY InsideNames DEF OwnerInv

LEMMA InitInv == Init => BudgetInv
<1> SUFFICES ASSUME Init PROVE BudgetInv
  OBVIOUS
<1>1. /\ real = 0 /\ clock = Zero /\ faults = 0 /\ lock = None
      /\ proc = [c \in Callers |-> Idle] /\ requests = <<>>
      /\ disk = [present |-> FALSE, marked |-> FALSE, budget |-> Fresh(Zero)]
  BY DEF Init
<1>2. requests \in Slots /\ Len(requests) = 0
  BY <1>1, EmptySeq DEF Slots
<1>3. HistoryInv
  BY <1>2, RateLimitAssumption DEF HistoryInv, RollingBudget
<1>4. DiskInv
  <2>1. Fresh(Zero) \in Budget /\ Len(Fresh(Zero).timestamps) = 0
    BY FreshMeans, ZeroIsReading
  <2> QED  BY <2>1, <1>1, RateLimitAssumption DEF DiskInv
<1>5. \A c \in Callers : proc[c] = Idle /\ proc[c].at \notin Inside
  BY <1>1, IdleIsLocals, InsideNames
<1>6. Exclusive
  BY <1>1, <1>5, RateLimitAssumption DEF Exclusive
<1>7. \A c \in Callers : OwnerInv(c)
  BY <1>5, IdleOwner
<1>8. proc \in [Callers -> Locals]
  BY <1>1, IdleIsLocals
<1> QED  BY <1>1, <1>3, <1>4, <1>6, <1>7, <1>8, ZeroIsReading DEF BudgetInv

-----------------------------------------------------------------------------
\* Good states stay good while time passes.
LEMMA GoodLater ==
    ASSUME BudgetInv, NEW b \in Budget, Good(b), requests' = requests,
           real' \in Nat, clock' \in Reading, real' >= real,
           clock'.mono - clock.mono <= real' - real
    PROVE  WellFormed(b) /\ Covered(b, requests', real', clock'.mono)
<1>1. /\ requests \in Slots /\ real \in Nat
      /\ clock.mono \in Nat /\ clock'.mono \in Nat
  BY DEF BudgetInv, HistoryInv, Reading
<1> QED  BY <1>1, CoveredLater DEF Good

LEMMA TimeKeepsInv ==
    ASSUME BudgetInv, UNCHANGED <<disk, lock, proc, requests>>, faults' \in Nat,
           real' \in Nat, clock' \in Reading, real' >= real,
           clock'.mono - clock.mono <= real' - real
    PROVE  BudgetInv'
<1>1. /\ real \in Nat /\ clock.mono \in Nat /\ clock'.mono \in Nat
      /\ requests \in Slots /\ proc \in [Callers -> Locals]
  BY DEF BudgetInv, HistoryInv, Reading
<1>2. HistoryInv'
  <2>1. ASSUME NEW i \in 1 .. Len(requests) PROVE requests[i].to <= real'
    BY <1>1, SlotTypes DEF BudgetInv, HistoryInv
  <2> QED  BY <2>1 DEF BudgetInv, HistoryInv, RollingBudget
<1>3. DiskInv'
  <2>1. disk.present => Good(disk.budget)' 
    BY GoodLater DEF BudgetInv, DiskInv, Good
  <2> QED  BY <2>1 DEF BudgetInv, DiskInv
<1>4. Exclusive'
  BY DEF BudgetInv, Exclusive
<1>5. ASSUME NEW c \in Callers PROVE OwnerInv(c)'
  <2>1. proc[c].state \in Budget /\ proc[c].start.mono \in Nat
    BY <1>1 DEF Locals, Reading
  <2>2. Good(proc[c].state) => Good(proc[c].state)'
    BY <2>1, GoodLater DEF Good
  <2>3. OwnerInv(c)  BY DEF BudgetInv
  <2>4. ASSUME proc[c].at = "settling", NEW i \in 1 .. Len(requests)
        PROVE  clock'.mono - proc[c].start.mono <= real' - requests[i].to
    <3>1. clock.mono - proc[c].start.mono <= real - requests[i].to
      BY <2>3, <2>4 DEF OwnerInv
    <3>2. requests[i].to \in Nat  BY <1>1, SlotTypes
    <3> DEFINE t == requests[i].to
               u == proc[c].start.mono
               m == clock.mono
               m2 == clock'.mono
               r == real
               r2 == real'
    <3>3. /\ m - u <= r - t /\ m2 - m <= r2 - r
          /\ t \in Int /\ u \in Int /\ m \in Int /\ m2 \in Int
          /\ r \in Int /\ r2 \in Int
      BY <1>1, <2>1, <3>1, <3>2
    <3> HIDE DEF t, u, m, m2, r, r2
    <3>4. m2 - u <= r2 - t  BY <3>3
    <3> QED  BY <3>4 DEF t, u, m2, r2
  <2>5. proc' = proc /\ disk' = disk /\ requests' = requests
    OBVIOUS
  <2>6. proc'[c].at = "settling" =>
            \A i \in 1 .. Len(requests') :
                clock'.mono - proc'[c].start.mono <= real' - requests'[i].to
    BY <2>4, <2>5
  <2>7. proc'[c].at \in {"loaded", "opened", "looking", "reserving", "sending",
                         "sent"} => Good(proc[c].state)'
    BY <2>2, <2>3, <2>5 DEF OwnerInv
  <2> QED  BY <2>3, <2>5, <2>6, <2>7 DEF OwnerInv
<1> QED  BY <1>2, <1>3, <1>4, <1>5 DEF BudgetInv

\* A step of caller c: what it must leave for the invariant to be kept.  It
\* owns the lock before or after, or it is outside and touches nothing shared.
LEMMA CallerStep ==
    ASSUME BudgetInv, NEW c \in Callers, UNCHANGED <<real, clock>>,
           faults' \in Nat, proc' \in [Callers -> Locals],
           \A d \in Callers : d # c => proc'[d] = proc[d],
           \/ lock \in {c, None} /\ lock' \in {c, None}
           \/ lock' = lock /\ lock # c /\ UNCHANGED <<disk, requests>>,
           proc'[c].at \in Inside <=> lock' = c,
           OwnerInv(c)', HistoryInv', DiskInv'
    PROVE  BudgetInv'
<1>1. None \notin Callers  BY RateLimitAssumption
<1>2. Exclusive  BY DEF BudgetInv
<1>3. Exclusive'
  BY <1>1, <1>2 DEF Exclusive
<1>4. ASSUME NEW d \in Callers, d # c PROVE OwnerInv(d)'
  <2>1. CASE lock \in {c, None}
    <3>1. proc'[d].at \notin Inside  BY <2>1, <1>1, <1>2, <1>4 DEF Exclusive
    <3> QED  BY <3>1, InsideNames DEF OwnerInv
  <2>2. CASE lock \notin {c, None}
    <3>1. UNCHANGED <<real, clock, disk, requests>> /\ proc'[d] = proc[d]
      BY <2>2, <1>4
    <3>2. OwnerInv(d)  BY DEF BudgetInv
    <3> QED  BY <3>1, <3>2 DEF OwnerInv, Good
  <2> QED  BY <2>1, <2>2
<1>5. real' \in Nat /\ clock' \in Reading  BY DEF BudgetInv
<1> QED  BY <1>3, <1>4, <1>5 DEF BudgetInv

\* Nothing shared has changed.
LEMMA SharedKept ==
    ASSUME BudgetInv, UNCHANGED <<real, clock, disk, requests>>
    PROVE  HistoryInv' /\ DiskInv'
BY DEF BudgetInv, HistoryInv, DiskInv, RollingBudget, Good

\* Caller c leaves and gives back the lock.
LEMMA ReleaseStep ==
    ASSUME BudgetInv, NEW c \in Callers, UNCHANGED <<real, clock>>,
           faults' \in Nat, Release(c), HistoryInv', DiskInv',
           lock = c \/ UNCHANGED <<disk, requests>>
    PROVE  BudgetInv'
<1>1. /\ proc \in [Callers -> Locals] /\ lock \in Callers \cup {None}
      /\ None \notin Callers
  BY RateLimitAssumption DEF BudgetInv, Exclusive
<1>2. proc' \in [Callers -> Locals] /\ proc'[c] = Idle
      /\ \A d \in Callers : d # c => proc'[d] = proc[d]
  BY <1>1, IdleIsLocals DEF Release
<1>3. proc'[c].at \notin Inside
  BY <1>2, IdleIsLocals, InsideNames
<1>4. OwnerInv(c)'
  BY <1>3, InsideNames DEF OwnerInv
<1>5. lock' # c /\ lock' = IF lock = c THEN None ELSE lock
  BY <1>1 DEF Release
<1> QED  BY <1>2, <1>3, <1>4, <1>5, CallerStep

-----------------------------------------------------------------------------
LEMMA TickKeeps == BudgetInv /\ Tick => BudgetInv'
<1> SUFFICES ASSUME BudgetInv, Tick PROVE BudgetInv'
  OBVIOUS
<1>1. real \in Nat /\ clock \in Reading /\ clock.mono \in Nat /\ clock.wall \in Nat
      /\ faults \in Nat
  BY DEF BudgetInv, Reading
<1>2. /\ real' = real + 1 /\ UNCHANGED <<disk, lock, proc, requests, faults>>
      /\ clock' = [wall |-> clock.wall + 1, mono |-> clock.mono + 1]
  BY DEF Tick, TimePasses
<1>3. /\ real' \in Nat /\ real' >= real /\ clock' \in Reading
      /\ clock'.mono = clock.mono + 1
  BY <1>1, <1>2 DEF Reading
<1>4. clock'.mono - clock.mono <= real' - real
  BY <1>1, <1>2, <1>3
<1> QED  BY <1>1, <1>2, <1>3, <1>4, TimeKeepsInv

LEMMA SuspendKeeps == BudgetInv /\ Suspend => BudgetInv'
<1> SUFFICES ASSUME BudgetInv, Suspend PROVE BudgetInv'
  OBVIOUS
<1>1. real \in Nat /\ clock \in Reading /\ clock.mono \in Nat /\ clock.wall \in Nat
      /\ faults \in Nat
  BY DEF BudgetInv, Reading
<1>2. /\ real' = real + 1 /\ UNCHANGED <<disk, lock, proc, requests>>
      /\ faults' = faults + 1
      /\ clock' = [clock EXCEPT !.wall = @ + 1]
  BY DEF Suspend, TimePasses, Fault
<1>3. /\ real' \in Nat /\ real' >= real /\ clock' \in Reading
      /\ clock'.mono = clock.mono /\ faults' \in Nat
  BY <1>1, <1>2 DEF Reading
<1>4. clock'.mono - clock.mono <= real' - real
  BY <1>1, <1>2, <1>3
<1> QED  BY <1>1, <1>2, <1>3, <1>4, TimeKeepsInv

LEMMA AdjustWallKeeps == BudgetInv /\ AdjustWall => BudgetInv'
<1> SUFFICES ASSUME BudgetInv, AdjustWall PROVE BudgetInv'
  OBVIOUS
<1>1. real \in Nat /\ clock \in Reading /\ clock.mono \in Nat /\ clock.wall \in Nat
      /\ faults \in Nat
  BY DEF BudgetInv, Reading
<1>2. PICK step \in Adjustments :
          /\ clock.wall + step >= 0
          /\ clock' = [clock EXCEPT !.wall = @ + step]
  BY DEF AdjustWall
<1>3. step \in Int  BY RateLimitAssumption
<1>4. /\ real' = real /\ UNCHANGED <<disk, lock, proc, requests>>
      /\ faults' = faults + 1
  BY DEF AdjustWall, Fault
<1>5. /\ real' \in Nat /\ real' >= real /\ clock' \in Reading
      /\ clock'.mono = clock.mono /\ faults' \in Nat
  BY <1>1, <1>2, <1>3, <1>4 DEF Reading
<1>6. clock'.mono - clock.mono <= real' - real
  BY <1>1, <1>4, <1>5
<1> QED  BY <1>4, <1>5, <1>6, TimeKeepsInv

LEMMA DeleteKeeps == BudgetInv /\ Delete => BudgetInv'
<1> SUFFICES ASSUME BudgetInv, Delete PROVE BudgetInv'
  OBVIOUS
<1>1. /\ UNCHANGED <<real, clock, lock, proc, requests>> /\ faults' = faults + 1
      /\ disk' = [disk EXCEPT !.present = FALSE, !.budget = Fresh(Zero)]
      /\ disk.marked
  BY DEF Delete, Fault
<1>2. faults' \in Nat /\ real' \in Nat /\ clock' \in Reading
      /\ proc' \in [Callers -> Locals]
  BY <1>1 DEF BudgetInv
<1>3. /\ disk \in [present : BOOLEAN, marked : BOOLEAN, budget : Budget]
      /\ Fresh(Zero) \in Budget /\ Len(Fresh(Zero).timestamps) = 0
  BY FreshMeans, ZeroIsReading DEF BudgetInv, DiskInv
<1>4. /\ disk' \in [present : BOOLEAN, marked : BOOLEAN, budget : Budget]
      /\ ~disk'.present /\ disk'.marked /\ disk'.budget = Fresh(Zero)
  BY <1>1, <1>3
<1>5. DiskInv'
  BY <1>3, <1>4, RateLimitAssumption DEF DiskInv
<1>6. HistoryInv' /\ Exclusive'
  BY <1>1 DEF BudgetInv, HistoryInv, RollingBudget, Exclusive
<1>7. ASSUME NEW c \in Callers PROVE OwnerInv(c)'
  <2>1. OwnerInv(c)  BY DEF BudgetInv
  <2> QED  BY <2>1, <1>1, <1>4 DEF OwnerInv, Good
<1> QED  BY <1>2, <1>5, <1>6, <1>7 DEF BudgetInv

-----------------------------------------------------------------------------
LEMMA EndedMeans ==
    ASSUME BudgetInv, Len(requests) >= 1
    PROVE  /\ Ended \in Slots /\ Len(Ended) = Len(requests)
           /\ \A i \in 1 .. Len(requests) :
                  /\ Ended[i].from = requests[i].from
                  /\ i < Len(requests) => Ended[i] = requests[i]
                  /\ i = Len(requests) => Ended[i].to = real
<1> DEFINE k == Len(requests)
           e == [requests[k] EXCEPT !.to = real]
<1>1. /\ requests \in Slots /\ real \in Nat /\ k \in 1 .. k /\ k \in Nat
      /\ requests[k] \in [from : Nat, to : Nat]
  BY SlotTypes DEF BudgetInv, HistoryInv
<1>2. e \in [from : Nat, to : Nat] /\ e.from = requests[k].from /\ e.to = real
  BY <1>1
<1>3. Ended = [requests EXCEPT ![k] = e]
  BY DEF Ended
<1>4. /\ Ended \in Slots /\ Len(Ended) = k
      /\ \A i \in 1 .. k : Ended[i] = IF i = k THEN e ELSE requests[i]
  <2>1. requests \in Seq([from : Nat, to : Nat])  BY <1>1 DEF Slots
  <2> HIDE DEF e
  <2>2. /\ [requests EXCEPT ![k] = e] \in Seq([from : Nat, to : Nat])
        /\ Len([requests EXCEPT ![k] = e]) = Len(requests)
        /\ \A i \in 1 .. Len(requests) :
               [requests EXCEPT ![k] = e][i] = IF i = k THEN e ELSE requests[i]
    BY <2>1, <1>1, <1>2, ExceptSeq
  <2> QED  BY <2>2, <1>3 DEF Slots
<1> HIDE DEF e
<1> QED  BY <1>1, <1>2, <1>4

\* The owner is sending: the request is on record and the last one.
LEMMA SendingMeans ==
    ASSUME BudgetInv, NEW c \in Callers, proc[c].at = "sending"
    PROVE  /\ Len(requests) >= 1 /\ lock = c
           /\ proc[c].state \in Budget /\ Good(proc[c].state)
           /\ Len(proc[c].state.timestamps) >= 1
           /\ proc[c].state.in_flight
           /\ disk.present => disk.budget.in_flight
           /\ NotBefore(proc[c].state.last, proc[c].seen)
<1>1. OwnerInv(c) /\ proc[c].state \in Budget /\ requests \in Slots
  BY DEF BudgetInv, HistoryInv, Locals
<1>2. /\ Good(proc[c].state) /\ proc[c].state.in_flight
      /\ disk.present => disk.budget.in_flight
      /\ NotBefore(proc[c].state.last, proc[c].seen)
  BY <1>1 DEF OwnerInv
<1>3. Len(proc[c].state.timestamps) >= 1
  BY <1>1, <1>2, WellFormedMeans DEF Good
<1>4. Len(requests) - Len(proc[c].state.timestamps) >= 0
  BY <1>2 DEF Good, Covered
<1>5. Len(requests) >= 1
  BY <1>1, <1>3, <1>4, SlotTypes, BudgetTypes
<1>6. lock = c
  BY InsideNames DEF BudgetInv, Exclusive
<1> QED  BY <1>1, <1>2, <1>3, <1>5, <1>6

\* A budget that holds the request in flight stays good when it ends.
LEMMA EndedGood ==
    ASSUME BudgetInv, Len(requests) >= 1, NEW b \in Budget, Good(b),
           b.in_flight
    PROVE  WellFormed(b) /\ Covered(b, Ended, real, clock.mono)
<1>1. /\ requests \in Slots /\ real \in Nat /\ clock.mono \in Nat
      /\ Ended \in Slots /\ Len(Ended) = Len(requests)
      /\ \A i \in 1 .. Len(requests) : i < Len(requests) => Ended[i] = requests[i]
  BY EndedMeans DEF BudgetInv, HistoryInv, Reading
<1>2. Len(b.timestamps) >= 1
  BY WellFormedMeans DEF Good
<1> QED  BY <1>1, <1>2, CoveredEnded DEF Good

LEMMA EndedHistory ==
    ASSUME BudgetInv, Len(requests) >= 1, requests' = Ended, real' = real
    PROVE  HistoryInv' /\ requests # <<>>
<1>1. /\ requests \in Slots /\ requests' \in Slots
      /\ Len(requests) \in Nat /\ real \in Nat /\ real' = real
  BY EndedMeans, SlotTypes DEF BudgetInv, HistoryInv
<1>2. /\ Len(requests') = Len(requests)
      /\ \A i \in 1 .. Len(requests) :
             /\ requests'[i].from = requests[i].from
             /\ i < Len(requests) => requests'[i] = requests[i]
             /\ i = Len(requests) => requests'[i].to = real
  BY EndedMeans
<1>3. ASSUME NEW i \in 1 .. Len(requests') PROVE requests'[i].to <= real'
  <2>1. i \in 1 .. Len(requests)  BY <1>2
  <2>2. CASE i < Len(requests)
    BY <2>1, <2>2, <1>1, <1>2 DEF BudgetInv, HistoryInv
  <2>3. CASE i = Len(requests)
    BY <2>1, <2>3, <1>1, <1>2
  <2> QED  BY <2>1, <2>2, <2>3, <1>1
<1>4. ASSUME NEW i \in 1 .. Len(requests') - MaxSlots
      PROVE  requests'[i + MaxSlots].from - requests'[i].to >= Expiry
  <2>1. /\ i \in 1 .. Len(requests) - MaxSlots
        /\ i \in 1 .. Len(requests) /\ i < Len(requests)
        /\ i + MaxSlots \in 1 .. Len(requests)
    BY <1>1, <1>2, RateLimitAssumption
  <2>2. requests[i + MaxSlots].from - requests[i].to >= Expiry
    BY <2>1 DEF BudgetInv, HistoryInv, RollingBudget
  <2> QED  BY <2>1, <2>2, <1>2
<1>5. HistoryInv'
  BY <1>1, <1>3, <1>4 DEF HistoryInv, RollingBudget
<1>6. requests # <<>>
  BY <1>1, EmptySeq DEF Slots
<1> QED  BY <1>5, <1>6

LEMMA EndedKeeps ==
    ASSUME BudgetInv, NEW c \in Callers, proc[c].at = "sending",
           requests' = Ended, UNCHANGED <<real, clock, disk>>
    PROVE  HistoryInv' /\ DiskInv'
<1>1. /\ Len(requests) >= 1
      /\ disk.present => disk.budget.in_flight
  BY SendingMeans
<1>2. HistoryInv' /\ requests # <<>>
  BY <1>1, EndedHistory
<1>3. disk.present => Good(disk.budget)'
  BY <1>1, EndedGood DEF BudgetInv, DiskInv, Good
<1> QED  BY <1>2, <1>3 DEF BudgetInv, DiskInv

LEMMA RebootKeeps == BudgetInv /\ Reboot => BudgetInv'
<1> SUFFICES ASSUME BudgetInv, Reboot PROVE BudgetInv'
  OBVIOUS
<1>1. /\ faults' = faults + 1 /\ clock' = [clock EXCEPT !.mono = 0]
      /\ lock' = None /\ proc' = [c \in Callers |-> Idle]
      /\ UNCHANGED <<real, disk>>
      /\ requests' = IF \E c \in Callers : proc[c].at = "sending" THEN Ended
                     ELSE requests
  BY DEF Reboot, Fault
<1>2. /\ real \in Nat /\ clock \in Reading /\ faults' \in Nat
      /\ clock.mono \in Nat /\ clock' \in Reading /\ clock'.mono = 0
      /\ requests \in Slots
  BY <1>1 DEF BudgetInv, HistoryInv, Reading
<1>3. HistoryInv' /\ (disk.present =>
          WellFormed(disk.budget) /\ Covered(disk.budget, requests', real, clock.mono))
      /\ (~disk.present /\ ~disk.marked => requests' = <<>>)
  <2>1. CASE \E c \in Callers : proc[c].at = "sending"
    <3>1. PICK c \in Callers : proc[c].at = "sending"  BY <2>1
    <3>2. /\ Len(requests) >= 1
          /\ disk.present => disk.budget.in_flight
      BY <3>1, SendingMeans
    <3>3. requests' = Ended  BY <1>1, <2>1
    <3>4. disk.present =>
              WellFormed(disk.budget) /\ Covered(disk.budget, Ended, real, clock.mono)
      BY <3>2, EndedGood DEF BudgetInv, DiskInv
    <3>5. HistoryInv' /\ requests # <<>>
      BY <1>1, <3>2, <3>3, EndedHistory
    <3>6. ~(~disk.present /\ ~disk.marked)
      BY <3>5 DEF BudgetInv, DiskInv
    <3> QED  BY <3>3, <3>4, <3>5, <3>6
  <2>2. CASE ~ \E c \in Callers : proc[c].at = "sending"
    <3>1. requests' = requests  BY <1>1, <2>2
    <3> QED  BY <3>1, <1>1 DEF BudgetInv, HistoryInv, DiskInv, RollingBudget, Good
  <2> QED  BY <2>1, <2>2
<1>4. disk.present => Good(disk.budget)'
  <2> SUFFICES ASSUME disk.present PROVE Good(disk.budget)'
    OBVIOUS
  <2>1. /\ disk.budget \in Budget /\ requests' \in Slots /\ disk' = disk
        /\ real' = real
    BY <1>1, <1>3 DEF BudgetInv, DiskInv, HistoryInv
  <2>2. clock'.mono - clock.mono <= real - real  BY <1>2
  <2>3. Covered(disk.budget, requests', real, clock'.mono)
    BY <1>2, <1>3, <2>1, <2>2, CoveredLater
  <2> QED  BY <1>3, <2>1, <2>3 DEF Good
<1>5. DiskInv'
  BY <1>1, <1>3, <1>4 DEF BudgetInv, DiskInv
<1>6. \A c \in Callers : proc'[c] = Idle /\ proc'[c].at \notin Inside
  BY <1>1, IdleIsLocals, InsideNames
<1>7. Exclusive'
  BY <1>1, <1>6, RateLimitAssumption DEF Exclusive
<1>8. \A c \in Callers : OwnerInv(c)'
  BY <1>6, InsideNames DEF OwnerInv
<1>9. proc' \in [Callers -> Locals] /\ real' \in Nat
  BY <1>1, <1>2, IdleIsLocals
<1> QED  BY <1>2, <1>3, <1>5, <1>7, <1>8, <1>9 DEF BudgetInv

-----------------------------------------------------------------------------
\* What is known before a step of caller c.
LEMMA Before ==
    ASSUME BudgetInv, NEW c \in Callers
    PROVE  /\ real \in Nat /\ clock \in Reading /\ faults \in Nat
           /\ clock.mono \in Nat /\ clock.wall \in Nat
           /\ proc \in [Callers -> Locals] /\ proc[c] \in Locals
           /\ proc[c].state \in Budget /\ proc[c].seen \in Reading
           /\ proc[c].start \in Reading
           /\ requests \in Slots /\ OwnerInv(c)
           /\ lock \in Callers \cup {None} /\ c # None
           /\ proc[c].at \in Inside <=> lock = c
<1>1. proc[c] \in Locals /\ c # None
  BY RateLimitAssumption DEF BudgetInv
<1> QED  BY <1>1 DEF BudgetInv, HistoryInv, Exclusive, Reading, Locals

\* A good state reaches the disk, marked or not.
LEMMA SavedDisk ==
    ASSUME BudgetInv, NEW b \in Budget,
           WellFormed(b), Covered(b, requests', real', clock'.mono),
           disk' \in {Replaced(b), [Replaced(b) EXCEPT !.marked = disk.marked]}
    PROVE  DiskInv'
<1>1. /\ disk' \in [present : BOOLEAN, marked : BOOLEAN, budget : Budget]
      /\ disk'.present /\ disk'.budget = b
  <2>1. disk.marked \in BOOLEAN  BY DEF BudgetInv, DiskInv
  <2> DEFINE marked == disk.marked
  <2>2. disk' = [present |-> TRUE, marked |-> TRUE, budget |-> b] \/
        disk' = [present |-> TRUE, marked |-> marked, budget |-> b]
    BY DEF Replaced
  <2>3. marked \in BOOLEAN  BY <2>1
  <2> HIDE DEF marked
  <2>4. ASSUME NEW x \in BOOLEAN,
               disk' = [present |-> TRUE, marked |-> x, budget |-> b]
        PROVE  /\ disk' \in [present : BOOLEAN, marked : BOOLEAN, budget : Budget]
               /\ disk'.present /\ disk'.budget = b
    BY <2>4
  <2> QED  BY <2>2, <2>3, <2>4
<1>2. Len(b.timestamps) <= MaxSlots
  BY WellFormedMeans
<1> QED  BY <1>1, <1>2 DEF DiskInv, Good

\* A failing save leaves the disk as it was or with the new state.
LEMMA SaveFailsStep ==
    ASSUME BudgetInv, NEW c \in Callers, lock = c, NEW b \in Budget,
           SaveFails(c, b), UNCHANGED <<real, clock, requests>>, Good(b)
    PROVE  BudgetInv'
<1>1. /\ Release(c) /\ faults' \in Nat
      /\ disk' \in {disk, [Replaced(b) EXCEPT !.marked = disk.marked]}
  BY DEF SaveFails, Fault, BudgetInv
<1>2. DiskInv'
  <2>1. CASE disk' = disk
    BY <2>1, SharedKept
  <2>2. CASE disk' # disk
    <3>1. disk' = [Replaced(b) EXCEPT !.marked = disk.marked]  BY <1>1, <2>2
    <3> QED  BY <3>1, SavedDisk DEF Good
  <2> QED  BY <2>1, <2>2
<1>3. HistoryInv'
  BY DEF BudgetInv, HistoryInv, RollingBudget
<1> QED  BY <1>1, <1>2, <1>3, ReleaseStep

LEMMA TransmitKeeps ==
    ASSUME BudgetInv, NEW c \in Callers, Transmit(c)
    PROVE  BudgetInv'
<1>1. PICK limit \in Limits, d \in {0} \cup {clock.mono + b : b \in Backoffs} :
          proc' = [proc EXCEPT ![c].at = "transmit",
                               ![c].limit = limit, ![c].deadline = d]
  BY DEF Transmit
<1>2. limit \in 1 .. MaxSlots /\ d \in Nat
  BY Before, RateLimitAssumption
<1>3. /\ proc[c].at = "idle"
      /\ UNCHANGED <<real, clock, disk, lock, requests, faults>>
  BY DEF Transmit
<1>4. lock # c
  BY <1>3, Before, InsideNames
<1>5. /\ proc' \in [Callers -> Locals] /\ proc'[c].at = "transmit"
      /\ \A e \in Callers : e # c => proc'[e] = proc[e]
  BY <1>1, <1>2, Before DEF Locals
<1>6. proc'[c].at \notin Inside
  BY <1>5, InsideNames
<1>7. OwnerInv(c)'
  BY <1>5 DEF OwnerInv
<1> QED  BY <1>3, <1>4, <1>5, <1>6, <1>7, Before, SharedKept, CallerStep

LEMMA RecoverKeeps ==
    ASSUME BudgetInv, NEW c \in Callers, Recover(c)
    PROVE  BudgetInv'
<1>1. /\ proc[c].at = "idle" /\ proc' = [proc EXCEPT ![c].at = "recover"]
      /\ UNCHANGED <<real, clock, disk, lock, requests, faults>>
  BY DEF Recover
<1>2. lock # c
  BY <1>1, Before, InsideNames
<1>3. /\ proc' \in [Callers -> Locals] /\ proc'[c].at = "recover"
      /\ \A e \in Callers : e # c => proc'[e] = proc[e]
  BY <1>1, Before DEF Locals
<1>4. proc'[c].at \notin Inside
  BY <1>3, InsideNames
<1>5. OwnerInv(c)'
  BY <1>3 DEF OwnerInv
<1> QED  BY <1>1, <1>2, <1>3, <1>4, <1>5, Before, SharedKept, CallerStep

LEMMA LoadKeeps ==
    ASSUME BudgetInv, NEW c \in Callers, Load(c)
    PROVE  BudgetInv'
<1> DEFINE b == IF disk.present THEN disk.budget ELSE Fresh(clock)
<1>1. /\ lock = None /\ lock' = c /\ Loadable
      /\ UNCHANGED <<real, clock, disk, requests, faults>>
      /\ proc[c].at \in {"transmit", "recover"}
      /\ proc' = [proc EXCEPT
             ![c].at = IF proc[c].at = "transmit" THEN "loaded" ELSE "opened",
             ![c].state = b]
  BY DEF Load
<1>2. b \in Budget /\ Good(b)
  <2>1. CASE disk.present
    BY <2>1 DEF BudgetInv, DiskInv
  <2>2. CASE ~disk.present
    <3>1. requests = <<>>
      BY <1>1, <2>2 DEF Loadable, BudgetInv, DiskInv
    <3>2. Len(requests) = 0  BY <3>1, EmptySeq
    <3>3. Fresh(clock) \in Budget /\ WellFormed(Fresh(clock))
      BY Before, FreshMeans
    <3>4. Covered(Fresh(clock), requests, real, clock.mono)
      BY <3>2, Before, CoveredFresh
    <3> QED  BY <2>2, <3>3, <3>4 DEF Good
  <2> QED  BY <2>1, <2>2
<1> HIDE DEF b
<1>3. /\ proc' \in [Callers -> Locals] /\ proc'[c].at \in {"loaded", "opened"}
      /\ proc'[c].state = b
      /\ \A e \in Callers : e # c => proc'[e] = proc[e]
  BY <1>1, <1>2, Before DEF Locals, Inside
<1>4. proc'[c].at \in Inside
  BY <1>3, InsideNames
<1>5. OwnerInv(c)'
  <2>1. Good(proc[c].state)'  BY <1>1, <1>2, <1>3 DEF Good
  <2> QED  BY <1>3, <2>1 DEF OwnerInv
<1> QED  BY <1>1, <1>3, <1>4, <1>5, Before, SharedKept, CallerStep

LEMMA LoadFailsKeeps ==
    ASSUME BudgetInv, NEW c \in Callers, LoadFails(c)
    PROVE  BudgetInv'
<1>1. Release(c) /\ UNCHANGED <<real, clock, disk, requests, faults>>
  BY DEF LoadFails
<1> QED  BY <1>1, Before, SharedKept, ReleaseStep

\* The owner at a step inside.
LEMMA OwnerOf ==
    ASSUME BudgetInv, NEW c \in Callers,
           proc[c].at \in {"loaded", "looking", "reserving", "sending", "sent",
                           "opened", "settling"}
    PROVE  lock = c
BY Before, InsideNames

LEMMA AnomalyKeeps ==
    ASSUME BudgetInv, NEW c \in Callers, Anomaly(c)
    PROVE  BudgetInv'
<1>1. Release(c) /\ UNCHANGED <<real, clock, disk, requests, faults>>
  BY DEF Anomaly
<1> QED  BY <1>1, Before, SharedKept, ReleaseStep

LEMMA CrashKeeps ==
    ASSUME BudgetInv, NEW c \in Callers, Crash(c)
    PROVE  BudgetInv'
<1>1. /\ Release(c) /\ UNCHANGED <<real, clock, disk>> /\ faults' \in Nat
      /\ requests' = IF proc[c].at = "sending" THEN Ended ELSE requests
  BY DEF Crash, Fault, BudgetInv
<1>2. CASE proc[c].at = "sending"
  <2>1. lock = c  BY <1>2, OwnerOf
  <2>2. HistoryInv' /\ DiskInv'  BY <1>1, <1>2, EndedKeeps
  <2> QED  BY <1>1, <2>1, <2>2, ReleaseStep
<1>3. CASE proc[c].at # "sending"
  BY <1>1, <1>3, SharedKept, ReleaseStep
<1> QED  BY <1>2, <1>3

-----------------------------------------------------------------------------
\* Settling the last slot keeps a state good, whoever's slot it is.
LEMMA SettledGood ==
    ASSUME BudgetInv, NEW b \in Budget, Good(b), Len(b.timestamps) >= 1,
           NotBefore(b.last, clock)
    PROVE  Settled(b, clock) \in Budget /\ Good(Settled(b, clock))
<1>1. /\ requests \in Slots /\ real \in Nat /\ clock \in Reading
      /\ \A i \in 1 .. Len(requests) : requests[i].to <= real
  BY DEF BudgetInv, HistoryInv
<1>2. Covered(Settled(b, clock), requests, real, clock.mono)
  BY <1>1, CoveredSettled DEF Good
<1>3. WellFormed(Settled(b, clock)) /\ Settled(b, clock) \in Budget
  BY <1>1, SettledWellFormed, SettledMeans DEF Good
<1> QED  BY <1>2, <1>3 DEF Good

LEMMA AdoptKeeps ==
    ASSUME BudgetInv, NEW c \in Callers, Adopt(c)
    PROVE  BudgetInv'
<1> DEFINE st == proc[c].state
           b == IF st.in_flight THEN Settled(st, clock) ELSE st
<1>1. /\ proc[c].at = "loaded" /\ Consistent(clock, st.last)
      /\ UNCHANGED <<real, clock, requests>>
  BY DEF Adopt
<1>2. lock = c /\ Good(st) /\ st \in Budget /\ NotBefore(st.last, clock)
  BY <1>1, OwnerOf, Before DEF OwnerInv, Consistent
<1>3. b \in Budget /\ Good(b) /\ ~b.in_flight /\ NotBefore(b.last, clock)
  <2>1. CASE st.in_flight
    <3>1. Len(st.timestamps) >= 1
      BY <2>1, <1>2, WellFormedMeans DEF Good
    <3>2. b \in Budget /\ Good(b)  BY <2>1, <3>1, <1>2, SettledGood
    <3>3. ~b.in_flight /\ b.last = clock
      BY <2>1, <3>1, <1>2, Before, SettledMeans
    <3> QED  BY <3>2, <3>3, Before, NotBeforeReflexive
  <2>2. CASE ~st.in_flight
    BY <2>2, <1>2
  <2> QED  BY <2>1, <2>2
<1>4. CASE st.in_flight /\ SaveFails(c, b)
  <2> HIDE DEF b
  <2> QED  BY <1>1, <1>2, <1>3, <1>4, SaveFailsStep
<1>5. CASE /\ IF st.in_flight THEN Save(b) ELSE UNCHANGED <<disk, faults>>
           /\ proc' = [proc EXCEPT ![c].at = "looking", ![c].state = b,
                                   ![c].seen = clock]
           /\ UNCHANGED lock
  <2> HIDE DEF b
  <2>1. /\ proc' \in [Callers -> Locals] /\ proc'[c].at = "looking"
        /\ proc'[c].state = b /\ proc'[c].seen = clock
        /\ \A e \in Callers : e # c => proc'[e] = proc[e]
    BY <1>3, <1>5, Before DEF Locals, Inside
  <2>2. proc'[c].at \in Inside  BY <2>1, InsideNames
  <2>4. Good(proc[c].state)'  BY <2>1, <1>1, <1>3 DEF Good
  <2>5. OwnerInv(c)'
    BY <2>1, <2>4, <1>1, <1>3 DEF OwnerInv
  <2>6. faults' \in Nat /\ DiskInv'
    <3>1. CASE st.in_flight
      <4>1. disk' = Replaced(b) /\ faults' = faults
        BY <3>1, <1>5 DEF Save
      <4> QED  BY <4>1, <1>1, <1>3, Before, SavedDisk DEF Good
    <3>2. CASE ~st.in_flight
      BY <3>2, <1>1, <1>5, Before, SharedKept
    <3> QED  BY <3>1, <3>2
  <2>7. HistoryInv'
    BY <1>1 DEF BudgetInv, HistoryInv, RollingBudget
  <2> QED  BY <1>1, <1>2, <1>5, <2>1, <2>2, <2>5, <2>6, <2>7, CallerStep
<1> QED  BY <1>4, <1>5 DEF Adopt

\* If the request need not wait, a slot below the limit is free.
LEMMA NoDelayHasRoom ==
    ASSUME NEW ts \in Seq(Reading), NEW now \in Reading,
           NEW limit \in 1 .. MaxSlots, NEW deadline \in Nat,
           Len(ts) >= 1 => Young(ts[1], now)
    PROVE  /\ Delay(ts, now, limit, deadline) \in Int
           /\ Delay(ts, now, limit, deadline) <= 0 => Len(ts) < limit
<1>1. /\ now.wall \in Nat /\ now.mono \in Nat /\ limit \in Nat /\ limit >= 1
      /\ Len(ts) \in Nat /\ Expiry \in Nat
  BY RateLimitAssumption, LenProperties DEF Reading
<1>2. CASE Len(ts) < limit
  BY <1>1, <1>2 DEF Delay, Larger
<1>3. CASE ~(Len(ts) < limit)
  <2>1. Len(ts) >= 1 /\ 1 \in 1 .. Len(ts)  BY <1>1, <1>3
  <2>2. ts[1] \in Reading
    BY <2>1, ElementOfSeq
  <2> DEFINE a == ts[1].wall
             e == ts[1].mono
             x == now.wall
             y == now.mono
             w == a + Expiry - x
             m == e + Expiry - y
  <2>7. /\ a \in Nat /\ e \in Nat /\ x \in Nat /\ y \in Nat
        /\ x - a < Expiry \/ y - e < Expiry
    BY <1>1, <2>1, <2>2 DEF Young, Reading
  <2>3. w \in Int /\ m \in Int /\ (w > 0 \/ m > 0)
    <3> HIDE DEF a, e, x, y
    <3> QED  BY <1>1, <2>7
  <2>4. Delay(ts, now, limit, deadline) =
            Larger(Larger(0, deadline - now.mono), Larger(w, m))
    BY <1>3 DEF Delay
  <2>5. Larger(0, deadline - now.mono) \in Int
    BY <1>1 DEF Larger
  <2> HIDE DEF w, m
  <2>6. Larger(w, m) \in Int /\ Larger(w, m) > 0
    BY <2>3 DEF Larger
  <2> QED  BY <2>4, <2>5, <2>6 DEF Larger
<1> QED  BY <1>2, <1>3

LEMMA LookKeeps ==
    ASSUME BudgetInv, NEW c \in Callers, Look(c)
    PROVE  BudgetInv'
<1> DEFINE st == proc[c].state
           ts == st.timestamps
<1>1. /\ proc[c].at = "looking" /\ Consistent(clock, proc[c].seen)
      /\ UNCHANGED <<real, clock, disk, lock, requests, faults>>
  BY DEF Look
<1>2. /\ lock = c /\ Good(st) /\ st \in Budget /\ ~st.in_flight
      /\ NotBefore(st.last, proc[c].seen) /\ NotBefore(proc[c].seen, clock)
  BY <1>1, OwnerOf, Before DEF OwnerInv, Consistent
<1>3. NotBefore(st.last, clock)
  <2>1. st.last \in Reading /\ proc[c].seen \in Reading /\ clock \in Reading
    BY <1>2, Before, BudgetTypes
  <2> QED  BY <2>1, <1>2, NotBeforeTransitive
<1>4. PICK n \in 0 .. Len(ts) :
        LET kept == SubSeq(ts, n + 1, Len(ts))
            delay == Delay(kept, clock, proc[c].limit, proc[c].deadline) IN
        /\ \A i \in 1 .. Len(ts) : Young(ts[i], clock) <=> i > n
        /\ proc' = [proc EXCEPT
               ![c].at = IF delay <= 0 THEN "reserving" ELSE "looking",
               ![c].state = [@ EXCEPT !.timestamps = kept],
               ![c].seen = clock,
               ![c].limit = IF delay <= 0 THEN MaxSlots ELSE @,
               ![c].deadline = IF delay <= 0 THEN 0 ELSE @,
               ![c].wake = IF delay <= 0 THEN 0 ELSE clock.mono + delay]
  BY DEF Look
<1> DEFINE kept == SubSeq(ts, n + 1, Len(ts))
           delay == Delay(kept, clock, proc[c].limit, proc[c].deadline)
           b == Pruned(st, n)
<1>5. /\ b \in Budget /\ b.timestamps = kept /\ b.last = st.last /\ ~b.in_flight
      /\ kept \in Seq(Reading) /\ Len(kept) = Len(ts) - n
      /\ \A i \in 1 .. Len(ts) - n : kept[i] = ts[n + i]
  <2>1. b.timestamps = kept  BY <1>2 DEF Pruned, Budget
  <2> QED  BY <2>1, <1>2, PrunedMeans, BudgetTypes
<1>6. Good(b)
  <2>1. WellFormed(b)  BY <1>2, PrunedWellFormed DEF Good
  <2>2. n \in Nat /\ n <= Len(ts) /\ Len(ts) \in Nat  BY <1>2, BudgetTypes
  <2>3. \A i \in 1 .. n : i \in 1 .. Len(ts) /\ ~(i > n)
    BY <2>2
  <2>4. \A i \in 1 .. n : ~Young(ts[i], clock)
    BY <2>3, <1>4
  <2>5. Covered(b, requests, real, clock.mono)
    BY <1>2, <2>4, Before, CoveredPruned DEF Good
  <2> QED  BY <2>1, <2>5 DEF Good
<1>7. Len(kept) <= MaxSlots
  BY <1>5, <1>6, WellFormedMeans DEF Good
<1>8. Len(kept) >= 1 => Young(kept[1], clock)
  <2> SUFFICES ASSUME Len(kept) >= 1 PROVE Young(kept[1], clock)
    OBVIOUS
  <2>1. n \in Nat /\ Len(ts) \in Nat /\ Len(kept) = Len(ts) - n
    BY <1>2, <1>5, BudgetTypes
  <2>2. 1 \in 1 .. Len(ts) - n /\ n + 1 \in 1 .. Len(ts) /\ n + 1 > n
    <3> HIDE DEF ts, kept
    <3> QED  BY <2>1
  <2> QED  BY <2>2, <1>4, <1>5
<1>9. proc[c].limit \in 1 .. MaxSlots /\ proc[c].deadline \in Nat
  BY Before DEF Locals
<1>10. /\ delay \in Int
       /\ delay <= 0 => Len(kept) < proc[c].limit
  <2> HIDE DEF kept
  <2> QED  BY <1>5, <1>8, <1>9, Before, NoDelayHasRoom
<1>11. delay <= 0 => Len(kept) < MaxSlots
  <2>1. Len(kept) \in Int  BY <1>5, LenProperties
  <2> HIDE DEF kept, delay
  <2> QED  BY <2>1, <1>9, <1>10, RateLimitAssumption
<1>12. /\ proc' = [proc EXCEPT
               ![c].at = IF delay <= 0 THEN "reserving" ELSE "looking",
               ![c].state = [@ EXCEPT !.timestamps = kept],
               ![c].seen = clock,
               ![c].limit = IF delay <= 0 THEN MaxSlots ELSE @,
               ![c].deadline = IF delay <= 0 THEN 0 ELSE @,
               ![c].wake = IF delay <= 0 THEN 0 ELSE clock.mono + delay]
  BY <1>4
<1>13. b = [st EXCEPT !.timestamps = kept]
  BY DEF Pruned
<1> HIDE DEF kept, delay, b
<1>14. (delay <= 0 \/ clock.mono + delay \in Nat) /\ MaxSlots \in 1 .. MaxSlots
  BY <1>10, Before, RateLimitAssumption
<1> DEFINE new == [proc[c] EXCEPT
               !.at = IF delay <= 0 THEN "reserving" ELSE "looking",
               !.state = b, !.seen = clock,
               !.limit = IF delay <= 0 THEN MaxSlots ELSE @,
               !.deadline = IF delay <= 0 THEN 0 ELSE @,
               !.wake = IF delay <= 0 THEN 0 ELSE clock.mono + delay]
<1>15. proc' = [proc EXCEPT ![c] = new]
  BY <1>12, <1>13, Before
<1>16. /\ new \in Locals
       /\ new.at = IF delay <= 0 THEN "reserving" ELSE "looking"
       /\ new.state = b /\ new.seen = clock
  <2>1. proc[c] \in Locals /\ clock \in Reading /\ b \in Budget
    BY <1>5, Before
  <2>2. CASE delay <= 0
    <3>1. new = [proc[c] EXCEPT !.at = "reserving", !.state = b, !.seen = clock,
                     !.limit = MaxSlots, !.deadline = 0, !.wake = 0]
      BY <2>2
    <3> HIDE DEF new
    <3> QED  BY <2>1, <2>2, <3>1, <1>14 DEF Locals, Inside
  <2>3. CASE ~(delay <= 0)
    <3> DEFINE wake == clock.mono + delay
    <3>1. new = [proc[c] EXCEPT !.at = "looking", !.state = b, !.seen = clock,
                     !.limit = @, !.deadline = @, !.wake = wake]
      BY <2>3
    <3>2. wake \in Nat  BY <1>14, <2>3
    <3> HIDE DEF new, wake
    <3> QED  BY <2>1, <2>3, <3>1, <3>2 DEF Locals, Inside
  <2> QED  BY <2>2, <2>3
<1> HIDE DEF new
<1>17. \A e \in Callers : e # c => proc'[e] = proc[e]
  BY <1>15, Before
<1>18. proc' \in [Callers -> Locals]
  BY <1>15, <1>16, Before
<1>19. /\ proc'[c].at = IF delay <= 0 THEN "reserving" ELSE "looking"
       /\ proc'[c].state = b /\ proc'[c].seen = clock
  BY <1>15, <1>16, Before
<1>20. proc'[c].at \in Inside  BY <1>19, InsideNames
<1>21. Good(proc[c].state)'  BY <1>1, <1>6, <1>19 DEF Good
<1>22. OwnerInv(c)'
  BY <1>1, <1>3, <1>5, <1>11, <1>19, <1>21 DEF OwnerInv
<1> QED
  BY <1>1, <1>2, <1>17, <1>18, <1>20, <1>22, Before, SharedKept, CallerStep

-----------------------------------------------------------------------------
\* With fewer than MaxSlots slots taken, one more request is within budget.
LEMMA ReservedHistory ==
    ASSUME BudgetInv, NEW b \in Budget, Good(b), ~b.in_flight,
           Len(b.timestamps) < MaxSlots,
           requests' = Append(requests, Now), real' = real
    PROVE  HistoryInv'
<1> DEFINE k == Len(requests)
<1>1. /\ requests \in Slots /\ requests \in Seq([from : Nat, to : Nat])
      /\ k \in Nat /\ real \in Nat /\ Now \in [from : Nat, to : Nat]
      /\ Now.from = real /\ Now.to = real
  BY SlotTypes DEF BudgetInv, HistoryInv, Slots, Now
<1>2. /\ requests' \in Slots /\ Len(requests') = k + 1
      /\ requests'[k + 1] = Now
      /\ \A i \in 1 .. k : requests'[i] = requests[i]
  BY <1>1, AppendProperties DEF Slots
<1>3. ASSUME NEW i \in 1 .. k + 1 PROVE requests'[i].to <= real'
  <2>1. CASE i = k + 1
    <3>1. requests'[i].to = real  BY <2>1, <1>1, <1>2
    <3> QED  BY <3>1, <1>1
  <2>2. CASE i # k + 1
    <3>1. i \in 1 .. k  BY <1>1, <2>2
    <3> QED  BY <3>1, <1>2 DEF BudgetInv, HistoryInv
  <2> QED  BY <2>1, <2>2
<1>4. ASSUME NEW i \in 1 .. (k + 1) - MaxSlots
      PROVE  requests'[i + MaxSlots].from - requests'[i].to >= Expiry
  <2>1. CASE i + MaxSlots = k + 1
    <3> DEFINE gone == k - Len(b.timestamps)
    <3>1. i \in 1 .. gone /\ i \in 1 .. k
      <4>1. Len(b.timestamps) \in Nat  BY BudgetTypes
      <4> DEFINE l == Len(b.timestamps)
      <4>2. l \in Nat /\ l < MaxSlots  BY <4>1
      <4> HIDE DEF l, k
      <4> QED  BY <4>2, <1>1, <2>1, RateLimitAssumption DEF l
    <3>2. real - requests[i].to >= Expiry
      BY <3>1 DEF Good, Covered
    <3> QED  BY <3>1, <3>2, <2>1, <1>1, <1>2
  <2>2. CASE i + MaxSlots # k + 1
    <3>1. i \in 1 .. k - MaxSlots /\ i \in 1 .. k /\ i + MaxSlots \in 1 .. k
      <4> HIDE DEF k
      <4> QED  BY <2>2, <1>1, RateLimitAssumption
    <3>2. requests[i + MaxSlots].from - requests[i].to >= Expiry
      BY <3>1 DEF BudgetInv, HistoryInv, RollingBudget
    <3> QED  BY <3>1, <3>2, <1>2
  <2> QED  BY <2>1, <2>2
<1> QED  BY <1>2, <1>3, <1>4 DEF HistoryInv, RollingBudget

LEMMA ReserveKeeps ==
    ASSUME BudgetInv, NEW c \in Callers, Reserve(c)
    PROVE  BudgetInv'
<1> DEFINE st == proc[c].state
           b == Reserved(st, clock)
<1>1. /\ proc[c].at = "reserving" /\ Consistent(clock, proc[c].seen)
      /\ UNCHANGED <<real, clock>>
  BY DEF Reserve
<1>2. /\ lock = c /\ Good(st) /\ st \in Budget /\ ~st.in_flight
      /\ NotBefore(st.last, proc[c].seen) /\ NotBefore(proc[c].seen, clock)
      /\ Len(st.timestamps) < MaxSlots
  BY <1>1, OwnerOf, Before DEF OwnerInv, Consistent
<1>3. NotBefore(st.last, clock)
  <2>1. st.last \in Reading /\ proc[c].seen \in Reading /\ clock \in Reading
    BY <1>2, Before, BudgetTypes
  <2> QED  BY <2>1, <1>2, NotBeforeTransitive
<1>4. /\ b \in Budget /\ b.in_flight /\ b.last = clock
      /\ WellFormed(b)
  BY <1>2, <1>3, Before, ReservedMeans, ReservedWellFormed DEF Good
<1>5. ASSUME requests' = Append(requests, Now)
      PROVE  HistoryInv' /\ Covered(b, requests', real', clock'.mono)
  <2>1. HistoryInv'  BY <1>1, <1>2, <1>5, ReservedHistory
  <2>2. Now \in [from : Nat, to : Nat]  BY Before DEF Now
  <2>3. Covered(b, Append(requests, Now), real, clock.mono)
    BY <1>2, <2>2, Before, CoveredReserved DEF Good
  <2> QED  BY <2>1, <2>3, <1>1, <1>5
<1> HIDE DEF b
<1>6. CASE /\ Save(b)
           /\ proc' = [proc EXCEPT ![c].at = "sending", ![c].state = b,
                                   ![c].seen = clock]
           /\ requests' = Append(requests, Now)
           /\ UNCHANGED lock
  <2>1. /\ proc' \in [Callers -> Locals] /\ proc'[c].at = "sending"
        /\ proc'[c].state = b /\ proc'[c].seen = clock
        /\ \A e \in Callers : e # c => proc'[e] = proc[e]
    <3>1. /\ proc' = [proc EXCEPT ![c].at = "sending", ![c].state = b,
                                  ![c].seen = clock]
          /\ proc \in [Callers -> Locals] /\ b \in Budget /\ clock \in Reading
      BY <1>4, <1>6, Before
    <3>2. [proc[c] EXCEPT !.at = "sending", !.state = b, !.seen = clock]
              \in Locals
      BY <3>1, InsideNames DEF Locals
    <3>3. proc' = [proc EXCEPT ![c] = [proc[c] EXCEPT
                      !.at = "sending", !.state = b, !.seen = clock]]
      BY <3>1
    <3>4. proc[c] \in Locals  BY <3>1
    <3> QED  BY <3>1, <3>2, <3>3, <3>4 DEF Locals
  <2>2. proc'[c].at \in Inside  BY <2>1, InsideNames
  <2>3. disk' = Replaced(b) /\ faults' = faults  BY <1>6 DEF Save
  <2>4. DiskInv' /\ HistoryInv'
    BY <2>3, <1>4, <1>5, <1>6, SavedDisk
  <2>5. disk'.budget.in_flight  BY <2>3, <1>4 DEF Replaced
  <2>6. Good(proc[c].state)'  BY <2>1, <1>4, <1>5, <1>6 DEF Good
  <2>7. NotBefore(b.last, clock)  BY <1>4, Before, NotBeforeReflexive
  <2>8. OwnerInv(c)'
    BY <2>1, <2>5, <2>6, <2>7, <1>1, <1>4 DEF OwnerInv
  <2> QED
    BY <1>1, <1>2, <1>6, <2>1, <2>2, <2>3, <2>4, <2>8, Before, CallerStep
<1>7. CASE /\ SaveFails(c, b)
           /\ requests' = IF disk' = disk THEN requests
                          ELSE Append(requests, Now)
  <2>1. /\ Release(c) /\ faults' \in Nat
        /\ disk' \in {disk, [Replaced(b) EXCEPT !.marked = disk.marked]}
    BY <1>7 DEF SaveFails, Fault, BudgetInv
  <2>2. CASE disk' = disk
    BY <1>1, <1>2, <1>7, <2>1, <2>2, SharedKept, ReleaseStep
  <2>3. CASE disk' # disk
    <3>1. /\ disk' = [Replaced(b) EXCEPT !.marked = disk.marked]
          /\ requests' = Append(requests, Now)
      BY <1>7, <2>1, <2>3
    <3>2. DiskInv' /\ HistoryInv'
      BY <3>1, <1>4, <1>5, SavedDisk
    <3> QED  BY <1>1, <1>2, <2>1, <3>2, ReleaseStep
  <2> QED  BY <2>2, <2>3
<1> QED  BY <1>6, <1>7 DEF Reserve, b

LEMMA SentKeeps ==
    ASSUME BudgetInv, NEW c \in Callers, Sent(c)
    PROVE  BudgetInv'
<1>1. /\ proc[c].at = "sending" /\ proc' = [proc EXCEPT ![c].at = "sent"]
      /\ requests' = Ended /\ UNCHANGED <<real, clock, disk, lock, faults>>
  BY DEF Sent
<1>2. HistoryInv' /\ DiskInv'
  BY <1>1, EndedKeeps
<1>3. /\ lock = c /\ Len(requests) >= 1 /\ proc[c].state \in Budget
      /\ Good(proc[c].state) /\ proc[c].state.in_flight
      /\ NotBefore(proc[c].state.last, proc[c].seen)
  BY <1>1, SendingMeans
<1>4. /\ proc' \in [Callers -> Locals] /\ proc'[c].at = "sent"
      /\ proc'[c].state = proc[c].state /\ proc'[c].seen = proc[c].seen
      /\ \A e \in Callers : e # c => proc'[e] = proc[e]
  BY <1>1, Before DEF Locals, Inside
<1>5. proc'[c].at \in Inside  BY <1>4, InsideNames
<1>6. Good(proc[c].state)'
  <2>1. WellFormed(proc[c].state)
        /\ Covered(proc[c].state, Ended, real, clock.mono)
    BY <1>3, EndedGood
  <2> QED  BY <2>1, <1>1, <1>4 DEF Good
<1>7. OwnerInv(c)'
  BY <1>3, <1>4, <1>6 DEF OwnerInv
<1> QED  BY <1>1, <1>2, <1>3, <1>4, <1>5, <1>7, Before, CallerStep

LEMMA CompleteKeeps ==
    ASSUME BudgetInv, NEW c \in Callers, Complete(c)
    PROVE  BudgetInv'
<1> DEFINE st == proc[c].state
           b == Settled(st, clock)
<1>1. /\ proc[c].at = "sent" /\ Consistent(clock, proc[c].seen)
      /\ UNCHANGED <<real, clock, requests>>
      /\ (Save(b) /\ Release(c)) \/ SaveFails(c, b)
  BY DEF Complete
<1>2. /\ lock = c /\ Good(st) /\ st \in Budget /\ st.in_flight
      /\ NotBefore(st.last, proc[c].seen) /\ NotBefore(proc[c].seen, clock)
  BY <1>1, OwnerOf, Before DEF OwnerInv, Consistent
<1>3. NotBefore(st.last, clock)
  <2>1. st.last \in Reading /\ proc[c].seen \in Reading /\ clock \in Reading
    BY <1>2, Before, BudgetTypes
  <2> QED  BY <2>1, <1>2, NotBeforeTransitive
<1>4. Len(st.timestamps) >= 1
  BY <1>2, WellFormedMeans DEF Good
<1>5. b \in Budget /\ Good(b)
  BY <1>2, <1>3, <1>4, SettledGood
<1> HIDE DEF b
<1>6. CASE SaveFails(c, b)
  BY <1>1, <1>2, <1>5, <1>6, SaveFailsStep
<1>7. CASE Save(b) /\ Release(c)
  <2>1. disk' = Replaced(b) /\ faults' = faults  BY <1>7 DEF Save
  <2>2. DiskInv'  BY <2>1, <1>1, <1>5, SavedDisk DEF Good
  <2>3. HistoryInv'  BY <1>1 DEF BudgetInv, HistoryInv, RollingBudget
  <2> QED  BY <1>1, <1>2, <1>7, <2>1, <2>2, <2>3, Before, ReleaseStep
<1> QED  BY <1>1, <1>6, <1>7

-----------------------------------------------------------------------------
LEMMA OpenRecoveryKeeps ==
    ASSUME BudgetInv, NEW c \in Callers, OpenRecovery(c)
    PROVE  BudgetInv'
<1>1. /\ proc[c].at = "opened"
      /\ UNCHANGED <<real, clock, disk, requests, faults>>
  BY DEF OpenRecovery
<1>2. lock = c  BY <1>1, OwnerOf
<1>3. CASE Release(c)
  BY <1>1, <1>3, Before, SharedKept, ReleaseStep
<1>4. CASE /\ proc' = [proc EXCEPT ![c].at = "settling",
                                   ![c].seen = clock, ![c].start = clock]
           /\ UNCHANGED lock
  <2>1. /\ proc' \in [Callers -> Locals] /\ proc'[c].at = "settling"
        /\ proc'[c].start = clock
        /\ \A e \in Callers : e # c => proc'[e] = proc[e]
    BY <1>4, Before DEF Locals, Inside
  <2>2. proc'[c].at \in Inside  BY <2>1, InsideNames
  <2>3. ASSUME NEW i \in 1 .. Len(requests)
        PROVE  clock.mono - clock.mono <= real - requests[i].to
    <3>1. requests[i].to \in Nat /\ requests[i].to <= real
      BY Before, SlotTypes DEF BudgetInv, HistoryInv
    <3> QED  BY <3>1, Before
  <2>4. OwnerInv(c)'
    BY <2>1, <2>3, <1>1 DEF OwnerInv
  <2> QED  BY <1>1, <1>2, <1>4, <2>1, <2>2, <2>4, Before, SharedKept, CallerStep
<1> QED  BY <1>3, <1>4 DEF OpenRecovery

LEMMA SettleKeeps ==
    ASSUME BudgetInv, NEW c \in Callers, Settle(c)
    PROVE  BudgetInv'
<1> DEFINE p == proc[c]
           remaining == Expiry - Smaller(Elapsed(c).wall, Elapsed(c).mono)
           b == Fresh(clock)
<1>1. /\ p.at = "settling" /\ UNCHANGED <<real, clock, requests>>
  BY DEF Settle
<1>2. lock = c /\ OwnerInv(c) /\ p \in Locals
  BY <1>1, OwnerOf, Before
<1>3. /\ p.start.mono \in Nat /\ p.start.wall \in Nat
      /\ clock.mono \in Nat /\ clock.wall \in Nat
      /\ Elapsed(c).wall = clock.wall - p.start.wall
      /\ Elapsed(c).mono = clock.mono - p.start.mono
  BY Before DEF Elapsed, Reading
<1>4. remaining \in Int
  BY <1>3, RateLimitAssumption DEF Smaller
<1>5. CASE remaining > 0
  <2> DEFINE wake == clock.mono + Smaller(Nap, remaining)
  <2>1. wake \in Nat
    <3> HIDE DEF remaining
    <3> QED  BY <1>3, <1>4, <1>5, RateLimitAssumption DEF Smaller
  <2>2. /\ proc' = [proc EXCEPT ![c].seen = clock, ![c].wake = wake]
        /\ UNCHANGED <<disk, lock, faults>>
    BY <1>5 DEF Settle
  <2> HIDE DEF wake
  <2>3. /\ proc' \in [Callers -> Locals] /\ proc'[c].at = "settling"
        /\ proc'[c].start = p.start
        /\ \A e \in Callers : e # c => proc'[e] = proc[e]
    BY <1>1, <2>1, <2>2, Before DEF Locals
  <2>4. proc'[c].at \in Inside  BY <2>3, InsideNames
  <2>5. OwnerInv(c)'
    BY <2>3, <1>1, <1>2 DEF OwnerInv
  <2> QED  BY <1>1, <1>2, <2>2, <2>3, <2>4, <2>5, Before, SharedKept, CallerStep
<1>6. CASE ~(remaining > 0)
  <2>1. (Save(b) /\ Release(c)) \/ SaveFails(c, b)
    BY <1>6 DEF Settle
  <2>2. ASSUME NEW i \in 1 .. Len(requests)
        PROVE  real - requests[i].to >= Expiry
    <3> DEFINE e == Elapsed(c).mono
               f == Elapsed(c).wall
               t == requests[i].to
    <3>1. e \in Int /\ f \in Int /\ t \in Nat /\ real \in Nat
      <4>1. e \in Int /\ f \in Int
        <5> HIDE DEF p
        <5> QED  BY <1>3
      <4>2. t \in Nat /\ real \in Nat
        <5>1. requests \in Slots /\ real \in Nat  BY Before
        <5> QED  BY <5>1, SlotTypes
      <4> QED  BY <4>1, <4>2
    <3>2. e <= real - t
      BY <1>1, <1>2, <1>3 DEF OwnerInv
    <3>3. ~(Expiry - Smaller(f, e) > 0)
      BY <1>6
    <3> HIDE DEF e, f, t
    <3>4. Expiry \in Int  BY RateLimitAssumption
    <3>5. Smaller(f, e) \in Int /\ Smaller(f, e) <= e
      BY <3>1 DEF Smaller
    <3>6. real - t >= Expiry
      <4> DEFINE m == Smaller(f, e)
      <4>1. m \in Int /\ m <= e /\ ~(Expiry - m > 0)  BY <3>3, <3>5
      <4> HIDE DEF m
      <4>2. Expiry <= m  BY <4>1, <3>4
      <4>3. Expiry <= e  BY <4>1, <4>2, <3>1, <3>4
      <4> QED  BY <4>3, <3>1, <3>2, <3>4
    <3> QED  BY <3>6 DEF t
  <2>3. b \in Budget /\ Good(b)
    BY <2>2, Before, FreshMeans, CoveredFresh DEF Good
  <2> HIDE DEF b, remaining
  <2>4. CASE SaveFails(c, b)
    BY <1>1, <1>2, <2>3, <2>4, SaveFailsStep
  <2>5. CASE Save(b) /\ Release(c)
    <3>1. disk' = Replaced(b) /\ faults' = faults  BY <2>5 DEF Save
    <3>2. DiskInv'  BY <3>1, <1>1, <2>3, SavedDisk DEF Good
    <3>3. HistoryInv'  BY <1>1 DEF BudgetInv, HistoryInv, RollingBudget
    <3> QED  BY <1>1, <1>2, <2>5, <3>1, <3>2, <3>3, Before, ReleaseStep
  <2> QED  BY <2>1, <2>4, <2>5
<1> QED  BY <1>5, <1>6

-----------------------------------------------------------------------------
LEMMA NextKeepsInv == BudgetInv /\ [Next]_vars => BudgetInv'
<1> SUFFICES ASSUME BudgetInv, [Next]_vars PROVE BudgetInv'
  OBVIOUS
<1>1. ASSUME NEW c \in Callers, Step(c) PROVE BudgetInv'
  BY <1>1, LoadKeeps, LoadFailsKeeps, AdoptKeeps, LookKeeps, ReserveKeeps,
     SentKeeps, CompleteKeeps, OpenRecoveryKeeps, SettleKeeps, AnomalyKeeps
     DEF Step
<1>2. ASSUME NEW c \in Callers, Transmit(c) \/ Recover(c) \/ Crash(c)
      PROVE  BudgetInv'
  BY <1>2, TransmitKeeps, RecoverKeeps, CrashKeeps
<1>3. CASE Environment
  BY <1>3, TickKeeps, SuspendKeeps, AdjustWallKeeps, RebootKeeps, DeleteKeeps
     DEF Environment
<1>4. CASE UNCHANGED vars
  <2>1. real \in Nat /\ clock \in Reading /\ faults \in Nat
        /\ clock.mono - clock.mono <= real - real /\ real >= real
    BY DEF BudgetInv, Reading
  <2>2. UNCHANGED <<real, clock, disk, lock, proc, requests, faults>>
    BY <1>4 DEF vars
  <2> QED  BY <2>1, <2>2, TimeKeepsInv
<1> QED  BY <1>1, <1>2, <1>3, <1>4 DEF Next

(***************************************************************************)
(* BudgetInv is inductive: every reservation is accounted for on the disk  *)
(* and in the memory of the lock's owner, from Init and by every step of   *)
(* callers, clocks and failures.                                           *)
(***************************************************************************)
THEOREM BudgetInvariant == Spec => []BudgetInv
<1>1. Init => BudgetInv  BY InitInv
<1>2. BudgetInv /\ [Next]_vars => BudgetInv'  BY NextKeepsInv
<1> QED  BY <1>1, <1>2, PTL DEF Spec

(***************************************************************************)
(* For any number of callers and slots and any expiry, and however the     *)
(* clocks, the processes and the disk fail, the request MaxSlots after     *)
(* another begins at least Expiry after the other has ended.               *)
(***************************************************************************)
THEOREM BudgetHolds == Spec => []RollingBudget
<1>1. BudgetInv => RollingBudget  BY BudgetInvImplies
<1> QED  BY <1>1, BudgetInvariant, PTL

(***************************************************************************)
(* Every state that transmit or recover_clock_anomaly leaves on the disk,  *)
(* completed or interrupted, passes the checks of the next _load.          *)
(***************************************************************************)
THEOREM StateLoads == Spec => []SavedStateLoads
<1>1. BudgetInv => SavedStateLoads  BY BudgetInvImplies
<1> QED  BY <1>1, BudgetInvariant, PTL

(***************************************************************************)
(* The state, the clocks, the locals and the history keep their types, and *)
(* no more than MaxSlots slots are ever recorded.                          *)
(***************************************************************************)
THEOREM BudgetTypeCorrect == Spec => []TypeOK
<1>1. BudgetInv => TypeOK  BY BudgetInvImplies
<1> QED  BY <1>1, BudgetInvariant, PTL
-----------------------------------------------------------------------------
\* Sleeps.  A slot that keeps the caller waiting lies in the past of the
\* caller's clock, because the slots of a state are in the order of time and
\* the last of them is not after the reading that goes with the state.

LEMMA Least ==
    ASSUME NEW S \in SUBSET Nat, S # {}
    PROVE  \E m \in S : \A n \in S : m <= n
<1>1. PICK m \in S : \A n \in S : ~(<<n, m>> \in OpToRel(<, Nat))
  BY NatLessThanWellFounded, WFMin
<1>2. ASSUME NEW n \in S PROVE m <= n
  <2>1. <<n, m>> \notin {pair \in Nat \X Nat : pair[1] < pair[2]}
    BY <1>1 DEF OpToRel
  <2> QED  BY <2>1
<1> QED  BY <1>2

\* The last slot that was not before b.last would be followed by one that was,
\* and is itself not after its successor.
LEMMA SlotsArePast ==
    ASSUME NEW b \in Budget, WellFormed(b), NEW i \in 1 .. Len(b.timestamps)
    PROVE  NotBefore(b.timestamps[i], b.last)
<1> DEFINE ts == b.timestamps
           l == Len(b.timestamps)
           Bad == {j \in 1 .. l : ~NotBefore(ts[j], b.last)}
           FromEnd == {l - j : j \in Bad}
<1>1. /\ l \in Nat /\ b.last \in Reading
      /\ \A j \in 1 .. l : ts[j] \in Reading
  BY BudgetTypes
<1>2. /\ \A j \in 1 .. l - 1 : NotBefore(ts[j], ts[j + 1])
      /\ l >= 1 => NotBefore(ts[l], b.last)
  BY WellFormedMeans
<1>3. Bad = {}
  <2> SUFFICES ASSUME Bad # {} PROVE FALSE
    OBVIOUS
  <2> HIDE DEF ts, l
  <2>1. FromEnd \in SUBSET Nat /\ FromEnd # {}  BY <1>1
  <2>2. PICK m \in FromEnd : \A n \in FromEnd : m <= n  BY <2>1, Least
  <2>3. PICK j \in Bad : m = l - j
    OBVIOUS
  <2>4. j \in 1 .. l /\ ~NotBefore(ts[j], b.last)
    OBVIOUS
  <2>5. j # l  BY <2>4, <1>1, <1>2
  <2>6. j \in 1 .. l - 1 /\ j + 1 \in 1 .. l /\ ~(l - j <= l - (j + 1))
    BY <2>4, <2>5, <1>1
  <2>7. j + 1 \notin Bad
    <3> SUFFICES ASSUME j + 1 \in Bad PROVE FALSE
      OBVIOUS
    <3>1. l - (j + 1) \in FromEnd
      OBVIOUS
    <3> QED  BY <3>1, <2>2, <2>3, <2>6
  <2>8. NotBefore(ts[j], ts[j + 1]) /\ NotBefore(ts[j + 1], b.last)
    BY <2>6, <2>7, <1>2
  <2> QED  BY <2>4, <2>6, <2>8, <1>1, NotBeforeTransitive
<1> QED  BY <1>3

\* With slots of the past, a turn of the waiting loop asks for one window at
\* most, or for the time until the deadline.
LEMMA DelayIsBounded ==
    ASSUME NEW ts \in Seq(Reading), NEW now \in Reading,
           NEW limit \in 1 .. MaxSlots, NEW deadline \in Nat,
           Len(ts) >= 1 => NotBefore(ts[1], now)
    PROVE  /\ Delay(ts, now, limit, deadline) \in Int
           /\ \/ Delay(ts, now, limit, deadline) <= Expiry
              \/ now.mono + Delay(ts, now, limit, deadline) = deadline
<1>1. /\ now.wall \in Nat /\ now.mono \in Nat /\ limit \in Nat /\ limit >= 1
      /\ Len(ts) \in Nat /\ Expiry \in Nat
  BY RateLimitAssumption, LenProperties DEF Reading
<1> DEFINE y == now.mono
           retry == Larger(0, deadline - now.mono)
<1>2. retry \in Int /\ (retry <= Expiry \/ y + retry = deadline)
  BY <1>1 DEF Larger
<1>3. CASE Len(ts) < limit
  <2>1. Delay(ts, now, limit, deadline) = retry  BY <1>3 DEF Delay
  <2> HIDE DEF retry
  <2> QED  BY <2>1, <1>2
<1>4. CASE ~(Len(ts) < limit)
  <2>1. Len(ts) >= 1 /\ 1 \in 1 .. Len(ts)  BY <1>1, <1>4
  <2>2. ts[1] \in Reading /\ NotBefore(ts[1], now)
    BY <2>1, ElementOfSeq
  <2> DEFINE a == ts[1].wall
             e == ts[1].mono
             x == now.wall
             w == a + Expiry - x
             m == e + Expiry - y
  <2>3. a \in Nat /\ e \in Nat /\ x \in Nat /\ y \in Nat /\ a <= x /\ e <= y
    BY <1>1, <2>2 DEF NotBefore, Reading
  <2>4. w \in Int /\ m \in Int /\ w <= Expiry /\ m <= Expiry
    <3> HIDE DEF a, e, x, y
    <3> QED  BY <2>3, <1>1
  <2>5. Delay(ts, now, limit, deadline) = Larger(retry, Larger(w, m))
    BY <1>4 DEF Delay
  <2> HIDE DEF w, m, retry, y
  <2>6. Larger(w, m) \in Int /\ Larger(w, m) <= Expiry
    BY <2>4 DEF Larger
  <2>7. CASE retry >= Larger(w, m)
    <3>1. Delay(ts, now, limit, deadline) = retry
      BY <2>5, <2>7 DEF Larger
    <3>2. y = now.mono  BY DEF y
    <3> QED  BY <3>1, <3>2, <1>2
  <2>8. CASE ~(retry >= Larger(w, m))
    <3>1. Delay(ts, now, limit, deadline) = Larger(w, m)
      <4> DEFINE v == Larger(w, m)
      <4>1. Larger(retry, v) = v
        <5> HIDE DEF v
        <5>1. CASE retry >= v
          BY <5>1, <2>8 DEF v
        <5> QED  BY <5>1 DEF Larger
      <4> QED  BY <4>1, <2>5
    <3> QED  BY <3>1, <2>6
  <2> QED  BY <2>7, <2>8
<1> QED  BY <1>3, <1>4

\* What a caller remembers of its sleeps: none before it first waits, a
\* recovery's readings in their order, and no wake that is too late.
SleepInv(c) ==
    LET p == proc[c] IN
    /\ p.at \notin {"looking", "settling"} => p.wake = 0
    /\ p.at = "settling" => NotBefore(p.start, p.seen)
    /\ p.at \in {"looking", "settling"} =>
           \/ p.wake <= p.seen.mono + Expiry
           \/ p.wake = p.deadline

SleepsInv == \A c \in Callers : SleepInv(c)

LEMMA SleepsInvImplies == SleepsInv => SleepsOneWindow
BY DEF SleepsInv, SleepInv, SleepsOneWindow

LEMMA IdleSleeps ==
    ASSUME NEW c \in Callers, proc[c] = Idle
    PROVE  SleepInv(c)
BY DEF SleepInv, Idle

LEMMA InitSleeps == Init => SleepsInv
<1> SUFFICES ASSUME Init, NEW c \in Callers PROVE SleepInv(c)
  BY DEF SleepsInv
<1>1. proc[c] = Idle  BY DEF Init
<1> QED  BY <1>1, IdleSleeps

\* Only the caller that takes the step need be looked at.
LEMMA OneSleeper ==
    ASSUME SleepsInv, NEW c \in Callers, SleepInv(c)',
           \A d \in Callers : d # c => proc'[d] = proc[d]
    PROVE  SleepsInv'
<1>1. ASSUME NEW d \in Callers, d # c PROVE SleepInv(d)'
  <2>1. proc'[d] = proc[d] /\ SleepInv(d)  BY <1>1 DEF SleepsInv
  <2> QED  BY <2>1 DEF SleepInv
<1> QED  BY <1>1 DEF SleepsInv

LEMMA ReleaseSleeps ==
    ASSUME BudgetInv, SleepsInv, NEW c \in Callers, Release(c)
    PROVE  SleepsInv'
<1>1. proc' = [proc EXCEPT ![c] = Idle] /\ proc \in [Callers -> Locals]
  BY Before DEF Release
<1>2. proc'[c] = Idle /\ \A d \in Callers : d # c => proc'[d] = proc[d]
  BY <1>1
<1>3. SleepInv(c)'
  BY <1>2 DEF SleepInv, Idle
<1> QED  BY <1>2, <1>3, OneSleeper

LEMMA StartSleeps ==
    ASSUME BudgetInv, SleepsInv, NEW c \in Callers, Transmit(c) \/ Recover(c)
    PROVE  SleepsInv'
<1>1. SleepInv(c) /\ proc[c].at = "idle"
  BY DEF SleepsInv, Transmit, Recover
<1>2. proc[c].wake = 0  BY <1>1 DEF SleepInv
<1>3. /\ proc'[c].at \in {"transmit", "recover"}
      /\ proc'[c].wake = proc[c].wake
      /\ \A d \in Callers : d # c => proc'[d] = proc[d]
  <2>1. CASE Transmit(c)
    <3>1. PICK limit \in Limits, d \in {0} \cup {clock.mono + b : b \in Backoffs} :
              proc' = [proc EXCEPT ![c].at = "transmit",
                                   ![c].limit = limit, ![c].deadline = d]
      BY <2>1 DEF Transmit
    <3> QED  BY <3>1, Before DEF Locals
  <2>2. CASE Recover(c)
    <3>1. proc' = [proc EXCEPT ![c].at = "recover"]  BY <2>2 DEF Recover
    <3> QED  BY <3>1, Before DEF Locals
  <2> QED  BY <2>1, <2>2
<1>4. SleepInv(c)'
  BY <1>2, <1>3 DEF SleepInv
<1> QED  BY <1>3, <1>4, OneSleeper

LEMMA LoadSleeps ==
    ASSUME BudgetInv, SleepsInv, NEW c \in Callers, Load(c)
    PROVE  SleepsInv'
<1> DEFINE b == IF disk.present THEN disk.budget ELSE Fresh(clock)
<1>1. /\ proc[c].at \in {"transmit", "recover"} /\ SleepInv(c)
      /\ proc' = [proc EXCEPT
             ![c].at = IF proc[c].at = "transmit" THEN "loaded" ELSE "opened",
             ![c].state = b]
  BY DEF Load, SleepsInv
<1>2. proc[c].wake = 0  BY <1>1 DEF SleepInv
<1> HIDE DEF b
<1>3. /\ proc'[c].at \in {"loaded", "opened"} /\ proc'[c].wake = proc[c].wake
      /\ \A d \in Callers : d # c => proc'[d] = proc[d]
  BY <1>1, Before DEF Locals
<1>4. SleepInv(c)'
  BY <1>2, <1>3 DEF SleepInv
<1> QED  BY <1>3, <1>4, OneSleeper

LEMMA AdoptSleeps ==
    ASSUME BudgetInv, SleepsInv, NEW c \in Callers, Adopt(c)
    PROVE  SleepsInv'
<1> DEFINE b == IF proc[c].state.in_flight THEN Settled(proc[c].state, clock)
                ELSE proc[c].state
<1>1. proc[c].at = "loaded" /\ SleepInv(c)  BY DEF Adopt, SleepsInv
<1>2. proc[c].wake = 0  BY <1>1 DEF SleepInv
<1>3. \/ proc' = [proc EXCEPT ![c].at = "looking", ![c].state = b,
                              ![c].seen = clock]
      \/ Release(c)
  BY DEF Adopt, SaveFails
<1> HIDE DEF b
<1>4. CASE proc' = [proc EXCEPT ![c].at = "looking", ![c].state = b,
                                ![c].seen = clock]
  <2>1. /\ proc'[c].at = "looking" /\ proc'[c].wake = 0 /\ proc'[c].seen = clock
        /\ \A d \in Callers : d # c => proc'[d] = proc[d]
    BY <1>2, <1>4, Before DEF Locals
  <2>2. 0 <= clock.mono + Expiry  BY Before, RateLimitAssumption
  <2>3. SleepInv(c)'
    BY <2>1, <2>2 DEF SleepInv
  <2> QED  BY <2>1, <2>3, OneSleeper
<1> QED  BY <1>3, <1>4, ReleaseSleeps

LEMMA LookSleeps ==
    ASSUME BudgetInv, SleepsInv, NEW c \in Callers, Look(c)
    PROVE  SleepsInv'
<1> DEFINE st == proc[c].state
           ts == st.timestamps
<1>1. /\ proc[c].at = "looking" /\ NotBefore(proc[c].seen, clock)
      /\ clock \in Reading /\ st \in Budget
  BY Before DEF Look, Consistent
<1>2. WellFormed(st) /\ NotBefore(st.last, clock)
  <2>1. Good(st) /\ NotBefore(st.last, proc[c].seen)
    BY <1>1, Before DEF OwnerInv
  <2>2. st.last \in Reading /\ proc[c].seen \in Reading
    BY <1>1, Before, BudgetTypes
  <2> QED  BY <1>1, <2>1, <2>2, NotBeforeTransitive DEF Good
<1>3. PICK n \in 0 .. Len(ts) :
        LET kept == SubSeq(ts, n + 1, Len(ts))
            delay == Delay(kept, clock, proc[c].limit, proc[c].deadline) IN
        proc' = [proc EXCEPT
               ![c].at = IF delay <= 0 THEN "reserving" ELSE "looking",
               ![c].state = [@ EXCEPT !.timestamps = kept],
               ![c].seen = clock,
               ![c].limit = IF delay <= 0 THEN MaxSlots ELSE @,
               ![c].deadline = IF delay <= 0 THEN 0 ELSE @,
               ![c].wake = IF delay <= 0 THEN 0 ELSE clock.mono + delay]
  BY DEF Look
<1> DEFINE kept == SubSeq(ts, n + 1, Len(ts))
           delay == Delay(kept, clock, proc[c].limit, proc[c].deadline)
           b == Pruned(st, n)
<1>4. b = [st EXCEPT !.timestamps = kept]  BY DEF Pruned
<1>5. /\ kept \in Seq(Reading) /\ Len(kept) = Len(ts) - n
      /\ \A i \in 1 .. Len(ts) - n : kept[i] = ts[n + i]
  <2>1. b.timestamps = kept  BY <1>1 DEF Pruned, Budget
  <2> QED  BY <2>1, <1>1, PrunedMeans, BudgetTypes
<1>6. Len(kept) >= 1 => NotBefore(kept[1], clock)
  <2> SUFFICES ASSUME Len(kept) >= 1 PROVE NotBefore(kept[1], clock)
    OBVIOUS
  <2>1. Len(ts) \in Nat /\ st.last \in Reading
        /\ \A i \in 1 .. Len(ts) : ts[i] \in Reading
    BY <1>1, BudgetTypes
  <2>2. 1 \in 1 .. Len(ts) - n /\ n + 1 \in 1 .. Len(ts)
    <3>1. Len(kept) = Len(ts) - n  BY <1>5
    <3> HIDE DEF ts, kept
    <3> QED  BY <3>1, <2>1
  <2>3. kept[1] = ts[n + 1]  BY <2>2, <1>5
  <2>4. NotBefore(ts[n + 1], st.last)  BY <2>2, <1>1, <1>2, SlotsArePast
  <2> QED  BY <2>1, <2>2, <2>3, <2>4, <1>1, <1>2, NotBeforeTransitive
<1>7. proc[c].limit \in 1 .. MaxSlots /\ proc[c].deadline \in Nat
  BY Before DEF Locals
<1>8. /\ delay \in Int
      /\ delay <= Expiry \/ clock.mono + delay = proc[c].deadline
  <2> HIDE DEF kept
  <2> QED  BY <1>1, <1>5, <1>6, <1>7, DelayIsBounded
<1>9. proc' = [proc EXCEPT
               ![c].at = IF delay <= 0 THEN "reserving" ELSE "looking",
               ![c].state = b,
               ![c].seen = clock,
               ![c].limit = IF delay <= 0 THEN MaxSlots ELSE @,
               ![c].deadline = IF delay <= 0 THEN 0 ELSE @,
               ![c].wake = IF delay <= 0 THEN 0 ELSE clock.mono + delay]
  BY <1>3, <1>4
<1> HIDE DEF kept, delay, b
<1>10. \A d \in Callers : d # c => proc'[d] = proc[d]
  BY <1>9, Before
<1>11. CASE delay <= 0
  <2>1. proc'[c].at = "reserving" /\ proc'[c].wake = 0
    BY <1>9, <1>11, Before DEF Locals
  <2>2. SleepInv(c)'
    BY <2>1 DEF SleepInv
  <2> QED  BY <2>2, <1>10, OneSleeper
<1>12. CASE ~(delay <= 0)
  <2>1. /\ proc'[c].at = "looking" /\ proc'[c].seen = clock
        /\ proc'[c].deadline = proc[c].deadline
        /\ proc'[c].wake = clock.mono + delay
    BY <1>9, <1>12, Before DEF Locals
  <2>2. \/ clock.mono + delay <= clock.mono + Expiry
        \/ clock.mono + delay = proc[c].deadline
    BY <1>8, Before, RateLimitAssumption
  <2>3. SleepInv(c)'
    BY <2>1, <2>2 DEF SleepInv
  <2> QED  BY <2>3, <1>10, OneSleeper
<1> QED  BY <1>11, <1>12

\* Sending, reserving and completing do not sleep.
LEMMA ReserveSleeps ==
    ASSUME BudgetInv, SleepsInv, NEW c \in Callers, Reserve(c)
    PROVE  SleepsInv'
<1> DEFINE b == Reserved(proc[c].state, clock)
<1>1. proc[c].at = "reserving" /\ SleepInv(c)  BY DEF Reserve, SleepsInv
<1>2. proc[c].wake = 0  BY <1>1 DEF SleepInv
<1>3. \/ proc' = [proc EXCEPT ![c].at = "sending", ![c].state = b,
                              ![c].seen = clock]
      \/ Release(c)
  BY DEF Reserve, SaveFails
<1> HIDE DEF b
<1>4. CASE proc' = [proc EXCEPT ![c].at = "sending", ![c].state = b,
                                ![c].seen = clock]
  <2>1. /\ proc'[c].at = "sending" /\ proc'[c].wake = 0
        /\ \A d \in Callers : d # c => proc'[d] = proc[d]
    BY <1>2, <1>4, Before DEF Locals
  <2>2. SleepInv(c)'
    BY <2>1 DEF SleepInv
  <2> QED  BY <2>1, <2>2, OneSleeper
<1> QED  BY <1>3, <1>4, ReleaseSleeps

LEMMA SentSleeps ==
    ASSUME BudgetInv, SleepsInv, NEW c \in Callers, Sent(c)
    PROVE  SleepsInv'
<1>1. /\ proc[c].at = "sending" /\ SleepInv(c)
      /\ proc' = [proc EXCEPT ![c].at = "sent"]
  BY DEF Sent, SleepsInv
<1>2. proc[c].wake = 0  BY <1>1 DEF SleepInv
<1>3. /\ proc'[c].at = "sent" /\ proc'[c].wake = 0
      /\ \A d \in Callers : d # c => proc'[d] = proc[d]
  BY <1>1, <1>2, Before DEF Locals
<1>4. SleepInv(c)'
  BY <1>3 DEF SleepInv
<1> QED  BY <1>3, <1>4, OneSleeper

LEMMA OpenRecoverySleeps ==
    ASSUME BudgetInv, SleepsInv, NEW c \in Callers, OpenRecovery(c)
    PROVE  SleepsInv'
<1>1. proc[c].at = "opened" /\ SleepInv(c)  BY DEF OpenRecovery, SleepsInv
<1>2. proc[c].wake = 0  BY <1>1 DEF SleepInv
<1>3. CASE proc' = [proc EXCEPT ![c].at = "settling",
                                ![c].seen = clock, ![c].start = clock]
  <2>1. /\ proc'[c].at = "settling" /\ proc'[c].wake = 0
        /\ proc'[c].seen = clock /\ proc'[c].start = clock
        /\ \A d \in Callers : d # c => proc'[d] = proc[d]
    BY <1>2, <1>3, Before DEF Locals
  <2>2. NotBefore(clock, clock) /\ 0 <= clock.mono + Expiry
    BY Before, NotBeforeReflexive, RateLimitAssumption
  <2>3. SleepInv(c)'
    BY <2>1, <2>2 DEF SleepInv
  <2> QED  BY <2>1, <2>3, OneSleeper
<1> QED  BY <1>3, ReleaseSleeps DEF OpenRecovery

\* The clocks of a recovery never ran backwards, so no more than a window
\* remains to be slept.
LEMMA SettleSleeps ==
    ASSUME BudgetInv, SleepsInv, NEW c \in Callers, Settle(c)
    PROVE  SleepsInv'
<1> DEFINE p == proc[c]
           remaining == Expiry - Smaller(Elapsed(c).wall, Elapsed(c).mono)
           wake == clock.mono + Smaller(Nap, remaining)
<1>1. /\ p.at = "settling" /\ SleepInv(c)
      /\ p.start \in Reading /\ p.seen \in Reading /\ clock \in Reading
      /\ NotBefore(p.seen, clock)
  BY Before DEF Settle, Stable, Consistent, SleepsInv
<1>2. NotBefore(p.start, p.seen)  BY <1>1 DEF SleepInv
<1>3. NotBefore(p.start, clock)
  <2> HIDE DEF p
  <2> QED  BY <1>1, <1>2, NotBeforeTransitive
<1>4. \/ proc' = [proc EXCEPT ![c].seen = clock, ![c].wake = wake]
      \/ Release(c)
  BY DEF Settle, SaveFails
<1>5. wake <= clock.mono + Expiry
  <2> DEFINE e == clock.wall - p.start.wall
             f == clock.mono - p.start.mono
  <2>1. e \in Int /\ f \in Int /\ e >= 0 /\ f >= 0
    <3> HIDE DEF p
    <3> QED  BY <1>1, <1>3 DEF NotBefore, Reading
  <2>2. remaining = Expiry - Smaller(e, f)
    BY DEF Elapsed
  <2> HIDE DEF e, f, remaining
  <2>3. remaining \in Int /\ remaining <= Expiry
    BY <2>1, <2>2, RateLimitAssumption DEF Smaller
  <2>4. Smaller(Nap, remaining) \in Int /\ Smaller(Nap, remaining) <= remaining
    BY <2>3, RateLimitAssumption DEF Smaller
  <2> DEFINE s == Smaller(Nap, remaining)
  <2>5. s \in Int /\ s <= Expiry
    <3> QED  BY <2>3, <2>4, RateLimitAssumption
  <2> HIDE DEF s
  <2>6. clock.mono + s <= clock.mono + Expiry
    BY <2>5, Before, RateLimitAssumption
  <2> QED  BY <2>6 DEF s
<1> HIDE DEF wake
<1>6. CASE proc' = [proc EXCEPT ![c].seen = clock, ![c].wake = wake]
  <2>1. /\ proc'[c].at = "settling" /\ proc'[c].wake = wake
        /\ proc'[c].seen = clock /\ proc'[c].start = p.start
        /\ \A d \in Callers : d # c => proc'[d] = proc[d]
    BY <1>1, <1>6, Before DEF Locals
  <2>2. SleepInv(c)'
    BY <2>1, <1>3, <1>5 DEF SleepInv
  <2> QED  BY <2>1, <2>2, OneSleeper
<1> QED  BY <1>4, <1>6, ReleaseSleeps

LEMMA EnvironmentSleeps ==
    ASSUME SleepsInv, Environment
    PROVE  SleepsInv'
<1>1. CASE UNCHANGED proc
  BY <1>1 DEF SleepsInv, SleepInv
<1>2. CASE proc' = [c \in Callers |-> Idle]
  <2> SUFFICES ASSUME NEW c \in Callers PROVE SleepInv(c)'
    BY DEF SleepsInv
  <2>1. proc'[c] = Idle  BY <1>2
  <2> QED  BY <2>1 DEF SleepInv, Idle
<1> QED
  BY <1>1, <1>2 DEF Environment, Tick, Suspend, AdjustWall, Reboot, Delete

LEMMA NextKeepsSleeps == BudgetInv /\ SleepsInv /\ [Next]_vars => SleepsInv'
<1> SUFFICES ASSUME BudgetInv, SleepsInv, [Next]_vars PROVE SleepsInv'
  OBVIOUS
<1>1. ASSUME NEW c \in Callers,
             LoadFails(c) \/ Complete(c) \/ Anomaly(c) \/ Crash(c)
      PROVE  SleepsInv'
  <2>1. Release(c)
    BY <1>1 DEF LoadFails, Complete, SaveFails, Anomaly, Crash
  <2> QED  BY <2>1, ReleaseSleeps
<1>2. ASSUME NEW c \in Callers, Transmit(c) \/ Recover(c) \/ Step(c)
      PROVE  SleepsInv'
  BY <1>1, <1>2, StartSleeps, LoadSleeps, AdoptSleeps, LookSleeps,
     ReserveSleeps, SentSleeps, OpenRecoverySleeps, SettleSleeps DEF Step
<1>3. CASE UNCHANGED vars
  BY <1>3 DEF vars, SleepsInv, SleepInv
<1> QED  BY <1>1, <1>2, <1>3, EnvironmentSleeps DEF Next

(***************************************************************************)
(* However the clocks are set, the machine sleeps or boots and callers     *)
(* die, no caller that holds the lock waits beyond one window after the    *)
(* reading it computed the wait from, unless a retry's deadline asks for   *)
(* it: stored readings never lie in the future of the clock they are       *)
(* compared with.                                                          *)
(***************************************************************************)
THEOREM SleepsBounded == Spec => []SleepsOneWindow
<1>1. Init => SleepsInv  BY InitSleeps
<1>2. BudgetInv /\ SleepsInv /\ [Next]_vars => SleepsInv'  BY NextKeepsSleeps
<1>3. SleepsInv => SleepsOneWindow  BY SleepsInvImplies
<1> QED  BY <1>1, <1>2, <1>3, BudgetInvariant, PTL DEF Spec

=============================================================================
