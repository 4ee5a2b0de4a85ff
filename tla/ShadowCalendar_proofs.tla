------------------------ MODULE ShadowCalendar_proofs ------------------------
(***************************************************************************)
(* Facts about the official calendar, for every calendar and horizon.      *)
(***************************************************************************)
EXTENDS ShadowCalendar, FiniteSetTheorems, TLAPS

\* A session has at most one successor.
LEMMA ConsecutiveUnique ==
    ASSUME NEW a \in Days, NEW b \in Days, NEW c \in Days,
           Consecutive(a, b), Consecutive(a, c)
    PROVE  b = c
<1>1. b \in Official /\ c \in Official /\ a < b /\ a < c
  BY DEF Consecutive, TradingSessions
<1>2. CASE b < c
  <2>1. b \in TradingSessions(a, c)
    BY <1>1, <1>2 DEF TradingSessions, Days
  <2> QED  BY <2>1, <1>1, <1>2 DEF Consecutive, Days
<1>3. CASE c < b
  <2>1. c \in TradingSessions(a, b)
    BY <1>1, <1>3 DEF TradingSessions, Days
  <2> QED  BY <2>1, <1>1, <1>3 DEF Consecutive, Days
<1> QED  BY <1>2, <1>3 DEF Days

\* The set of sessions up to the successor of a gains exactly that successor.
LEMMA SessionsUpToNext ==
    ASSUME NEW e \in Int, NEW a \in Days, NEW b \in Days,
           Consecutive(a, b), e <= b
    PROVE  /\ TradingSessions(e, b) = TradingSessions(e, a) \cup {b}
           /\ b \notin TradingSessions(e, a)
<1>1. a \in Official /\ b \in Official /\ a < b
  BY DEF Consecutive, TradingSessions
<1>2. \A s \in Official : a <= s /\ s <= b => s \in {a, b}
  BY DEF Consecutive, TradingSessions
<1>3. Official \subseteq Int
  BY CalendarAssumption
<1>4. ASSUME NEW s \in Official
      PROVE  e <= s /\ s <= b <=> (e <= s /\ s <= a) \/ s = b
  BY <1>1, <1>2, <1>3 DEF Days
<1>5. ASSUME NEW s
      PROVE  s \in TradingSessions(e, b) <=> s \in TradingSessions(e, a) \cup {b}
  BY <1>1, <1>4 DEF TradingSessions, Days
<1>6. b \notin TradingSessions(e, a)
  BY <1>1 DEF TradingSessions, Days
<1> QED  BY <1>5, <1>6

\* The sessions after a boundary, up to it and up to the next session.
LEMMA SessionsAfterSelf ==
    ASSUME NEW b \in Official
    PROVE  /\ {r \in Official : b < r /\ r <= b} = {}
           /\ b <= b
<1>1. Official \subseteq Int
  BY CalendarAssumption
<1>2. ASSUME NEW r \in Official PROVE ~(b < r /\ r <= b)
  BY <1>1
<1>3. {r \in Official : b < r /\ r <= b} = {}
  BY <1>2
<1>4. b <= b
  BY <1>1
<1> QED  BY <1>3, <1>4

LEMMA SessionsAfterNext ==
    ASSUME NEW b \in Official, NEW a \in Days, NEW s \in Days,
           Consecutive(a, s), b <= a
    PROVE  /\ {r \in Official : b < r /\ r <= s} =
                 {r \in Official : b < r /\ r <= a} \cup {s}
           /\ b <= s
<1>1. Official \subseteq Int
  BY CalendarAssumption
<1>2. a \in Int /\ s \in Int /\ b \in Int /\ a < s /\ s \in Official
  BY <1>1, CalendarAssumption DEF Consecutive, TradingSessions, Days
<1>3. \A r \in Official : a <= r /\ r <= s => r \in {a, s}
  BY DEF Consecutive, TradingSessions
<1>4. ASSUME NEW r \in Official
      PROVE  b < r /\ r <= s <=> (b < r /\ r <= a) \/ r = s
  BY <1>1, <1>2, <1>3
<1>5. ASSUME NEW r
      PROVE  r \in {x \in Official : b < x /\ x <= s} <=>
                 r \in {x \in Official : b < x /\ x <= a} \cup {s}
  BY <1>2, <1>4
<1>6. b <= s
  BY <1>2
<1> QED  BY <1>5, <1>6

LEMMA SessionsFinite ==
    ASSUME NEW a, NEW b
    PROVE  IsFiniteSet(TradingSessions(a, b))
<1>1. LastDay \in Nat /\ TradingSessions(a, b) \subseteq 0..LastDay
  BY CalendarAssumption DEF TradingSessions
<1>2. IsFiniteSet(0..LastDay)
  BY <1>1, FS_Interval
<1> QED  BY <1>1, <1>2, FS_Subset

\* Counting sessions from an earlier day, the successor adds one: why a holding
\* counter incremented once per processed session stays the calendar's count.
LEMMA CountToNext ==
    ASSUME NEW e \in Int, NEW a \in Days, NEW b \in Days,
           Consecutive(a, b), e <= b
    PROVE  Cardinality(TradingSessions(e, b)) =
               Cardinality(TradingSessions(e, a)) + 1
<1>1. /\ TradingSessions(e, b) = TradingSessions(e, a) \cup {b}
      /\ b \notin TradingSessions(e, a)
  BY SessionsUpToNext
<1>2. IsFiniteSet(TradingSessions(e, a))
  BY SessionsFinite
<1> QED  BY <1>1, <1>2, FS_AddElement

\* On the day it is entered, a position is one session old.
LEMMA CountOfOne ==
    ASSUME NEW s \in Official
    PROVE  Cardinality(TradingSessions(s, s)) = 1
<1>1. Official \subseteq Int
  BY CalendarAssumption
<1>2. ASSUME NEW r \in Official
      PROVE  s <= r /\ r <= s <=> r = s
  BY <1>1
<1>3. ASSUME NEW r
      PROVE  r \in TradingSessions(s, s) <=> r \in {s}
  BY <1>1, <1>2 DEF TradingSessions
<1>4. TradingSessions(s, s) = {s}
  BY <1>3
<1> QED  BY <1>4, FS_Singleton

\* The last closed session exists, has closed, and no later one has.
LEMMA LatestCompletedFacts ==
    ASSUME NEW t \in Clock
    PROVE  /\ LatestCompleted(t) \in Official
           /\ Close[LatestCompleted(t)] <= t
           /\ \A r \in Official : Close[r] <= t => r <= LatestCompleted(t)
<1>1. \E s \in Official :
         Close[s] <= t /\ \A r \in Official : Close[r] <= t => r <= s
  BY CalendarAssumption
<1> QED  BY <1>1 DEF LatestCompleted

=============================================================================
