------------------------ MODULE IntradayData_proofs ------------------------
(***************************************************************************)
(* That what the remediation takes for absent is absent at the provider,   *)
(* for any symbols, sessions, windows, requirements and processes; that    *)
(* synchronizations from one start resume without a hole; and the types.   *)
(***************************************************************************)
EXTENDS IntradayData, TLAPS, WellFoundedInduction

-----------------------------------------------------------------------------
\* Numbers: the least and the greatest of a set, and quotients.
LEMMA Least ==
    ASSUME NEW S \in SUBSET Nat, S # {}
    PROVE  \E m \in S : \A n \in S : m <= n
  <1>1. IsWellFoundedOn(OpToRel(<, Nat), Nat)
    BY NatLessThanWellFounded
  <1>2. PICK m \in S : \A n \in S : ~(<<n, m>> \in OpToRel(<, Nat))
    BY <1>1, WFMin
  <1>3. OpToRel(<, Nat) = {pair \in Nat \X Nat : pair[1] < pair[2]}
    BY DEF OpToRel
  <1>4. ASSUME NEW n \in S PROVE m <= n
    <2>1. n \in Nat /\ m \in Nat
      OBVIOUS
    <2>2. <<n, m>> \notin {pair \in Nat \X Nat : pair[1] < pair[2]}
      BY <1>2, <1>3
    <2>3. ~(n < m)
      BY <2>1, <2>2
    <2> QED
      BY <2>1, <2>3
  <1> QED
    BY <1>4

LEMMA LeastIsMin ==
    ASSUME NEW S \in SUBSET Nat, S # {}
    PROVE  Min(S) \in S /\ \A n \in S : Min(S) <= n
  BY Least DEF Min

LEMMA GreatestIsMax ==
    ASSUME NEW limit \in Nat, NEW S \in SUBSET (0 .. limit), S # {}
    PROVE  Max(S) \in S /\ \A n \in S : n <= Max(S)
  <1> DEFINE T == {limit - n : n \in S}
  <1>1. T \in SUBSET Nat /\ T # {}
    <2>1. \A n \in S : limit - n \in Nat
      OBVIOUS
    <2>2. T \subseteq Nat
      BY <2>1
    <2> QED
      BY <2>2
  <1>2. PICK m \in T : \A n \in T : m <= n
    BY <1>1, Least
  <1>3. PICK top \in S : m = limit - top
    OBVIOUS
  <1>4. \A n \in S : n <= top
    <2> TAKE n \in S
    <2>1. limit - n \in T
      OBVIOUS
    <2>2. limit - top <= limit - n
      BY <1>2, <1>3, <2>1
    <2> QED
      BY <2>2
  <1> QED
    BY <1>4 DEF Max

LEMMA ExtremesOfTwo ==
    ASSUME NEW a \in Int, NEW b \in Int
    PROVE  /\ Min({a, b}) = IF a <= b THEN a ELSE b
           /\ Max({a, b}) = IF a <= b THEN b ELSE a
  BY DEF Min, Max

LEMMA Quotient ==
    ASSUME NEW k \in Nat, NEW P \in Nat \ {0}, NEW x \in Nat,
           k * P <= x, x < (k + 1) * P
    PROVE  x \div P = k
  <1>1. PICK q \in Int : q = x \div P
    OBVIOUS
  <1>2. q * P <= x /\ x < q * P + P
    BY <1>1
  <1>3. q >= k + 1 => q * P >= (k + 1) * P
    OBVIOUS
  <1>4. q + 1 <= k => (q + 1) * P <= k * P
    OBVIOUS
  <1> QED
    BY <1>1, <1>2, <1>3, <1>4

-----------------------------------------------------------------------------
\* The session a group is for, if it is for one.
SessionOf(g) == (g.from - 1) \div PerSession + 1

\* A group that is still to be asked for: that of a session is one window, and
\* what it leaves out is stored.
Sane(g, stored) ==
    /\ DOMAIN g = {"what", "symbols", "from", "to"}
    /\ g.what \in {"sync", "session", "warmup"}
    /\ g.symbols \subseteq Symbols /\ g.from \in Nat /\ g.to \in Nat
    /\ g.what = "warmup" => \E s \in Symbols : g.symbols = {s}
    /\ g.what = "session" =>
           /\ g.to <= g.from + Window
           /\ \A s \in g.symbols :
                  SessionSlots(SessionOf(g)) \ Between(g.from, g.to) \subseteq stored[s]

\* An answer in hand: what it lacks of a session, the provider lacks.
Honest(r, supply) ==
    r.got # None =>
        /\ r.todo # {} /\ DOMAIN r.got = {"symbols", "failed", "missing"}
        /\ Current(r.todo).what = "session" /\ ~r.got.failed =>
               \A s \in r.got.symbols : r.got.missing[s] \cap supply[s] = {}

Process(r, stored, supply) ==
    /\ DOMAIN r = DOMAIN Idle
    /\ \A g \in r.todo : Sane(g, stored)
    /\ Honest(r, supply)

\* An observation of a session.
Observed(seen, supply) ==
    seen # None /\ seen.status # "failed" => seen.missing \cap supply = {}

Inv ==
    /\ DOMAIN bars = Symbols /\ \A s \in Symbols : bars[s] \subseteq Slots
    /\ DOMAIN run = Procs /\ \A p \in Procs : Process(run[p], bars, provider)
    /\ DOMAIN observed = Symbols
    /\ \A s \in Symbols : /\ DOMAIN observed[s] = 1 .. Sessions
                          /\ \A session \in 1 .. Sessions :
                                 Observed(observed[s][session], provider[s])

-----------------------------------------------------------------------------
\* The group that is asked for next is one of those to do.
LEMMA CurrentIsTodo ==
    ASSUME NEW todo, NEW stored, todo # {}, \A g \in todo : Sane(g, stored)
    PROVE  Current(todo) \in todo
  <1> DEFINE order(g) == IF g.what = "warmup"
                         THEN Sessions * PerSession + 1 + Min(g.symbols) ELSE g.from
  <1>1. ASSUME NEW g \in todo PROVE order(g) \in Nat
    <2>1. CASE g.what = "warmup"
      <3>1. PICK s \in Symbols : g.symbols = {s}
        BY <2>1 DEF Sane
      <3>2. s \in Nat /\ Sessions * PerSession \in Nat
        BY IntradayAssumption DEF IntradayAssumption
      <3>3. Min({s}) = s
        BY <3>2 DEF Min
      <3> QED
        BY <2>1, <3>1, <3>2, <3>3
    <2>2. CASE g.what # "warmup"
      BY <2>2 DEF Sane
    <2> QED
      BY <2>1, <2>2
  <1> DEFINE orders == {order(g) : g \in todo}
  <1> HIDE DEF order
  <1>2. orders \in SUBSET Nat /\ orders # {}
    <2>1. orders \subseteq Nat
      BY <1>1
    <2> QED
      BY <2>1
  <1>3. PICK least \in orders : \A n \in orders : least <= n
    BY <1>2, Least
  <1>4. \E g \in todo : \A h \in todo : order(g) <= order(h)
    BY <1>3
  <1>5. Current(todo) = CHOOSE g \in todo : \A h \in todo : order(g) <= order(h)
    BY DEF Current, order
  <1> QED
    BY <1>4, <1>5

\* Bars are only added.
LEMMA ProcessGrows ==
    ASSUME NEW r, NEW stored, NEW supply, Process(r, stored, supply), NEW more,
           \A s \in Symbols : stored[s] \subseteq more[s]
    PROVE  Process(r, more, supply)
  BY DEF Process, Sane

\* A session begins where the one before ends.
LEMMA SessionLength ==
    ASSUME NEW session \in 1 .. Sessions
    PROVE  /\ Opening(session) \in Nat /\ Opening(session) >= 1
           /\ Opening(session + 1) = Opening(session) + PerSession
  <1>1. PerSession \in Nat /\ Sessions \in Nat
    BY IntradayAssumption DEF IntradayAssumption
  <1>2. (session - 1) \in Nat /\ (session - 1) * PerSession \in Nat
    BY <1>1
  <1>3. (session + 1 - 1) * PerSession = (session - 1) * PerSession + PerSession
    BY <1>1
  <1> QED
    BY <1>1, <1>2, <1>3 DEF Opening

LEMMA SessionOfSlot ==
    ASSUME NEW session \in 1 .. Sessions, NEW slot \in SessionSlots(session)
    PROVE  (slot - 1) \div PerSession + 1 = session
  <1>1. PerSession \in Nat \ {0} /\ Sessions \in Nat
    BY IntradayAssumption DEF IntradayAssumption
  <1>2. slot \in Int /\ Opening(session) <= slot /\ slot < Opening(session + 1)
    BY DEF SessionSlots, Between, Slots
  <1>3. Opening(session) = (session - 1) * PerSession + 1
        /\ Opening(session + 1) = session * PerSession + 1
    BY <1>1 DEF Opening
  <1>4. session - 1 \in Nat /\ (session - 1) * PerSession \in Nat
    BY <1>1
  <1>5. slot - 1 \in Nat
    BY <1>2, <1>3, <1>4
  <1>6. (session - 1) * PerSession <= slot - 1 /\ slot - 1 < ((session - 1) + 1) * PerSession
    BY <1>1, <1>2, <1>3, <1>5
  <1>7. (slot - 1) \div PerSession = session - 1
    BY <1>1, <1>4, <1>5, <1>6, Quotient
  <1> QED
    BY <1>7

-----------------------------------------------------------------------------
\* A step that replaces what one process is doing, and may store bars.
LEMMA ProcessMoves ==
    ASSUME Inv, NEW p \in Procs, NEW r, run' = [run EXCEPT ![p] = r],
           Process(r, bars', provider), UNCHANGED <<provider, observed>>,
           DOMAIN bars' = Symbols,
           \A s \in Symbols : bars[s] \subseteq bars'[s] /\ bars'[s] \subseteq Slots
    PROVE  Inv'
  <1>1. /\ DOMAIN run' = Procs
        /\ \A other \in Procs : run'[other] = IF other = p THEN r ELSE run[other]
    BY DEF Inv
  <1>2. \A other \in Procs : Process(run[other], bars', provider)
    BY ProcessGrows DEF Inv
  <1>3. \A other \in Procs : Process(run'[other], bars', provider)
    BY <1>1, <1>2
  <1> QED
    BY <1>1, <1>3 DEF Inv

\* An end is reached, or the process dies.
LEMMA IdleKeeps ==
    ASSUME Inv, NEW p \in Procs, run' = [run EXCEPT ![p] = Idle],
           UNCHANGED <<provider, bars, observed>>
    PROVE  Inv'
  <1>1. Process(Idle, bars, provider)
    BY DEF Process, Idle, Honest
  <1> QED
    BY <1>1, ProcessMoves DEF Inv

\* Work is begun: the groups are all there is to see to.
LEMMA BegunKeeps ==
    ASSUME Inv, NEW p \in Procs, NEW r, run' = [run EXCEPT ![p] = r],
           DOMAIN r = DOMAIN Idle, r.got = None, \A g \in r.todo : Sane(g, bars),
           UNCHANGED <<provider, bars, observed>>
    PROVE  Inv'
  <1>1. Process(r, bars, provider)
    BY DEF Process, Honest
  <1> QED
    BY <1>1, ProcessMoves DEF Inv

\* The intervals of a synchronization begin and end at natural numbers.
LEMMA RangesAreNumbers ==
    ASSUME NEW stored \in SUBSET Slots, NEW start \in Nat, NEW end \in Nat,
           NEW range \in EdgeRanges(stored, start, end)
    PROVE  range[1] \in Nat /\ range[2] \in Nat
  <1> DEFINE lead == Min({end, Min(stored) + Overlap})
             following == Max(stored) + 1
             tail == Max({start, following - Overlap})
  <1>1. CASE stored = {}
    BY <1>1 DEF EdgeRanges
  <1>2. CASE stored # {}
    <2>1. PICK limit \in Nat : Slots \subseteq 0 .. limit
      <3>1. Sessions * PerSession \in Nat
        BY IntradayAssumption DEF IntradayAssumption
      <3> QED
        BY <3>1 DEF Slots
    <2>2. Min(stored) \in Nat /\ Max(stored) \in Nat
      <3>1. stored \in SUBSET (0 .. limit) /\ stored \in SUBSET Nat
        BY <2>1
      <3>2. Min(stored) \in stored
        BY <1>2, <3>1, LeastIsMin
      <3>3. Max(stored) \in stored
        BY <1>2, <3>1, GreatestIsMax
      <3> QED
        BY <3>1, <3>2, <3>3
    <2>3. Overlap \in Nat
      BY IntradayAssumption DEF IntradayAssumption
    <2>4. lead \in Nat
      <3>1. Min(stored) + Overlap \in Nat
        BY <2>2, <2>3
      <3>2. ASSUME NEW n \in Nat PROVE Min({end, n}) \in Nat
        <4>1. Min({end, n}) = IF end <= n THEN end ELSE n
          BY ExtremesOfTwo
        <4> QED
          BY <4>1
      <3> QED
        BY <3>1, <3>2
    <2>5. tail \in Nat
      <3>1. following - Overlap \in Int
        BY <2>2, <2>3
      <3>2. ASSUME NEW n \in Int PROVE Max({start, n}) \in Nat
        <4>1. Max({start, n}) = IF start <= n THEN n ELSE start
          BY ExtremesOfTwo
        <4> QED
          BY <4>1
      <3> HIDE DEF following
      <3> QED
        BY ONLY <3>1, <3>2, Zenon
    <2>6. Max({lead, end}) \in Nat
      <3>1. ASSUME NEW n \in Nat PROVE Max({n, end}) \in Nat
        <4>1. Max({n, end}) = IF n <= end THEN end ELSE n
          BY ExtremesOfTwo
        <4> QED
          BY <4>1
      <3> HIDE DEF lead
      <3> QED
        BY ONLY <2>4, <3>1, Zenon
    <2>7. range \in {<<start, Max({lead, end})>>, <<start, lead>>, <<tail, end>>}
      BY <1>2 DEF EdgeRanges
    <2> HIDE DEF lead, tail
    <2> QED
      BY <2>4, <2>5, <2>6, <2>7
  <1> QED
    BY <1>1, <1>2

LEMMA BeginSyncKeeps ==
    ASSUME Inv, NEW p \in Procs, NEW start \in Starts, NEW end \in Ends,
           NEW incremental \in BOOLEAN, BeginSync(p, Symbols, start, end, incremental)
    PROVE  Inv'
  <1> DEFINE ranges(s) == Ranges(s, start, end, incremental)
             groups == {Group("sync", {s \in Symbols : r \in ranges(s)}, r[1], r[2]) :
                            r \in UNION {ranges(s) : s \in Symbols}}
             new == [Idle EXCEPT !.busy = TRUE, !.todo = groups, !.start = start,
                                 !.end = end, !.incremental = incremental]
  <1>1. /\ run' = [run EXCEPT ![p] = new]
        /\ UNCHANGED <<provider, bars, observed>>
    BY DEF BeginSync
  <1>2. DOMAIN new = DOMAIN Idle /\ new.got = None /\ new.todo = groups
    BY DEF Idle
  <1>3. start \in Nat /\ end \in Nat
    BY IntradayAssumption DEF IntradayAssumption
  <1>4. ASSUME NEW s \in Symbols, NEW r \in ranges(s)
        PROVE  r[1] \in Nat /\ r[2] \in Nat
    <2>1. bars[s] \cap Between(start, end) \in SUBSET Slots
      BY DEF Inv
    <2>2. CASE incremental
      BY <1>3, <1>4, <2>1, <2>2, RangesAreNumbers DEF Ranges
    <2>3. CASE ~incremental
      BY <1>3, <1>4, <2>3 DEF Ranges
    <2> QED
      BY <2>2, <2>3
  <1> HIDE DEF ranges
  <1>5. ASSUME NEW g \in groups PROVE Sane(g, bars)
    <2>1. PICK r \in UNION {ranges(s) : s \in Symbols} :
              g = Group("sync", {s \in Symbols : r \in ranges(s)}, r[1], r[2])
      BY <1>5
    <2>2. r[1] \in Nat /\ r[2] \in Nat
      BY <1>4, <2>1
    <2> QED
      BY <2>1, <2>2 DEF Sane, Group
  <1> HIDE DEF new, groups
  <1> QED
    BY <1>1, <1>2, <1>5, BegunKeeps

-----------------------------------------------------------------------------
\* What is asked for of a session reaches from its first gap to its last.
LEMMA SessionGroupIsSane ==
    ASSUME Inv, NEW session \in 1 .. Sessions, NEW symbols \in SUBSET Symbols,
           NEW gaps, gaps = UNION {Missing(s, session) : s \in symbols}, gaps # {}
    PROVE  Sane(Group("session", symbols, Min(gaps), Max(gaps) + 1), bars)
  <1> DEFINE g == Group("session", symbols, Min(gaps), Max(gaps) + 1)
  <1>1. gaps \subseteq SessionSlots(session)
    BY DEF Missing
  <1>2. PICK limit \in Nat : Slots \subseteq 0 .. limit
    <2>1. Sessions * PerSession \in Nat
      BY IntradayAssumption DEF IntradayAssumption
    <2> QED
      BY <2>1 DEF Slots
  <1>3. SessionSlots(session) \subseteq Slots
    BY DEF SessionSlots, Between
  <1>4. \A n \in gaps : n \in SessionSlots(session) /\ n \in Nat /\ n \in 0 .. limit
    <2>1. \A n \in 0 .. limit : n \in Nat
      OBVIOUS
    <2> QED
      BY <1>1, <1>2, <1>3, <2>1, Zenon
  <1>5. Min(gaps) \in gaps /\ \A n \in gaps : Min(gaps) <= n
    <2>1. gaps \in SUBSET Nat
      BY ONLY <1>4, Zenon
    <2> QED
      BY <2>1, LeastIsMin
  <1>6. Max(gaps) \in gaps /\ \A n \in gaps : n <= Max(gaps)
    <2>1. gaps \in SUBSET (0 .. limit)
      BY ONLY <1>4, Zenon
    <2> QED
      BY <2>1, GreatestIsMax
  <1>7. PICK first \in SessionSlots(session) :
            first = Min(gaps) /\ first \in Nat /\ \A n \in gaps : first <= n
    <2>1. Min(gaps) \in SessionSlots(session) /\ Min(gaps) \in Nat
      BY ONLY <1>4, <1>5, Zenon
    <2> QED
      BY ONLY <1>5, <2>1, Zenon
  <1>8. PICK last \in SessionSlots(session) :
            last = Max(gaps) /\ last \in Nat /\ \A n \in gaps : n <= last
    <2>1. Max(gaps) \in SessionSlots(session) /\ Max(gaps) \in Nat
      BY ONLY <1>4, <1>6, Zenon
    <2> QED
      BY ONLY <1>6, <2>1, Zenon
  <1>9. g = [what |-> "session", symbols |-> symbols, from |-> first, to |-> last + 1]
    BY <1>7, <1>8 DEF Group
  <1>10. SessionOf(g) = session
    <2>1. g.from = first
      BY <1>9
    <2>2. (first - 1) \div PerSession + 1 = session
      BY ONLY <1>7, SessionOfSlot, Zenon
    <2> HIDE DEF g
    <2> QED
      BY <2>1, <2>2 DEF SessionOf
  <1>11. last + 1 <= first + Window
    <2>1. Opening(session) \in Nat /\ Opening(session + 1) = Opening(session) + PerSession
      BY SessionLength
    <2>2. Opening(session) <= first /\ last < Opening(session + 1)
      BY DEF SessionSlots, Between
    <2>3. PerSession \in Nat /\ Window \in Nat /\ PerSession <= Window
      BY IntradayAssumption DEF IntradayAssumption
    <2> HIDE DEF g
    <2> QED
      BY <1>7, <1>8, <2>1, <2>2, <2>3
  <1>12. ASSUME NEW s \in symbols
         PROVE  SessionSlots(session) \ Between(first, last + 1) \subseteq bars[s]
    <2>1. SUFFICES ASSUME NEW slot \in SessionSlots(session), slot \notin bars[s]
                   PROVE  slot \in Between(first, last + 1)
      OBVIOUS
    <2>2. slot \in gaps
      BY <2>1 DEF Missing
    <2>3. slot \in Slots /\ slot \in Nat
      BY ONLY <1>3, <1>4, <2>1, <2>2, Zenon
    <2>4. first <= slot /\ slot < last + 1
      BY <1>7, <1>8, <2>2, <2>3
    <2> QED
      BY <2>3, <2>4 DEF Between
  <1>13. g.from = first /\ g.to = last + 1 /\ g.symbols = symbols /\ g.what = "session"
         /\ DOMAIN g = {"what", "symbols", "from", "to"}
    BY <1>9
  <1> HIDE DEF g
  <1>14. g.symbols \subseteq Symbols /\ g.from \in Nat /\ g.to \in Nat
         /\ g.to <= g.from + Window
    BY <1>7, <1>8, <1>13, <1>11
  <1>15. Sane(g, bars)
    BY <1>10, <1>12, <1>13, <1>14 DEF Sane
  <1> QED
    BY <1>15 DEF g

\* The warmup of a symbol begins at a bar, and ends where its first session begins.
LEMMA WarmupGroupIsSane ==
    ASSUME NEW s \in Symbols, \E n \in 1 .. Sessions : <<s, n>> \in Required,
           NEW need \in Nat
    PROVE  Sane(Group("warmup", {s}, WarmupStart(s, need), Opening(First(s))), bars)
  <1> DEFINE required == {session \in 1 .. Sessions : <<s, session>> \in Required}
  <1>1. Sessions \in Nat /\ PerSession \in Nat \ {0}
    BY IntradayAssumption DEF IntradayAssumption
  <1>2. First(s) \in 1 .. Sessions
    <2>1. required \in SUBSET Nat /\ required # {}
      BY <1>1
    <2>2. Min(required) \in required
      BY <2>1, LeastIsMin
    <2> QED
      BY <2>2 DEF First
  <1>3. Opening(First(s)) \in Nat
    BY <1>2, SessionLength
  <1>4. WarmupStart(s, need) \in Nat
    <2> DEFINE back == (need + PerSession - 1) \div PerSession
    <2>1. back \in Int
      BY <1>1
    <2>2. ASSUME NEW first \in Int, NEW n \in Int PROVE Opening(first - n) \in Int
      BY <1>1, <2>2 DEF Opening
    <2>3. Opening(First(s) - back) \in Int
      <3> HIDE DEF back
      <3>1. First(s) \in Int
        BY <1>1, <1>2
      <3> QED
        BY ONLY <2>1, <2>2, <3>1, Zenon
    <2>4. ASSUME NEW n \in Int PROVE Max({1, n}) \in Nat
      <3>1. 1 \in Int
        OBVIOUS
      <3>2. Max({1, n}) = IF 1 <= n THEN n ELSE 1
        BY ONLY <2>4, <3>1, ExtremesOfTwo, Zenon
      <3> QED
        BY <3>2
    <2>5. Max({1, Opening(First(s) - back)}) \in Nat
      <3> HIDE DEF back
      <3> QED
        BY ONLY <2>3, <2>4, Zenon
    <2> QED
      BY <2>5 DEF WarmupStart
  <1> QED
    BY <1>3, <1>4 DEF Sane, Group

LEMMA BeginRemedyKeeps ==
    ASSUME Inv, NEW p \in Procs, NEW kind \in Kinds, NEW need \in Warmups,
           BeginRemedy(p, kind, need)
    PROVE  Inv'
  <1> DEFINE targets(session) ==
                 {s \in Symbols : /\ <<s, session>> \in Required
                                  /\ Classified(kind, s, session) \in Blocking}
             gaps(session) == UNION {Missing(s, session) : s \in targets(session)}
             sessions == {Group("session", targets(session), Min(gaps(session)),
                                Max(gaps(session)) + 1) :
                              session \in {n \in 1 .. Sessions : targets(n) # {}}}
             warm == {s \in Symbols : /\ \E n \in 1 .. Sessions : <<s, n>> \in Required
                                      /\ need > 0 /\ First(s) > 1
                                      /\ ClassifiedWarmup(kind, s, need) \in Blocking}
             warmups == {Group("warmup", {s}, WarmupStart(s, need),
                               Opening(First(s))) : s \in warm}
             new == [Idle EXCEPT !.busy = TRUE, !.kind = kind, !.start = need,
                                 !.todo = sessions \cup warmups]
  <1>1. run' = [run EXCEPT ![p] = new] /\ UNCHANGED <<provider, bars, observed>>
    BY DEF BeginRemedy
  <1>2. DOMAIN new = DOMAIN Idle /\ new.got = None /\ new.todo = sessions \cup warmups
    BY DEF Idle
  <1>3. ASSUME NEW session \in 1 .. Sessions, targets(session) # {}
        PROVE  Sane(Group("session", targets(session), Min(gaps(session)),
                          Max(gaps(session)) + 1), bars)
    <2>1. PICK s \in targets(session) : TRUE
      BY <1>3
    <2>2. Classified(kind, s, session) # "present"
      BY DEF Blocking
    <2>3. Missing(s, session) # {}
      BY <2>2 DEF Classified
    <2>4. gaps(session) # {}
      BY <2>1, <2>3
    <2>5. targets(session) \in SUBSET Symbols
      OBVIOUS
    <2> QED
      BY <2>4, <2>5, SessionGroupIsSane
  <1>4. ASSUME NEW g \in sessions PROVE Sane(g, bars)
    <2> HIDE DEF targets, gaps
    <2> QED
      BY <1>3, <1>4
  <1>5. ASSUME NEW g \in warmups PROVE Sane(g, bars)
    <2>1. PICK s \in warm : g = Group("warmup", {s}, WarmupStart(s, need),
                                      Opening(First(s)))
      BY <1>5
    <2>2. need \in Nat
      BY IntradayAssumption DEF IntradayAssumption
    <2>3. s \in Symbols /\ \E n \in 1 .. Sessions : <<s, n>> \in Required
      BY <2>1
    <2> QED
      BY <2>1, <2>2, <2>3, WarmupGroupIsSane
  <1> HIDE DEF new, sessions, warmups
  <1> QED
    BY <1>1, <1>2, <1>4, <1>5, BegunKeeps

-----------------------------------------------------------------------------
\* A window ends at a number; that of a session is the whole request.
LEMMA WindowOfGroup ==
    ASSUME NEW g, NEW stored, Sane(g, stored)
    PROVE  WindowEnd(g) \in Nat /\ (g.what = "session" => WindowEnd(g) = g.to)
  <1>1. g.from \in Nat /\ g.to \in Nat /\ Window \in Nat
    BY IntradayAssumption DEF Sane, IntradayAssumption
  <1>2. g.from + Window \in Int /\ g.to \in Int
    BY <1>1
  <1>3. WindowEnd(g) = IF g.from + Window <= g.to THEN g.from + Window ELSE g.to
    <2>1. ASSUME NEW a \in Int, NEW b \in Int
          PROVE  Min({a, b}) = IF a <= b THEN a ELSE b
      BY ExtremesOfTwo
    <2> QED
      BY ONLY <1>2, <2>1, Zenon DEF WindowEnd
  <1>4. g.what = "session" => g.to <= g.from + Window
    BY DEF Sane
  <1> QED
    BY <1>1, <1>3, <1>4

\* An answer adds bars, and all it could find.
LEMMA StoredGrows ==
    ASSUME Inv, NEW g
    PROVE  /\ DOMAIN Stored(g) = Symbols
           /\ \A s \in Symbols : /\ bars[s] \subseteq Stored(g)[s]
                                 /\ Stored(g)[s] \subseteq Slots
  BY DEF Inv, Stored, Between

\* What a session still lacks when its window has been answered, the provider lacks.
LEMMA AnswerIsHonest ==
    ASSUME NEW g, Sane(g, bars), g.what = "session",
           NEW s \in g.symbols
    PROVE  Answer(g, FALSE, Stored(g)).missing[s] \cap provider[s] = {}
  <1>1. s \in Symbols /\ WindowEnd(g) = g.to
    BY WindowOfGroup DEF Sane
  <1>2. Stored(g)[s] = bars[s] \cup (provider[s] \cap Between(g.from, g.to))
    BY <1>1 DEF Stored
  <1>3. Answer(g, FALSE, Stored(g)).missing[s] = SessionSlots(SessionOf(g)) \ Stored(g)[s]
    BY DEF Answer, SessionOf
  <1>4. SessionSlots(SessionOf(g)) \ Between(g.from, g.to) \subseteq bars[s]
    BY DEF Sane
  <1> QED
    BY <1>2, <1>3, <1>4

\* The rest of a group is as good as the group.
LEMMA RestIsSane ==
    ASSUME NEW todo, NEW stored, \A h \in todo : Sane(h, stored), NEW g \in todo,
           NEW rest \in Rest(todo, g)
    PROVE  Sane(rest, stored)
  <1>1. WindowEnd(g) \in Nat /\ (g.what = "session" => WindowEnd(g) = g.to)
    BY WindowOfGroup
  <1>2. CASE rest \in todo
    BY <1>2
  <1>3. CASE rest \notin todo
    <2>1. WindowEnd(g) # g.to /\ rest = [g EXCEPT !.from = WindowEnd(g)]
      BY <1>3 DEF Rest
    <2> QED
      BY <1>1, <2>1 DEF Sane
  <1> QED
    BY <1>2, <1>3

\* A process that takes up an answer is left with the same groups.
LEMMA AnswerInHand ==
    ASSUME NEW r, NEW stored, NEW supply, Process(r, stored, supply), r.todo # {},
           NEW got, DOMAIN got = {"symbols", "failed", "missing"},
           Current(r.todo).what = "session" /\ ~got.failed =>
               \A s \in got.symbols : got.missing[s] \cap supply[s] = {}
    PROVE  Process([r EXCEPT !.got = got], stored, supply)
  <1> DEFINE new == [r EXCEPT !.got = got]
  <1>1. DOMAIN new = DOMAIN Idle /\ new.todo = r.todo /\ new.got = got
    BY DEF Process, Idle
  <1> HIDE DEF new
  <1>2. Process(new, stored, supply)
    BY <1>1 DEF Process, Honest
  <1> QED
    BY <1>2 DEF new

\* A process without an answer may have any sound groups left.
LEMMA GroupsLeft ==
    ASSUME NEW r, NEW stored, NEW supply, Process(r, stored, supply), r.got = None,
           NEW todo, \A g \in todo : Sane(g, stored)
    PROVE  Process([r EXCEPT !.todo = todo], stored, supply)
  <1> DEFINE new == [r EXCEPT !.todo = todo]
  <1>1. DOMAIN new = DOMAIN Idle /\ new.todo = todo /\ new.got = None
    BY DEF Process, Idle
  <1> HIDE DEF new
  <1>2. Process(new, stored, supply)
    BY <1>1 DEF Process, Honest
  <1> QED
    BY <1>2 DEF new

-----------------------------------------------------------------------------
LEMMA FetchKeeps ==
    ASSUME Inv, NEW p \in Procs, Fetch(p)
    PROVE  Inv'
  <1> DEFINE r == run[p]
             g == Current(r.todo)
             new == IF g.what = "sync" \/ WindowEnd(g) # g.to
                    THEN [r EXCEPT !.todo = Rest(r.todo, g)]
                    ELSE [r EXCEPT !.got = Answer(g, FALSE, Stored(g))]
  <1>1. /\ r.todo # {} /\ r.got = None /\ bars' = Stored(g)
        /\ run' = [run EXCEPT ![p] = new] /\ UNCHANGED <<provider, observed>>
    BY DEF Fetch
  <1>2. Process(r, bars, provider)
    BY DEF Inv
  <1>3. g \in r.todo /\ Sane(g, bars)
    BY <1>1, <1>2, CurrentIsTodo DEF Process
  <1>4. /\ DOMAIN bars' = Symbols
        /\ \A s \in Symbols : bars[s] \subseteq bars'[s] /\ bars'[s] \subseteq Slots
    BY <1>1, StoredGrows
  <1>5. Process(r, bars', provider)
    BY <1>2, <1>4, ProcessGrows
  <1> HIDE DEF r, g
  <1>6. Process([r EXCEPT !.todo = Rest(r.todo, g)], bars', provider)
    <2>1. \A h \in Rest(r.todo, g) : Sane(h, bars')
      BY <1>3, <1>5, RestIsSane DEF Process
    <2> QED
      BY <1>1, <1>5, <2>1, GroupsLeft
  <1>7. Process([r EXCEPT !.got = Answer(g, FALSE, Stored(g))], bars', provider)
    <2> DEFINE got == Answer(g, FALSE, Stored(g))
    <2>1. got.symbols = g.symbols /\ DOMAIN got = {"symbols", "failed", "missing"}
      BY DEF Answer
    <2>2. g.what = "session" =>
              \A s \in got.symbols : got.missing[s] \cap provider[s] = {}
      BY <1>3, <2>1, AnswerIsHonest
    <2>3. g = Current(r.todo)
      BY DEF g, r
    <2> HIDE DEF got
    <2>4. Process([r EXCEPT !.got = got], bars', provider)
      BY <1>1, <1>5, <2>1, <2>2, <2>3, AnswerInHand
    <2> QED
      BY <2>4 DEF got
  <1>8. Process(new, bars', provider)
    BY <1>6, <1>7
  <1> HIDE DEF new
  <1> QED
    BY <1>1, <1>4, <1>8, ProcessMoves

\* An answer that failed, or that came with invalid bars, says nothing.
LEMMA FailedInHand ==
    ASSUME NEW r, NEW stored, NEW supply, Process(r, stored, supply), r.todo # {},
           NEW g, NEW held
    PROVE  Process([r EXCEPT !.got = Answer(g, TRUE, held)], stored, supply)
  <1> DEFINE got == Answer(g, TRUE, held)
  <1>1. DOMAIN got = {"symbols", "failed", "missing"} /\ got.failed
    BY DEF Answer
  <1> HIDE DEF got
  <1>2. Process([r EXCEPT !.got = got], stored, supply)
    BY <1>1, AnswerInHand
  <1> QED
    BY <1>2 DEF got

LEMMA GarbledKeeps ==
    ASSUME Inv, NEW p \in Procs, Garbled(p)
    PROVE  Inv'
  <1> DEFINE r == run[p]
             g == Current(r.todo)
             new == [r EXCEPT !.got = Answer(g, TRUE, Stored(g))]
  <1>1. /\ r.todo # {} /\ bars' = Stored(g) /\ run' = [run EXCEPT ![p] = new]
        /\ UNCHANGED <<provider, observed>>
    BY DEF Garbled
  <1>2. /\ DOMAIN bars' = Symbols
        /\ \A s \in Symbols : bars[s] \subseteq bars'[s] /\ bars'[s] \subseteq Slots
    BY <1>1, StoredGrows
  <1>3. Process(r, bars', provider)
    BY <1>2, ProcessGrows DEF Inv
  <1> HIDE DEF r, g
  <1>4. Process(new, bars', provider)
    BY <1>1, <1>3, FailedInHand
  <1> HIDE DEF new
  <1> QED
    BY <1>1, <1>2, <1>4, ProcessMoves

LEMMA FailKeeps ==
    ASSUME Inv, NEW p \in Procs, Fail(p)
    PROVE  Inv'
  <1> DEFINE r == run[p]
             g == Current(r.todo)
             given == [r EXCEPT !.todo = GivenUp(r.todo, g), !.errors = TRUE]
             failed == [r EXCEPT !.got = Answer(g, TRUE, bars)]
             new == IF g.what = "sync" THEN given ELSE failed
  <1>1. /\ r.todo # {} /\ r.got = None /\ run' = [run EXCEPT ![p] = new]
        /\ UNCHANGED <<provider, bars, observed>>
    BY DEF Fail
  <1>2. Process(r, bars, provider)
    BY DEF Inv
  <1> HIDE DEF r, g
  <1>3. Process(given, bars, provider)
    <2>1. DOMAIN given = DOMAIN Idle /\ given.got = None
          /\ given.todo = GivenUp(r.todo, g)
      BY <1>1, <1>2 DEF Process, Idle
    <2> HIDE DEF given
    <2>2. \A h \in given.todo : Sane(h, bars)
      BY <1>2, <2>1 DEF GivenUp, Process
    <2> QED
      BY <2>1, <2>2 DEF Process, Honest
  <1>4. Process(failed, bars, provider)
    BY <1>1, <1>2, FailedInHand
  <1>5. Process(new, bars, provider)
    BY <1>3, <1>4
  <1> HIDE DEF new
  <1> QED
    BY <1>1, <1>5, ProcessMoves DEF Inv

\* What is left of an answer of which one symbol has been recorded.
LEMMA RecordedProcess ==
    ASSUME NEW r, NEW stored, NEW supply, Process(r, stored, supply), r.got # None,
           NEW s
    PROVE  /\ Process([r EXCEPT !.got = None, !.todo = @ \ {Current(r.todo)}],
                      stored, supply)
           /\ Process([r EXCEPT !.got.symbols = @ \ {s}],
                      stored, supply)
  <1> DEFINE over == [r EXCEPT !.got = None, !.todo = @ \ {Current(r.todo)}]
             got == [r.got EXCEPT !.symbols = @ \ {s}]
  <1>1. Process(over, stored, supply)
    <2>1. DOMAIN over = DOMAIN Idle /\ over.got = None
          /\ over.todo = r.todo \ {Current(r.todo)}
      BY DEF Process, Idle
    <2> HIDE DEF over
    <2> QED
      BY <2>1 DEF Process, Honest
  <1>2. Process([r EXCEPT !.got = got], stored, supply)
    <2>1. r.todo # {} /\ DOMAIN r.got = {"symbols", "failed", "missing"}
      BY DEF Process, Honest
    <2>2. /\ DOMAIN got = {"symbols", "failed", "missing"}
          /\ got.symbols \subseteq r.got.symbols
          /\ got.failed = r.got.failed /\ got.missing = r.got.missing
      BY <2>1
    <2> HIDE DEF got
    <2>3. Current(r.todo).what = "session" /\ ~got.failed =>
              \A other \in got.symbols : got.missing[other] \cap supply[other] = {}
      BY <2>2 DEF Process, Honest
    <2> QED
      BY <2>1, <2>2, <2>3, AnswerInHand
  <1>3. [r EXCEPT !.got.symbols = @ \ {s}] = [r EXCEPT !.got = got]
    OBVIOUS
  <1> HIDE DEF over, got
  <1>4. Process([r EXCEPT !.got.symbols = @ \ {s}], stored, supply)
    BY ONLY <1>2, <1>3, Zenon
  <1> QED
    BY <1>1, <1>4 DEF over

LEMMA RecordKeeps ==
    ASSUME Inv, NEW p \in Procs, NEW s \in Symbols, Record(p, s)
    PROVE  Inv'
  <1> DEFINE r == run[p]
             g == Current(r.todo)
             over == [r EXCEPT !.got = None, !.todo = @ \ {g}]
             left == [r EXCEPT !.got.symbols = @ \ {s}]
             new == IF r.got.symbols = {s} THEN over ELSE left
             session == (g.from - 1) \div PerSession + 1
             missing == r.got.missing[s]
             noted == Noted(r.kind, r.got.failed, missing, missing = {})
  <1>1. /\ r.got # None /\ s \in r.got.symbols /\ run' = [run EXCEPT ![p] = new]
        /\ UNCHANGED <<provider, bars>>
        /\ IF g.what = "session"
           THEN observed' = [observed EXCEPT ![s][session] = noted]
           ELSE observed' = observed
    BY DEF Record
  <1>2. Process(r, bars, provider)
    BY DEF Inv
  <1>3. Process(new, bars, provider)
    <2> HIDE DEF r
    <2>1. Process(over, bars, provider) /\ Process(left, bars, provider)
      BY <1>1, <1>2, RecordedProcess
    <2> HIDE DEF over, left
    <2> QED
      BY <2>1
  <1>4. g.what = "session" => Observed(noted, provider[s])
    <2>1. g.what = "session" /\ ~r.got.failed => missing \cap provider[s] = {}
      BY <1>1, <1>2 DEF Process, Honest
    <2> HIDE DEF missing, g, r
    <2> QED
      BY <2>1 DEF Observed, Noted
  <1> HIDE DEF new, noted, session, g
  <1>5. /\ DOMAIN run' = Procs
        /\ \A other \in Procs : Process(run'[other], bars, provider)
    BY <1>1, <1>3 DEF Inv
  <1>6. DOMAIN observed' = Symbols
        /\ \A t \in Symbols : /\ DOMAIN observed'[t] = 1 .. Sessions
                              /\ \A n \in 1 .. Sessions :
                                     Observed(observed'[t][n], provider[t])
    <2>1. CASE g.what = "session"
      <3>1. observed' = [observed EXCEPT ![s] = [observed[s] EXCEPT ![session] = noted]]
        BY <1>1, <2>1
      <3>2. DOMAIN observed = Symbols /\ DOMAIN observed[s] = 1 .. Sessions
        BY DEF Inv
      <3>3. \A t \in Symbols : observed'[t] =
                IF t = s THEN [observed[s] EXCEPT ![session] = noted] ELSE observed[t]
        BY <3>1, <3>2
      <3>4. \A n \in 1 .. Sessions : [observed[s] EXCEPT ![session] = noted][n] =
                IF n = session THEN noted ELSE observed[s][n]
        BY <3>2
      <3>5. ASSUME NEW t \in Symbols
            PROVE  /\ DOMAIN observed'[t] = 1 .. Sessions
                   /\ \A n \in 1 .. Sessions : Observed(observed'[t][n], provider[t])
        BY <1>4, <2>1, <3>2, <3>3, <3>4 DEF Inv
      <3> QED
        BY <3>1, <3>2, <3>5
    <2>2. CASE g.what # "session"
      BY <1>1, <2>2 DEF Inv
    <2> QED
      BY <2>1, <2>2
  <1> QED
    BY <1>1, <1>5, <1>6 DEF Inv

-----------------------------------------------------------------------------
\* At first nothing is stored, nothing is known and nobody works.
LEMMA InitHolds ==
    ASSUME Init
    PROVE  Inv
  <1>1. Process(Idle, bars, provider)
    BY DEF Process, Idle, Honest
  <1>2. \A p \in Procs : run[p] = Idle
    BY DEF Init
  <1> QED
    BY <1>1, <1>2 DEF Init, Inv, Observed

LEMMA StepKeeps ==
    ASSUME Inv, [Next]_vars
    PROVE  Inv'
  <1>1. CASE Next
    <2> SUFFICES ASSUME NEW p \in Procs,
                        \/ \E start \in Starts, end \in Ends, incremental \in BOOLEAN :
                               BeginSync(p, Symbols, start, end, incremental)
                        \/ Remedy(p) \/ Work(p) \/ Garbled(p) \/ Fail(p) \/ Die(p)
                 PROVE  Inv'
      BY <1>1 DEF Next
    <2>1. CASE \E start \in Starts, end \in Ends, incremental \in BOOLEAN :
                   BeginSync(p, Symbols, start, end, incremental)
      BY <2>1, BeginSyncKeeps
    <2>2. CASE Remedy(p)
      BY <2>2, BeginRemedyKeeps DEF Remedy
    <2>3. CASE Work(p)
      <3>1. CASE Fetch(p)
        BY <3>1, FetchKeeps
      <3>2. CASE \E s \in Symbols : Record(p, s)
        BY <3>2, RecordKeeps
      <3>3. CASE Finish(p)
        BY <3>3, IdleKeeps DEF Finish
      <3> QED
        BY <2>3, <3>1, <3>2, <3>3 DEF Work
    <2>4. CASE Garbled(p)
      BY <2>4, GarbledKeeps
    <2>5. CASE Fail(p)
      BY <2>5, FailKeeps
    <2>6. CASE Die(p)
      BY <2>6, IdleKeeps DEF Die
    <2> QED
      BY <2>1, <2>2, <2>3, <2>4, <2>5, <2>6
  <1>2. CASE UNCHANGED vars
    BY <1>2 DEF vars, Inv
  <1> QED
    BY <1>1, <1>2

LEMMA InvImpliesReal ==
    ASSUME Inv
    PROVE  AbsenceIsReal
  <1> SUFFICES ASSUME NEW kind \in Kinds, NEW s \in Symbols,
                      NEW session \in 1 .. Sessions,
                      Classified(kind, s, session) = "absent"
               PROVE  Missing(s, session) \cap provider[s] = {}
    BY DEF AbsenceIsReal
  <1> DEFINE seen == observed[s][session]
  <1>1. seen # None /\ seen.status # "failed" /\ Missing(s, session) \subseteq seen.missing
    BY DEF Classified
  <1>2. Observed(seen, provider[s])
    BY DEF Inv
  <1> QED
    BY <1>1, <1>2 DEF Observed

\* AbsencesAreReal: what the remediation takes for absent, and no longer asks for,
\* is absent at the provider, however many runs overlap, fail, find invalid
\* bars or die between an answer and its record
\* (intraday_remediation._fetch_and_record, _classify_missing).
THEOREM AbsencesAreReal == Spec => []AbsenceIsReal
  <1>1. Init => Inv
    BY InitHolds
  <1>2. Inv /\ [Next]_vars => Inv'
    BY StepKeeps
  <1>3. Inv => AbsenceIsReal
    BY InvImpliesReal
  <1> QED
    BY <1>1, <1>2, <1>3, PTL DEF Spec

-----------------------------------------------------------------------------
\* What the provider has from start on is stored, up to a bar.
Behind(start, supply, stored, from) ==
    \A slot \in supply : start <= slot /\ slot < from => slot \in stored

\* Nothing is left out before a bar that is stored.
Prefix(start, supply, stored) == \A slot \in stored : Behind(start, supply, stored, slot)

Asks(g, s, slot) == s \in g.symbols /\ g.from <= slot /\ slot < g.to

\* A process that began at start: what lies before its groups is stored, and what an
\* incremental synchronization has to bring is stored or still to be asked for.
Onward(start, r, stored, supply, spoilt) ==
    /\ r.incremental =>
           r.start = start /\ r.got = None /\ \A g \in r.todo : g.what = "sync"
    /\ \A g \in r.todo : g.what = "sync" =>
           \A s \in g.symbols \ spoilt : Behind(start, supply[s], stored[s], g.from)
    /\ r.incremental /\ ~r.errors =>
           \A s \in Symbols \ spoilt : \A slot \in supply[s] :
               start <= slot /\ slot < r.end =>
                   slot \in stored[s] \/ \E g \in r.todo : Asks(g, s, slot)

Resuming(start) ==
    /\ Inv
    /\ \A s \in Symbols : provider[s] \subseteq Slots
    /\ \A s \in Symbols \ touched : Prefix(start, provider[s], bars[s])
    /\ \A p \in Procs : Onward(start, run[p], bars, provider, touched)

LEMMA SlotsAreNumbers == \E limit \in Nat : Slots \subseteq 1 .. limit
  <1>1. Sessions * PerSession \in Nat
    BY IntradayAssumption DEF IntradayAssumption
  <1> QED
    BY <1>1 DEF Slots

\* A window that begins where everything before it is stored leaves no hole.
LEMMA WindowExtends ==
    ASSUME NEW start \in Nat, NEW supply \in SUBSET Slots, NEW stored \in SUBSET Slots,
           Prefix(start, supply, stored), NEW from \in Nat, NEW to \in Nat,
           Behind(start, supply, stored, from),
           NEW more, more = stored \cup (supply \cap Between(from, to))
    PROVE  Prefix(start, supply, more) /\ Behind(start, supply, more, to)
  <1>1. PICK limit \in Nat : Slots \subseteq 1 .. limit
    BY SlotsAreNumbers
  <1>2. \A slot \in Slots : slot \in Nat
    BY <1>1
  <1>3. ASSUME NEW slot \in supply, NEW last \in Nat, start <= slot, slot < last,
               last \in more \/ last = to
        PROVE  slot \in more
    <2>1. slot \in Nat
      BY <1>2
    <2>2. CASE slot < from
      BY <1>3, <2>2 DEF Behind
    <2>3. CASE from <= slot /\ slot < to
      BY <1>3, <2>3 DEF Between
    <2>4. CASE from <= slot /\ to <= slot
      <3>1. last \in stored
        BY <1>3, <2>1, <2>4 DEF Between
      <3> QED
        BY <1>3, <3>1 DEF Prefix, Behind
    <2> QED
      BY <2>1, <2>2, <2>3, <2>4
  <1>4. \A last \in more : last \in Nat
    BY <1>2
  <1> QED
    BY <1>3, <1>4 DEF Prefix, Behind

\* What an incremental synchronization asks for: nothing is left out before it, and
\* it contains all that is not stored.
LEMMA EdgesResume ==
    ASSUME NEW start \in Nat, NEW end \in Nat, NEW supply \in SUBSET Slots,
           NEW held \in SUBSET Slots, Prefix(start, supply, held)
    PROVE  LET ranges == EdgeRanges(held \cap Between(start, end), start, end) IN
           /\ \A range \in ranges : Behind(start, supply, held, range[1])
           /\ \A slot \in supply \ held : start <= slot /\ slot < end =>
                  \E range \in ranges : range[1] <= slot /\ slot < range[2]
  <1> DEFINE stored == held \cap Between(start, end)
             ranges == EdgeRanges(stored, start, end)
  <1>1. PICK limit \in Nat : Slots \subseteq 1 .. limit
    BY SlotsAreNumbers
  <1>2. \A slot \in Slots : slot \in Nat
    BY <1>1
  <1>3. Behind(start, supply, held, start)
    BY <1>2 DEF Behind
  <1>6. end \in Int
    OBVIOUS
  <1>4. CASE stored = {}
    <2>1. ranges = {<<start, end>>}
      BY <1>4 DEF EdgeRanges
    <2> HIDE DEF ranges
    <2>2. <<start, end>> \in ranges /\ \A range \in ranges : range[1] = start
      BY <2>1
    <2>3. <<start, end>>[1] <= start /\ <<start, end>>[2] = end
      OBVIOUS
    <2> QED
      BY <1>3, <2>2, <2>3 DEF ranges
  <1>5. CASE stored # {}
    <2>1. PICK lead : lead = Min({end, Min(stored) + Overlap})
      OBVIOUS
    <2>2. PICK following : following = Max(stored) + 1
      OBVIOUS
    <2>3. PICK tail : tail = Max({start, following - Overlap})
      OBVIOUS
    <2>4. PICK far : far = Max({lead, end})
      OBVIOUS
    <2>5. Overlap \in Nat
      BY IntradayAssumption DEF IntradayAssumption
    <2>6. /\ Max(stored) \in stored /\ Max(stored) \in Nat /\ Min(stored) \in Nat
          /\ \A n \in stored : n <= Max(stored)
      <3>1. stored \in SUBSET (0 .. limit) /\ stored \in SUBSET Nat
        <4>1. \A n \in stored : n \in Slots
          OBVIOUS
        <4>2. \A n \in Slots : n \in 0 .. limit /\ n \in Nat
          BY <1>1
        <4> HIDE DEF stored
        <4> QED
          BY <4>1, <4>2
      <3>2. Max(stored) \in stored /\ \A n \in stored : n <= Max(stored)
        BY <1>5, <3>1, GreatestIsMax
      <3>3. Min(stored) \in stored
        BY <1>5, <3>1, LeastIsMin
      <3> QED
        BY <3>1, <3>2, <3>3
    <2>7. tail = IF start <= following - Overlap THEN following - Overlap ELSE start
      <3>1. following - Overlap \in Int /\ start \in Int
        BY <2>2, <2>5, <2>6
      <3> QED
        BY ONLY <2>3, <3>1, ExtremesOfTwo
    <2>8. lead \in Int
      <3>1. Min(stored) + Overlap \in Int /\ end \in Int
        BY <2>5, <2>6
      <3>2. PICK low \in Int : low = Min(stored) + Overlap
        BY <3>1
      <3>3. lead = IF end <= low THEN end ELSE low
        BY ONLY <2>1, <3>1, <3>2, ExtremesOfTwo
      <3> QED
        BY <3>1, <3>2, <3>3
    <2>9. far >= end /\ far \in Int
      <3>1. far = IF lead <= end THEN end ELSE lead
        BY ONLY <2>4, <2>8, <1>6, ExtremesOfTwo
      <3> QED
        BY <2>8, <3>1
    <2> DEFINE leading == Min(stored) > start
               trailing == following < end \/ (Overlap > 0 /\ tail < end)
    <2>10. ranges = IF leading /\ trailing /\ tail <= lead THEN {<<start, far>>}
                    ELSE (IF leading THEN {<<start, lead>>} ELSE {})
                             \cup (IF trailing THEN {<<tail, end>>} ELSE {})
      BY ONLY <1>5, <2>1, <2>2, <2>3, <2>4 DEF EdgeRanges
    <2> HIDE DEF ranges, leading
    <2>11. \A range \in ranges : range[1] \in {start, tail}
      BY <2>10
    <2>12. Behind(start, supply, held, tail)
      <3> SUFFICES ASSUME NEW slot \in supply, start <= slot, slot < tail
                   PROVE  slot \in held
        BY DEF Behind
      <3>1. slot \in Nat
        BY <1>2
      <3>2. slot <= Max(stored)
        BY <2>2, <2>5, <2>6, <2>7, <3>1
      <3>3. Max(stored) \in held
        BY <2>6
      <3>4. CASE slot = Max(stored)
        BY <3>3, <3>4
      <3>5. CASE slot < Max(stored)
        BY <3>3, <3>5 DEF Prefix, Behind
      <3> QED
        BY <2>6, <3>1, <3>2, <3>4, <3>5
    <2>13. ASSUME NEW slot \in supply \ held, start <= slot, slot < end
           PROVE  \E range \in ranges : range[1] <= slot /\ slot < range[2]
      <3>1. slot \in Nat
        BY <1>2
      <3>2. Max(stored) < slot
        <4>1. Max(stored) \in held
          BY <2>6
        <4>2. ~(slot < Max(stored))
          BY <2>13, <4>1 DEF Prefix, Behind
        <4>3. slot # Max(stored)
          BY <4>1
        <4> QED
          BY <2>6, <3>1, <4>2, <4>3
      <3>3. following <= slot /\ tail <= slot
        BY <2>2, <2>5, <2>6, <2>7, <2>13, <3>1, <3>2
      <3>4. trailing
        BY <2>2, <2>6, <2>13, <3>1, <3>3
      <3>5. slot < far
        BY <2>9, <2>13, <3>1
      <3>6. \/ <<start, far>> \in ranges
            \/ <<tail, end>> \in ranges
        BY <2>10, <3>4
      <3> QED
        BY <2>13, <3>3, <3>5, <3>6
    <2> QED
      BY <1>3, <2>11, <2>12, <2>13 DEF ranges
  <1> QED
    BY <1>4, <1>5

\* Bars that are added and symbols that are given up leave a process where it is.
LEMMA OnwardStays ==
    ASSUME NEW start, NEW r, NEW stored, NEW supply, NEW spoilt,
           Onward(start, r, stored, supply, spoilt), NEW more, NEW also,
           \A s \in Symbols : stored[s] \subseteq more[s], spoilt \subseteq also,
           \A g \in r.todo : g.symbols \subseteq Symbols
    PROVE  Onward(start, r, more, supply, also)
  BY DEF Onward, Behind

\* A step of one process, which may store bars of symbols it does not spoil.
LEMMA ResumingMoves ==
    ASSUME NEW start \in Nat, Resuming(start), Inv', NEW p \in Procs, NEW r,
           run' = [run EXCEPT ![p] = r], provider' = provider,
           Onward(start, r, bars', provider, touched'), touched \subseteq touched',
           \A s \in Symbols : bars[s] \subseteq bars'[s],
           \A s \in Symbols \ touched' : Prefix(start, provider[s], bars'[s])
    PROVE  Resuming(start)'
  <1>1. \A q \in Procs : run'[q] = IF q = p THEN r ELSE run[q]
    BY DEF Resuming, Inv
  <1>2. ASSUME NEW q \in Procs PROVE Onward(start, run[q], bars', provider, touched')
    <2>1. \A g \in run[q].todo : g.symbols \subseteq Symbols
      BY DEF Resuming, Inv, Process, Sane
    <2>2. Onward(start, run[q], bars, provider, touched)
      BY DEF Resuming
    <2> QED
      BY <2>1, <2>2, OnwardStays
  <1>3. \A q \in Procs : Onward(start, run'[q], bars', provider', touched')
    BY <1>1, <1>2
  <1> QED
    BY <1>3 DEF Resuming

\* A step that stores nothing and begins nothing incremental.
LEMMA ResumingRests ==
    ASSUME NEW start \in Nat, Resuming(start), Inv', NEW p \in Procs, NEW r,
           run' = [run EXCEPT ![p] = r], UNCHANGED <<provider, bars>>,
           touched \subseteq touched', r.incremental => r.errors,
           r.incremental => r.start = start /\ r.got = None,
           \A g \in r.todo : g.what = "sync" => g \in run[p].todo,
           r.incremental => \A g \in r.todo : g.what = "sync"
    PROVE  Resuming(start)'
  <1>1. Onward(start, run[p], bars, provider, touched)
    BY DEF Resuming
  <1>2. \A g \in r.todo : g.what = "sync" =>
            \A s \in g.symbols \ touched' : Behind(start, provider[s], bars[s], g.from)
    BY <1>1 DEF Onward
  <1>3. Onward(start, r, bars', provider, touched')
    BY <1>2 DEF Onward
  <1> QED
    BY <1>3, ResumingMoves DEF Resuming

LEMMA BeginSyncResumes ==
    ASSUME NEW start \in Starts, Resuming(start), Inv', NEW p \in Procs,
           NEW end \in Ends, NEW incremental \in BOOLEAN,
           BeginSync(p, Symbols, start, end, incremental)
    PROVE  Resuming(start)'
  <1> DEFINE ranges(s) == Ranges(s, start, end, incremental)
             group(r) == Group("sync", {s \in Symbols : r \in ranges(s)}, r[1], r[2])
             groups == {group(r) : r \in UNION {ranges(s) : s \in Symbols}}
             new == [Idle EXCEPT !.busy = TRUE, !.todo = groups, !.start = start,
                                 !.end = end, !.incremental = incremental]
  <1>1. /\ run' = [run EXCEPT ![p] = new]
        /\ UNCHANGED <<provider, bars, touched>>
    BY DEF BeginSync
  <1>2. /\ new.todo = groups /\ new.incremental = incremental /\ new.start = start
        /\ new.end = end /\ new.got = None
    BY DEF Idle
  <1>3. start \in Nat /\ end \in Nat
    BY IntradayAssumption DEF IntradayAssumption
  <1>4. ASSUME NEW s \in Symbols \ touched
        PROVE  /\ \A r \in ranges(s) : Behind(start, provider[s], bars[s], r[1])
               /\ \A slot \in provider[s] \ bars[s] : start <= slot /\ slot < end =>
                      \E r \in ranges(s) : r[1] <= slot /\ slot < r[2]
    <2>1. /\ provider[s] \in SUBSET Slots /\ bars[s] \in SUBSET Slots
          /\ Prefix(start, provider[s], bars[s])
      BY DEF Resuming, Inv
    <2>2. CASE incremental
      <3>1. ranges(s) = EdgeRanges(bars[s] \cap Between(start, end), start, end)
        BY <2>2 DEF Ranges
      <3> HIDE DEF ranges
      <3> QED
        BY <1>3, <2>1, <3>1, EdgesResume
    <2>3. CASE ~incremental
      <3>1. ranges(s) = {<<start, end>>}
        BY <2>3 DEF Ranges
      <3>2. Behind(start, provider[s], bars[s], start)
        <4>1. \A slot \in Slots : slot \in Nat
          BY SlotsAreNumbers
        <4> QED
          BY <1>3, <2>1, <4>1 DEF Behind
      <3> HIDE DEF ranges
      <3>3. <<start, end>> \in ranges(s) /\ \A r \in ranges(s) : r[1] = start
        BY <3>1
      <3>4. <<start, end>>[1] = start /\ <<start, end>>[2] = end
        OBVIOUS
      <3> QED
        BY <1>3, <3>2, <3>3, <3>4
    <2> QED
      BY <2>2, <2>3
  <1> HIDE DEF ranges
  <1>5. \A g \in groups : g.what = "sync"
    BY DEF Group
  <1>6. ASSUME NEW g \in groups, NEW s \in g.symbols \ touched
        PROVE  Behind(start, provider[s], bars[s], g.from)
    <2>1. PICK r \in UNION {ranges(t) : t \in Symbols} : g = group(r)
      BY <1>6
    <2>2. g.symbols = {t \in Symbols : r \in ranges(t)} /\ g.from = r[1]
      BY <2>1 DEF Group
    <2>3. s \in Symbols \ touched /\ r \in ranges(s)
      BY <1>6, <2>2
    <2> QED
      BY <1>4, <2>2, <2>3
  <1>7. ASSUME NEW s \in Symbols \ touched, NEW slot \in provider[s],
               start <= slot, slot < end, slot \notin bars[s]
        PROVE  \E g \in groups : Asks(g, s, slot)
    <2>1. PICK r \in ranges(s) : r[1] <= slot /\ slot < r[2]
      BY <1>4, <1>7
    <2>2. group(r) \in groups
      BY <2>1
    <2>3. Asks(group(r), s, slot)
      BY <2>1 DEF Asks, Group
    <2> QED
      BY <2>2, <2>3
  <1> HIDE DEF groups, new
  <1>8. Onward(start, new, bars', provider, touched')
    BY <1>1, <1>2, <1>5, <1>6, <1>7 DEF Onward
  <1>9. \A s \in Symbols \ touched' : Prefix(start, provider[s], bars'[s])
    BY <1>1 DEF Resuming
  <1> QED
    BY <1>1, <1>3, <1>8, <1>9, ResumingMoves

LEMMA BeginRemedyResumes ==
    ASSUME NEW start \in Nat, Resuming(start), Inv', NEW p \in Procs,
           NEW kind \in Kinds, NEW need \in Warmups, BeginRemedy(p, kind, need)
    PROVE  Resuming(start)'
  <1> DEFINE targets(session) ==
                 {s \in Symbols : /\ <<s, session>> \in Required
                                  /\ Classified(kind, s, session) \in Blocking}
             gaps(session) == UNION {Missing(s, session) : s \in targets(session)}
             sessions == {Group("session", targets(session), Min(gaps(session)),
                                Max(gaps(session)) + 1) :
                              session \in {n \in 1 .. Sessions : targets(n) # {}}}
             warm == {s \in Symbols : /\ \E n \in 1 .. Sessions : <<s, n>> \in Required
                                      /\ need > 0 /\ First(s) > 1
                                      /\ ClassifiedWarmup(kind, s, need) \in Blocking}
             warmups == {Group("warmup", {s}, WarmupStart(s, need),
                               Opening(First(s))) : s \in warm}
             groups == sessions \cup warmups
  <1>1. /\ run' = [run EXCEPT ![p] = [Idle EXCEPT !.busy = TRUE, !.kind = kind,
                                           !.start = need, !.todo = groups]]
        /\ \A g \in groups : g.what # "sync"
    <2>1. run' = [run EXCEPT ![p] = [Idle EXCEPT !.busy = TRUE, !.kind = kind,
                                         !.start = need, !.todo = groups]]
      BY DEF BeginRemedy
    <2> HIDE DEF targets, gaps, warm
    <2>2. \A g \in groups : g.what # "sync"
      BY DEF Group
    <2> QED
      BY <2>1, <2>2
  <1> HIDE DEF groups
  <1>2. UNCHANGED <<provider, bars, touched>>
    BY DEF BeginRemedy
  <1> DEFINE new == [Idle EXCEPT !.busy = TRUE, !.kind = kind, !.start = need,
                                 !.todo = groups]
  <1>3. new.todo = groups /\ ~new.incremental
    BY DEF Idle
  <1> HIDE DEF new
  <1>4. run' = [run EXCEPT ![p] = new]
    BY <1>1 DEF new
  <1>5. \A g \in new.todo : g.what # "sync"
    BY <1>1, <1>3
  <1>6. UNCHANGED <<provider, bars>> /\ touched \subseteq touched'
    BY <1>2
  <1> QED
    BY <1>3, <1>4, <1>5, <1>6, ResumingRests

\* A window of a synchronization is stored.
LEMMA SyncWindowResumes ==
    ASSUME NEW start \in Nat, Resuming(start), NEW p \in Procs, NEW g,
           g \in run[p].todo, Sane(g, bars), g.what = "sync",
           NEW more, more = Stored(g)
    PROVE  /\ Onward(start, [run[p] EXCEPT !.todo = Rest(run[p].todo, g)],
                     more, provider, touched)
           /\ \A s \in Symbols \ touched : Prefix(start, provider[s], more[s])
  <1> DEFINE r == run[p]
             new == [r EXCEPT !.todo = Rest(r.todo, g)]
  <1>1. Onward(start, r, bars, provider, touched) /\ DOMAIN r = DOMAIN Idle
    BY DEF Resuming, Inv, Process
  <1>2. /\ new.todo = Rest(r.todo, g) /\ new.incremental = r.incremental
        /\ new.start = r.start /\ new.end = r.end /\ new.errors = r.errors
        /\ new.got = r.got
    BY <1>1 DEF Idle
  <1>3. WindowEnd(g) \in Nat /\ g.from \in Nat /\ g.symbols \subseteq Symbols
    BY WindowOfGroup DEF Sane
  <1>4. \A s \in Symbols : provider[s] \in SUBSET Slots /\ bars[s] \in SUBSET Slots
    BY DEF Resuming, Inv
  <1>5. \A s \in Symbols : bars[s] \subseteq more[s]
    BY DEF Stored
  <1>6. ASSUME NEW s \in g.symbols \ touched
        PROVE  /\ Prefix(start, provider[s], more[s])
               /\ Behind(start, provider[s], more[s], WindowEnd(g))
    <2>1. more[s] = bars[s] \cup (provider[s] \cap Between(g.from, WindowEnd(g)))
      BY <1>3 DEF Stored
    <2>2. Prefix(start, provider[s], bars[s])
      BY <1>3 DEF Resuming
    <2>3. Behind(start, provider[s], bars[s], g.from)
      BY <1>1 DEF Onward
    <2>4. provider[s] \in SUBSET Slots /\ bars[s] \in SUBSET Slots
      BY <1>3, <1>4
    <2> QED
      BY <1>3, <2>1, <2>2, <2>3, <2>4, WindowExtends
  <1>7. \A s \in Symbols \ touched : Prefix(start, provider[s], more[s])
    <2> SUFFICES ASSUME NEW s \in Symbols \ touched
                 PROVE  Prefix(start, provider[s], more[s])
      OBVIOUS
    <2>1. CASE s \in g.symbols
      BY <1>6, <2>1
    <2>2. CASE s \notin g.symbols
      BY <2>2 DEF Stored, Resuming
    <2> QED
      BY <2>1, <2>2
  <1> DEFINE left == [g EXCEPT !.from = WindowEnd(g)]
  <1>8. /\ \A h \in Rest(r.todo, g) : h \in r.todo \/ h = left
        /\ \A h \in r.todo : h # g => h \in Rest(r.todo, g)
        /\ WindowEnd(g) # g.to => left \in Rest(r.todo, g)
    BY DEF Rest
  <1>9. /\ left.what = "sync" /\ left.symbols = g.symbols
        /\ left.from = WindowEnd(g) /\ left.to = g.to
    BY DEF Sane
  <1> HIDE DEF left, new
  <1>10. r.incremental => \A h \in new.todo : h.what = "sync"
    BY <1>1, <1>2, <1>8, <1>9 DEF Onward
  <1>11. ASSUME NEW h \in new.todo, h.what = "sync", NEW s \in h.symbols \ touched
         PROVE  Behind(start, provider[s], more[s], h.from)
    <2>1. CASE h = left
      BY <1>6, <1>9, <1>11, <2>1
    <2>2. CASE h \in r.todo
      <3>1. s \in Symbols
        BY <1>11, <2>2 DEF Resuming, Inv, Process, Sane
      <3>2. Behind(start, provider[s], bars[s], h.from)
        BY <1>1, <1>11, <2>2 DEF Onward
      <3> QED
        BY <1>5, <3>1, <3>2 DEF Behind
    <2> QED
      BY <1>2, <1>8, <2>1, <2>2
  <1>12. ASSUME r.incremental, ~r.errors, NEW s \in Symbols \ touched,
                NEW slot \in provider[s], start <= slot, slot < r.end,
                slot \notin more[s]
         PROVE  \E h \in new.todo : Asks(h, s, slot)
    <2>1. slot \notin bars[s]
      BY <1>5, <1>12
    <2>2. PICK h \in r.todo : Asks(h, s, slot)
      BY <1>1, <1>12, <2>1 DEF Onward
    <2>3. CASE h # g
      BY <1>2, <1>8, <2>2, <2>3
    <2>4. CASE h = g
      <3>1. s \in g.symbols /\ g.from <= slot /\ slot < g.to
        BY <2>2, <2>4 DEF Asks
      <3>2. slot \in Nat /\ slot \in Slots
        <4>1. PICK limit \in Nat : Slots \subseteq 1 .. limit
          BY SlotsAreNumbers
        <4>2. slot \in Slots
          BY <1>4
        <4>3. \A n \in 1 .. limit : n \in Nat
          OBVIOUS
        <4> QED
          BY <4>1, <4>2, <4>3
      <3>3. WindowEnd(g) <= slot
        <4>1. slot \notin Between(g.from, WindowEnd(g))
          BY <1>12, <3>1 DEF Stored
        <4> QED
          BY <1>3, <3>1, <3>2, <4>1 DEF Between
      <3>4. WindowEnd(g) # g.to
        BY <1>3, <3>1, <3>2, <3>3
      <3>5. Asks(left, s, slot)
        BY <1>9, <3>1, <3>3 DEF Asks
      <3> QED
        BY <1>2, <1>8, <3>4, <3>5
    <2> QED
      BY <2>3, <2>4
  <1>13. Onward(start, new, more, provider, touched)
    <2>1. r.incremental => r.start = start /\ r.got = None
      BY <1>1 DEF Onward
    <2> QED
      BY <1>2, <1>10, <1>11, <1>12, <2>1 DEF Onward
  <1> QED
    BY <1>7, <1>13 DEF new

LEMMA FetchResumes ==
    ASSUME NEW start \in Nat, Resuming(start), Inv', NEW p \in Procs, Fetch(p)
    PROVE  Resuming(start)'
  <1> DEFINE r == run[p]
             g == Current(r.todo)
             rest == [r EXCEPT !.todo = Rest(r.todo, g)]
             held == [r EXCEPT !.got = Answer(g, FALSE, Stored(g))]
             new == IF g.what = "sync" \/ WindowEnd(g) # g.to THEN rest ELSE held
  <1>1. /\ r.todo # {} /\ r.got = None /\ bars' = Stored(g)
        /\ run' = [run EXCEPT ![p] = new] /\ provider' = provider
        /\ touched' = IF g.what = "sync" THEN touched ELSE touched \cup g.symbols
    BY DEF Fetch
  <1>2. Process(r, bars, provider) /\ Onward(start, r, bars, provider, touched)
    BY DEF Resuming, Inv
  <1>3. g \in r.todo /\ Sane(g, bars)
    BY <1>1, <1>2, CurrentIsTodo DEF Process
  <1>4. \A s \in Symbols : bars[s] \subseteq bars'[s]
    BY <1>1 DEF Stored
  <1>5. CASE g.what = "sync"
    <2>1. new = rest /\ touched' = touched
      BY <1>1, <1>5
    <2> HIDE DEF g, new
    <2>2. /\ Onward(start, rest, bars', provider, touched)
          /\ \A s \in Symbols \ touched : Prefix(start, provider[s], bars'[s])
      BY <1>1, <1>3, <1>5, SyncWindowResumes
    <2> HIDE DEF rest
    <2> QED
      BY <1>1, <1>4, <2>1, <2>2, ResumingMoves
  <1>6. CASE g.what # "sync"
    <2>1. ~r.incremental
      BY <1>2, <1>3, <1>6 DEF Onward
    <2>2. /\ rest.todo = Rest(r.todo, g) /\ ~rest.incremental
          /\ held.todo = r.todo /\ ~held.incremental
      BY <1>2, <2>1 DEF Process, Idle
    <2>3. ASSUME NEW h \in Rest(r.todo, g), h.what = "sync" PROVE h \in r.todo
      <3>1. h \in r.todo \/ h = [g EXCEPT !.from = WindowEnd(g)]
        BY DEF Rest
      <3>2. [g EXCEPT !.from = WindowEnd(g)].what = g.what
        BY <1>3 DEF Sane
      <3> QED
        BY <1>6, <2>3, <3>1, <3>2
    <2>4. touched' = touched \cup g.symbols
      BY <1>1, <1>6
    <2> HIDE DEF rest, held, g
    <2>5. ~new.incremental /\ \A h \in new.todo : h.what = "sync" => h \in r.todo
      BY <2>2, <2>3
    <2> HIDE DEF new
    <2>6. Onward(start, r, bars', provider, touched')
      <3>1. \A h \in r.todo : h.symbols \subseteq Symbols
        BY <1>2 DEF Process, Sane
      <3> QED
        BY <1>2, <1>4, <2>4, <3>1, OnwardStays
    <2>7. Onward(start, new, bars', provider, touched')
      BY <2>5, <2>6 DEF Onward
    <2>8. \A s \in Symbols \ touched' : Prefix(start, provider[s], bars'[s])
      BY <1>1, <2>4 DEF Stored, Resuming
    <2> QED
      BY <1>1, <1>4, <2>4, <2>7, <2>8, ResumingMoves
  <1> QED
    BY <1>5, <1>6

\* The other steps store bars of symbols they spoil only, or none.
LEMMA GarbledResumes ==
    ASSUME NEW start \in Nat, Resuming(start), Inv', NEW p \in Procs, Garbled(p)
    PROVE  Resuming(start)'
  <1> DEFINE r == run[p]
             g == Current(r.todo)
             new == [r EXCEPT !.got = Answer(g, TRUE, Stored(g))]
  <1>1. /\ r.todo # {} /\ g.what # "sync" /\ bars' = Stored(g)
        /\ run' = [run EXCEPT ![p] = new] /\ provider' = provider
        /\ touched' = touched \cup g.symbols
    BY DEF Garbled
  <1>2. Process(r, bars, provider) /\ Onward(start, r, bars, provider, touched)
    BY DEF Resuming, Inv
  <1>3. g \in r.todo
    BY <1>1, <1>2, CurrentIsTodo DEF Process
  <1>4. \A s \in Symbols : bars[s] \subseteq bars'[s]
    BY <1>1 DEF Stored
  <1>5. ~r.incremental
    BY <1>1, <1>2, <1>3 DEF Onward
  <1>6. new.todo = r.todo /\ new.incremental = r.incremental
    BY <1>2 DEF Process, Idle
  <1> HIDE DEF new, g
  <1>7. Onward(start, r, bars', provider, touched')
    <2>1. \A h \in r.todo : h.symbols \subseteq Symbols
      BY <1>2 DEF Process, Sane
    <2> QED
      BY <1>1, <1>2, <1>4, <2>1, OnwardStays
  <1>8. Onward(start, new, bars', provider, touched')
    BY <1>5, <1>6, <1>7 DEF Onward
  <1>9. \A s \in Symbols \ touched' : Prefix(start, provider[s], bars'[s])
    BY <1>1 DEF Stored, Resuming
  <1> QED
    BY <1>1, <1>4, <1>8, <1>9, ResumingMoves

LEMMA FailResumes ==
    ASSUME NEW start \in Nat, Resuming(start), Inv', NEW p \in Procs, Fail(p)
    PROVE  Resuming(start)'
  <1> DEFINE r == run[p]
             g == Current(r.todo)
             given == [r EXCEPT !.todo = GivenUp(r.todo, g), !.errors = TRUE]
             failed == [r EXCEPT !.got = Answer(g, TRUE, bars)]
             new == IF g.what = "sync" THEN given ELSE failed
  <1>1. /\ r.todo # {} /\ r.got = None /\ run' = [run EXCEPT ![p] = new]
        /\ UNCHANGED <<provider, bars>> /\ touched' = touched
    BY DEF Fail
  <1>2. Process(r, bars, provider) /\ Onward(start, r, bars, provider, touched)
    BY DEF Resuming, Inv
  <1>3. g \in r.todo
    BY <1>1, <1>2, CurrentIsTodo DEF Process
  <1>4. /\ given.todo \subseteq r.todo /\ given.incremental = r.incremental
        /\ given.errors /\ given.start = r.start /\ given.got = r.got
        /\ failed.todo = r.todo /\ failed.incremental = r.incremental
    BY <1>2 DEF Process, Idle, GivenUp
  <1>5. g.what # "sync" => ~r.incremental
    BY <1>2, <1>3 DEF Onward
  <1> HIDE DEF given, failed, g
  <1>6. /\ new.todo \subseteq r.todo
        /\ new.incremental => r.incremental /\ new.errors
        /\ new.incremental => new.start = r.start /\ new.got = r.got
    BY <1>4, <1>5
  <1> HIDE DEF new
  <1>7. new.incremental => /\ new.start = start /\ new.got = None
                           /\ \A h \in new.todo : h.what = "sync"
    BY <1>2, <1>6 DEF Onward
  <1>8. touched \subseteq touched'
    BY <1>1
  <1> QED
    BY <1>1, <1>6, <1>7, <1>8, ResumingRests

LEMMA RecordResumes ==
    ASSUME NEW start \in Nat, Resuming(start), Inv', NEW p \in Procs,
           NEW s \in Symbols, Record(p, s)
    PROVE  Resuming(start)'
  <1> DEFINE r == run[p]
             g == Current(r.todo)
             over == [r EXCEPT !.got = None, !.todo = @ \ {g}]
             left == [r EXCEPT !.got.symbols = @ \ {s}]
             new == IF r.got.symbols = {s} THEN over ELSE left
  <1>1. /\ r.got # None /\ run' = [run EXCEPT ![p] = new]
        /\ UNCHANGED <<provider, bars>> /\ touched' = touched
    BY DEF Record
  <1>2. Process(r, bars, provider) /\ Onward(start, r, bars, provider, touched)
    BY DEF Resuming, Inv
  <1>3. ~r.incremental
    BY <1>1, <1>2 DEF Onward
  <1>4. /\ over.todo \subseteq r.todo /\ ~over.incremental
        /\ left.todo = r.todo /\ ~left.incremental
    BY <1>2, <1>3 DEF Process, Idle
  <1> HIDE DEF over, left
  <1>5. new.todo \subseteq r.todo /\ ~new.incremental
    BY <1>4
  <1> HIDE DEF new
  <1>6. touched \subseteq touched'
    BY <1>1
  <1> QED
    BY <1>1, <1>5, <1>6, ResumingRests

LEMMA IdleResumes ==
    ASSUME NEW start \in Nat, Resuming(start), Inv', NEW p \in Procs,
           run' = [run EXCEPT ![p] = Idle], UNCHANGED <<provider, bars, touched>>
    PROVE  Resuming(start)'
  <1>1. Idle.todo = {} /\ ~Idle.incremental
    BY DEF Idle
  <1>2. touched \subseteq touched' /\ UNCHANGED <<provider, bars>>
    OBVIOUS
  <1> QED
    BY <1>1, <1>2, ResumingRests

LEMMA InitResumes ==
    ASSUME Init, NEW start
    PROVE  Resuming(start)
  <1>1. \A p \in Procs : run[p] = Idle
    BY DEF Init
  <1>2. Onward(start, Idle, bars, provider, touched)
    BY DEF Onward, Idle
  <1>3. \A s \in Symbols : provider[s] \subseteq Slots
    BY IntradayAssumption DEF Init, IntradayAssumption, Slots
  <1>4. \A s \in Symbols : Prefix(start, provider[s], bars[s])
    BY DEF Init, Prefix
  <1> QED
    BY <1>1, <1>2, <1>3, <1>4, InitHolds DEF Resuming

LEMMA StepResumes ==
    ASSUME NEW start, Starts = {start}, Resuming(start), [Next]_vars
    PROVE  Resuming(start)'
  <1>1. Inv'
    BY StepKeeps DEF Resuming
  <1>2. start \in Nat
    BY IntradayAssumption DEF IntradayAssumption
  <1>3. CASE Next
    <2> SUFFICES ASSUME NEW p \in Procs,
                        \/ \E at \in Starts, end \in Ends, incremental \in BOOLEAN :
                               BeginSync(p, Symbols, at, end, incremental)
                        \/ Remedy(p) \/ Work(p) \/ Garbled(p) \/ Fail(p) \/ Die(p)
                 PROVE  Resuming(start)'
      BY <1>3 DEF Next
    <2>1. ASSUME NEW at \in Starts, NEW end \in Ends, NEW incremental \in BOOLEAN,
                 BeginSync(p, Symbols, at, end, incremental)
          PROVE  Resuming(start)'
      <3>1. at = start
        OBVIOUS
      <3> QED
        BY <1>1, <2>1, <3>1, BeginSyncResumes
    <2>2. CASE Remedy(p)
      BY <1>1, <1>2, <2>2, BeginRemedyResumes DEF Remedy
    <2>3. CASE Work(p)
      <3>1. CASE Fetch(p)
        BY <1>1, <1>2, <3>1, FetchResumes
      <3>2. CASE \E s \in Symbols : Record(p, s)
        BY <1>1, <1>2, <3>2, RecordResumes
      <3>3. CASE Finish(p)
        BY <1>1, <1>2, <3>3, IdleResumes DEF Finish
      <3> QED
        BY <2>3, <3>1, <3>2, <3>3 DEF Work
    <2>4. CASE Garbled(p)
      BY <1>1, <1>2, <2>4, GarbledResumes
    <2>5. CASE Fail(p)
      BY <1>1, <1>2, <2>5, FailResumes
    <2>6. CASE Die(p)
      BY <1>1, <1>2, <2>6, IdleResumes DEF Die
    <2> QED
      BY <2>1, <2>2, <2>3, <2>4, <2>5, <2>6
  <1>4. CASE UNCHANGED vars
    BY <1>1, <1>4 DEF vars, Resuming
  <1> QED
    BY <1>3, <1>4

LEMMA ResumedIsCovered ==
    ASSUME NEW start, Resuming(start)
    PROVE  ResumesWithoutHole
  BY DEF Resuming, Onward, ResumesWithoutHole, Succeeded, Covered, Between

\* SyncsResume: synchronizations that start at the same bar, to whatever ends, one
\* after the other or at once, full or incremental, leave no hole behind a failed
\* window that a later incremental run without an error would not fill, unless a
\* remediation has stored bars of the symbol (sync.py, _sync_intraday and
\* _bar_edge_ranges).
THEOREM SyncsResume ==
    ASSUME NEW start, Starts = {start}
    PROVE  Spec => []ResumesWithoutHole
  <1>1. Init => Resuming(start)
    BY InitResumes
  <1>2. Resuming(start) /\ [Next]_vars => Resuming(start)'
    BY StepResumes
  <1>3. Resuming(start) => ResumesWithoutHole
    BY ResumedIsCovered
  <1> QED
    BY <1>1, <1>2, <1>3, PTL DEF Spec

-----------------------------------------------------------------------------
\* An answer in hand is one that a remediation of some kind has to record.
Typed(r) ==
    /\ \A g \in r.todo : /\ g \in Groups /\ g.from < g.to
                         /\ g.what # "sync" => r.kind \in Kinds
    /\ r.got # None =>
           /\ r.kind \in Kinds /\ r.got.symbols \subseteq Symbols
           /\ \A s \in r.got.symbols : r.got.missing[s] \subseteq Slots

TypeInv ==
    /\ Inv /\ TypeOK /\ DOMAIN warmed = Symbols
    /\ \A p \in Procs : Typed(run[p])

\* No interval that is asked for is empty.
LEMMA RangesHaveLength ==
    ASSUME NEW stored \in SUBSET Slots, NEW start \in Nat, NEW end \in Nat, start < end,
           NEW range \in EdgeRanges(stored, start, end)
    PROVE  range[1] < range[2]
  <1>1. PICK limit \in Nat : Slots \subseteq 1 .. limit
    BY SlotsAreNumbers
  <1>2. end \in Int /\ start \in Int
    OBVIOUS
  <1>3. CASE stored = {}
    BY <1>3 DEF EdgeRanges
  <1>4. CASE stored # {}
    <2>1. PICK lead : lead = Min({end, Min(stored) + Overlap})
      OBVIOUS
    <2>2. PICK following : following = Max(stored) + 1
      OBVIOUS
    <2>3. PICK tail : tail = Max({start, following - Overlap})
      OBVIOUS
    <2>4. PICK far : far = Max({lead, end})
      OBVIOUS
    <2>5. Overlap \in Nat
      BY IntradayAssumption DEF IntradayAssumption
    <2>6. Max(stored) \in Nat /\ Min(stored) \in Nat
      <3>1. stored \in SUBSET (0 .. limit) /\ stored \in SUBSET Nat
        <4>1. \A n \in Slots : n \in 0 .. limit /\ n \in Nat
          BY <1>1
        <4> QED
          BY <4>1
      <3>2. Max(stored) \in stored /\ Min(stored) \in stored
        BY <1>4, <3>1, GreatestIsMax, LeastIsMin
      <3> QED
        BY <3>1, <3>2
    <2>7. tail = IF start <= following - Overlap THEN following - Overlap ELSE start
      <3>1. following - Overlap \in Int
        BY <2>2, <2>5, <2>6
      <3> QED
        BY ONLY <1>2, <2>3, <3>1, ExtremesOfTwo
    <2>8. PICK low \in Int : low = Min(stored) + Overlap /\ low >= Min(stored)
      BY <2>5, <2>6
    <2>9. lead = IF end <= low THEN end ELSE low
      BY ONLY <1>2, <2>1, <2>8, ExtremesOfTwo
    <2>10. far = IF lead <= end THEN end ELSE lead
      <3>1. lead \in Int
        BY <2>8, <2>9
      <3> QED
        BY ONLY <1>2, <2>4, <3>1, ExtremesOfTwo
    <2> DEFINE leading == Min(stored) > start
               trailing == following < end \/ (Overlap > 0 /\ tail < end)
    <2>11. EdgeRanges(stored, start, end) =
               IF leading /\ trailing /\ tail <= lead THEN {<<start, far>>}
               ELSE (IF leading THEN {<<start, lead>>} ELSE {})
                        \cup (IF trailing THEN {<<tail, end>>} ELSE {})
      BY ONLY <1>4, <2>1, <2>2, <2>3, <2>4 DEF EdgeRanges
    <2>12. start < far
      BY <2>8, <2>9, <2>10
    <2>13. leading => start < lead
      BY <2>6, <2>8, <2>9
    <2>14. trailing => tail < end
      BY <2>2, <2>5, <2>6, <2>7
    <2> HIDE DEF leading, trailing
    <2>15. \/ range = <<start, far>>
           \/ leading /\ range = <<start, lead>>
           \/ trailing /\ range = <<tail, end>>
      BY <2>11
    <2> QED
      BY <2>12, <2>13, <2>14, <2>15
  <1> QED
    BY <1>3, <1>4

LEMMA TimesKeepsOrder ==
    ASSUME NEW a \in Int, NEW b \in Int, a <= b, NEW n \in Nat
    PROVE  a * n <= b * n
  <1>1. b - a \in Nat /\ (b - a) * n \in Nat
    OBVIOUS
  <1>2. b * n = a * n + (b - a) * n
    OBVIOUS
  <1>3. a * n \in Int /\ b * n \in Int
    OBVIOUS
  <1> QED
    BY <1>1, <1>2, <1>3

\* The bars of a warmup lie before the first session.
LEMMA WarmupHasLength ==
    ASSUME NEW s \in Symbols, \E n \in 1 .. Sessions : <<s, n>> \in Required,
           NEW need \in Nat, need > 0, First(s) > 1
    PROVE  WarmupStart(s, need) < Opening(First(s))
  <1> DEFINE required == {session \in 1 .. Sessions : <<s, session>> \in Required}
  <1>1. Sessions \in Nat /\ PerSession \in Nat \ {0}
    BY IntradayAssumption DEF IntradayAssumption
  <1>2. First(s) \in 1 .. Sessions
    <2>1. required \in SUBSET Nat /\ required # {}
      BY <1>1
    <2>2. Min(required) \in required
      BY <2>1, LeastIsMin
    <2> QED
      BY <2>2 DEF First
  <1>3. PICK first \in Nat : first = First(s) /\ first >= 2
    BY <1>1, <1>2
  <1>4. PICK back \in Int : back = (need + PerSession - 1) \div PerSession
    BY <1>1
  <1>5. back >= 1
    <2>1. need + PerSession - 1 < back * PerSession + PerSession
      BY <1>1, <1>4
    <2>2. back <= 0 => (back + 1) * PerSession <= 1 * PerSession
      BY <1>1, TimesKeepsOrder
    <2>3. need + PerSession - 1 >= PerSession
      BY <1>1
    <2>4. /\ (back + 1) * PerSession = back * PerSession + PerSession
          /\ back * PerSession \in Int /\ 1 * PerSession = PerSession
      BY <1>1
    <2> QED
      BY <1>1, <2>1, <2>2, <2>3, <2>4
  <1>6. PICK early \in Int : early = Opening(first - back)
    BY <1>1, <1>3 DEF Opening
  <1>7. PICK opening \in Int : opening = Opening(first) /\ opening > 1
    <2>1. 1 * PerSession <= (first - 1) * PerSession
      BY <1>1, <1>3, TimesKeepsOrder
    <2> QED
      BY <1>1, <1>3, <2>1 DEF Opening
  <1>8. early < opening
    <2>1. (first - back - 1) * PerSession <= (first - 2) * PerSession
      BY <1>1, <1>3, <1>5, TimesKeepsOrder
    <2>2. (first - 1) * PerSession = (first - 2) * PerSession + PerSession
      BY <1>1, <1>3
    <2>3. (first - 2) * PerSession \in Int /\ (first - back - 1) * PerSession \in Int
      BY <1>1, <1>3
    <2>4. early = (first - back - 1) * PerSession + 1
          /\ opening = (first - 1) * PerSession + 1
      BY <1>6, <1>7 DEF Opening
    <2> QED
      BY <1>1, <2>1, <2>2, <2>3, <2>4
  <1>9. WarmupStart(s, need) = Max({1, early})
    BY <1>3, <1>4, <1>6 DEF WarmupStart
  <1>10. Max({1, early}) = IF 1 <= early THEN early ELSE 1
    <2>1. 1 \in Int
      OBVIOUS
    <2> QED
      BY ONLY <1>6, <2>1, ExtremesOfTwo
  <1> QED
    BY <1>3, <1>7, <1>8, <1>9, <1>10

\* A step of one process that records nothing.
LEMMA TypesMove ==
    ASSUME TypeInv, Inv', NEW p \in Procs, NEW r, run' = [run EXCEPT ![p] = r],
           Typed(r), bars' \in [Symbols -> SUBSET Slots],
           touched' \subseteq Symbols, mishaps' \in 0 .. MaxMishaps,
           UNCHANGED <<observed, warmed>>
    PROVE  TypeInv'
  <1>1. \A q \in Procs : run'[q] = IF q = p THEN r ELSE run[q]
    BY DEF TypeInv, Inv
  <1>2. \A q \in Procs : Typed(run'[q])
    BY <1>1 DEF TypeInv
  <1>3. \A q \in Procs : run'[q].got # None => run'[q].todo # {}
    BY DEF Inv, Process, Honest
  <1>4. \A q \in Procs :
            /\ \A g \in run'[q].todo : g \in Groups /\ g.from < g.to
            /\ run'[q].got # None =>
                   run'[q].todo # {} /\ run'[q].got.symbols \subseteq Symbols
    BY <1>2, <1>3 DEF Typed
  <1>5. TypeOK'
    BY <1>4 DEF TypeInv, TypeOK
  <1> QED
    BY <1>2, <1>5 DEF TypeInv

LEMMA MishapsBounded ==
    ASSUME TypeInv, Mishap
    PROVE  mishaps' \in 0 .. MaxMishaps
  <1>1. MaxMishaps \in Nat
    BY IntradayAssumption DEF IntradayAssumption
  <1> QED
    BY <1>1 DEF TypeInv, TypeOK, Mishap

LEMMA IdleTypes ==
    ASSUME TypeInv, Inv', NEW p \in Procs, run' = [run EXCEPT ![p] = Idle],
           UNCHANGED <<bars, observed, warmed, touched>>, mishaps' \in 0 .. MaxMishaps
    PROVE  TypeInv'
  <1>1. Typed(Idle)
    BY DEF Typed, Idle
  <1>2. bars' \in [Symbols -> SUBSET Slots] /\ touched' \subseteq Symbols
    BY DEF TypeInv, TypeOK
  <1> QED
    BY <1>1, <1>2, TypesMove

LEMMA BeginSyncTypes ==
    ASSUME TypeInv, Inv', NEW p \in Procs, NEW start \in Starts, NEW end \in Ends,
           NEW incremental \in BOOLEAN, BeginSync(p, Symbols, start, end, incremental)
    PROVE  TypeInv'
  <1> DEFINE ranges(s) == Ranges(s, start, end, incremental)
             group(r) == Group("sync", {s \in Symbols : r \in ranges(s)}, r[1], r[2])
             groups == {group(r) : r \in UNION {ranges(s) : s \in Symbols}}
             new == [Idle EXCEPT !.busy = TRUE, !.todo = groups, !.start = start,
                                 !.end = end, !.incremental = incremental]
  <1>1. /\ run' = [run EXCEPT ![p] = new] /\ start < end
        /\ UNCHANGED <<provider, bars, observed, warmed, touched, mishaps>>
    BY DEF BeginSync
  <1>2. new.todo = groups /\ new.got = None
    BY DEF Idle
  <1>3. start \in Nat /\ end \in Nat
    BY IntradayAssumption DEF IntradayAssumption
  <1>4. ASSUME NEW s \in Symbols, NEW r \in ranges(s)
        PROVE  r[1] \in Nat /\ r[2] \in Nat /\ r[1] < r[2]
    <2>1. bars[s] \cap Between(start, end) \in SUBSET Slots
      BY DEF TypeInv, Inv
    <2>2. CASE incremental
      <3>1. r \in EdgeRanges(bars[s] \cap Between(start, end), start, end)
        BY <1>4, <2>2 DEF Ranges
      <3> QED
        BY <1>1, <1>3, <2>1, <3>1, RangesAreNumbers, RangesHaveLength
    <2>3. CASE ~incremental
      BY <1>1, <1>3, <1>4, <2>3 DEF Ranges
    <2> QED
      BY <2>2, <2>3
  <1> HIDE DEF ranges
  <1>5. ASSUME NEW g \in groups
        PROVE  g \in Groups /\ g.from < g.to /\ g.what = "sync"
    <2>1. PICK s \in Symbols : \E r \in ranges(s) : g = group(r)
      BY <1>5
    <2>2. PICK r \in ranges(s) : g = group(r)
      BY <2>1
    <2>3. r[1] \in Nat /\ r[2] \in Nat /\ r[1] < r[2]
      BY <1>4
    <2> QED
      BY <2>2, <2>3 DEF Group, Groups
  <1> HIDE DEF groups, new
  <1>6. Typed(new)
    BY <1>2, <1>5 DEF Typed
  <1>7. /\ bars' \in [Symbols -> SUBSET Slots] /\ touched' \subseteq Symbols
        /\ mishaps' \in 0 .. MaxMishaps
    BY <1>1 DEF TypeInv, TypeOK
  <1> QED
    BY <1>1, <1>6, <1>7, TypesMove

LEMMA BeginRemedyTypes ==
    ASSUME TypeInv, Inv', NEW p \in Procs, NEW kind \in Kinds, NEW need \in Warmups,
           BeginRemedy(p, kind, need)
    PROVE  TypeInv'
  <1> DEFINE targets(session) ==
                 {s \in Symbols : /\ <<s, session>> \in Required
                                  /\ Classified(kind, s, session) \in Blocking}
             gaps(session) == UNION {Missing(s, session) : s \in targets(session)}
             sessions == {Group("session", targets(session), Min(gaps(session)),
                                Max(gaps(session)) + 1) :
                              session \in {n \in 1 .. Sessions : targets(n) # {}}}
             warm == {s \in Symbols : /\ \E n \in 1 .. Sessions : <<s, n>> \in Required
                                      /\ need > 0 /\ First(s) > 1
                                      /\ ClassifiedWarmup(kind, s, need) \in Blocking}
             warmups == {Group("warmup", {s}, WarmupStart(s, need),
                               Opening(First(s))) : s \in warm}
             new == [Idle EXCEPT !.busy = TRUE, !.kind = kind, !.start = need,
                                 !.todo = sessions \cup warmups]
  <1>1. /\ run' = [run EXCEPT ![p] = new]
        /\ UNCHANGED <<provider, bars, observed, warmed, touched, mishaps>>
    BY DEF BeginRemedy
  <1>2. new.got = None /\ new.todo = sessions \cup warmups /\ new.kind = kind
    BY DEF Idle
  <1>3. PICK limit \in Nat : Slots \subseteq 1 .. limit
    BY SlotsAreNumbers
  <1>4. ASSUME NEW g \in sessions PROVE g \in Groups /\ g.from < g.to
    <2>1. PICK session \in {n \in 1 .. Sessions : targets(n) # {}} :
              g = Group("session", targets(session), Min(gaps(session)),
                        Max(gaps(session)) + 1)
      BY <1>4
    <2>2. gaps(session) # {}
      <3>1. PICK s \in targets(session) : Classified(kind, s, session) # "present"
        BY <2>1 DEF Blocking
      <3>2. Missing(s, session) # {}
        BY <3>1 DEF Classified
      <3> QED
        BY <3>1, <3>2
    <2>3. \A n \in gaps(session) : n \in Nat /\ n \in 0 .. limit
      <3>1. \A n \in 1 .. limit : n \in Nat /\ n \in 0 .. limit
        OBVIOUS
      <3>2. gaps(session) \subseteq Slots
        BY DEF Missing, SessionSlots, Between
      <3> QED
        BY <1>3, <3>1, <3>2
    <2>4. targets(session) \subseteq Symbols
      OBVIOUS
    <2> HIDE DEF targets, gaps
    <2>5. gaps(session) \in SUBSET (0 .. limit) /\ gaps(session) \in SUBSET Nat
      BY <2>3
    <2>6. /\ Min(gaps(session)) \in gaps(session) /\ Max(gaps(session)) \in gaps(session)
          /\ \A n \in gaps(session) : n <= Max(gaps(session))
      BY <2>2, <2>5, LeastIsMin, GreatestIsMax
    <2>7. PICK first \in Nat, last \in Nat :
              /\ first = Min(gaps(session)) /\ last = Max(gaps(session))
              /\ first <= last
      BY <2>3, <2>6
    <2>8. g = [what |-> "session", symbols |-> targets(session),
               from |-> first, to |-> last + 1]
      BY <2>1, <2>7 DEF Group
    <2> QED
      BY <2>4, <2>7, <2>8 DEF Groups
  <1>5. ASSUME NEW g \in warmups PROVE g \in Groups /\ g.from < g.to
    <2>1. PICK s \in warm : g = Group("warmup", {s}, WarmupStart(s, need),
                                      Opening(First(s)))
      BY <1>5
    <2>2. need \in Nat
      BY IntradayAssumption DEF IntradayAssumption
    <2>3. /\ s \in Symbols /\ \E n \in 1 .. Sessions : <<s, n>> \in Required
          /\ need > 0 /\ First(s) > 1
      BY <2>1
    <2>4. Sane(g, bars)
      BY <2>1, <2>2, <2>3, WarmupGroupIsSane
    <2>5. WarmupStart(s, need) < Opening(First(s))
      BY <2>2, <2>3, WarmupHasLength
    <2>6. g = [what |-> "warmup", symbols |-> {s}, from |-> WarmupStart(s, need),
               to |-> Opening(First(s))]
      BY <2>1 DEF Group
    <2>7. WarmupStart(s, need) \in Nat /\ Opening(First(s)) \in Nat
      BY <2>4, <2>6 DEF Sane
    <2> QED
      BY <2>3, <2>5, <2>6, <2>7 DEF Groups
  <1> HIDE DEF new, sessions, warmups
  <1>6. Typed(new)
    BY <1>2, <1>4, <1>5 DEF Typed
  <1>7. /\ bars' \in [Symbols -> SUBSET Slots] /\ touched' \subseteq Symbols
        /\ mishaps' \in 0 .. MaxMishaps
    BY <1>1 DEF TypeInv, TypeOK
  <1> QED
    BY <1>1, <1>6, <1>7, TypesMove

\* An answer to a remediation's group: whatever it lacks is a slot of a session.
LEMMA AnswerTypes ==
    ASSUME NEW r, NEW g \in r.todo, Typed(r), g.what # "sync", DOMAIN r = DOMAIN Idle,
           NEW failed, NEW held
    PROVE  Typed([r EXCEPT !.got = Answer(g, failed, held)])
  <1> DEFINE got == Answer(g, failed, held)
             new == [r EXCEPT !.got = got]
  <1>1. new.todo = r.todo /\ new.kind = r.kind /\ new.got = got
    BY DEF Idle
  <1>2. got.symbols = g.symbols /\ \A s \in got.symbols : got.missing[s] \subseteq Slots
    BY DEF Answer, SessionSlots, Between
  <1>3. g.symbols \subseteq Symbols /\ r.kind \in Kinds
    BY DEF Typed, Groups
  <1> HIDE DEF new, got
  <1>4. Typed(new)
    BY <1>1, <1>2, <1>3 DEF Typed
  <1> QED
    BY <1>4 DEF new, got

LEMMA StoredTypes ==
    ASSUME TypeInv, NEW g
    PROVE  Stored(g) \in [Symbols -> SUBSET Slots]
  BY DEF TypeInv, TypeOK, Stored, Between

LEMMA FetchTypes ==
    ASSUME TypeInv, Inv', NEW p \in Procs, Fetch(p)
    PROVE  TypeInv'
  <1> DEFINE r == run[p]
             g == Current(r.todo)
             rest == [r EXCEPT !.todo = Rest(r.todo, g)]
             held == [r EXCEPT !.got = Answer(g, FALSE, Stored(g))]
             new == IF g.what = "sync" \/ WindowEnd(g) # g.to THEN rest ELSE held
  <1>1. /\ r.todo # {} /\ r.got = None /\ bars' = Stored(g)
        /\ run' = [run EXCEPT ![p] = new]
        /\ touched' = IF g.what = "sync" THEN touched ELSE touched \cup g.symbols
        /\ UNCHANGED <<observed, warmed, mishaps>>
    BY DEF Fetch
  <1>2. Process(r, bars, provider) /\ Typed(r)
    BY DEF TypeInv, Inv
  <1>3. g \in r.todo /\ Sane(g, bars)
    BY <1>1, <1>2, CurrentIsTodo DEF Process
  <1>4. DOMAIN r = DOMAIN Idle
    BY <1>2 DEF Process
  <1>5. /\ rest.todo = Rest(r.todo, g) /\ rest.got = None /\ rest.kind = r.kind
    BY <1>1, <1>4 DEF Idle
  <1> HIDE DEF g
  <1>6. ASSUME NEW h \in Rest(r.todo, g)
        PROVE  h \in Groups /\ h.from < h.to /\ (h.what # "sync" => r.kind \in Kinds)
    <2>1. CASE h \in r.todo
      BY <1>2, <2>1 DEF Typed
    <2>2. CASE h \notin r.todo
      <3>1. WindowEnd(g) # g.to /\ h = [g EXCEPT !.from = WindowEnd(g)]
        BY <2>2 DEF Rest
      <3>2. g \in Groups /\ (g.what # "sync" => r.kind \in Kinds)
        BY <1>2, <1>3 DEF Typed
      <3>3. WindowEnd(g) \in Nat
        BY <1>3, WindowOfGroup
      <3>4. WindowEnd(g) < g.to
        <4>1. g.from + Window \in Int /\ g.to \in Int
          BY <1>3, IntradayAssumption DEF Sane, IntradayAssumption
        <4>2. WindowEnd(g) = IF g.from + Window <= g.to THEN g.from + Window ELSE g.to
          BY ONLY <4>1, ExtremesOfTwo DEF WindowEnd
        <4> QED
          BY <3>1, <4>1, <4>2
      <3> QED
        BY <3>1, <3>2, <3>3, <3>4 DEF Groups
    <2> QED
      BY <2>1, <2>2
  <1>7. g.what # "sync" => Typed(held)
    BY <1>2, <1>3, <1>4, AnswerTypes
  <1> HIDE DEF rest, held
  <1>8. Typed(rest)
    BY <1>5, <1>6 DEF Typed
  <1>9. Typed(new)
    BY <1>7, <1>8
  <1>10. bars' \in [Symbols -> SUBSET Slots]
    BY <1>1, StoredTypes
  <1>11. touched' \subseteq Symbols /\ mishaps' \in 0 .. MaxMishaps
    BY <1>1, <1>3 DEF TypeInv, TypeOK, Sane
  <1> HIDE DEF new
  <1> QED
    BY <1>1, <1>9, <1>10, <1>11, TypesMove

LEMMA GarbledTypes ==
    ASSUME TypeInv, Inv', NEW p \in Procs, Garbled(p)
    PROVE  TypeInv'
  <1> DEFINE r == run[p]
             g == Current(r.todo)
             new == [r EXCEPT !.got = Answer(g, TRUE, Stored(g))]
  <1>1. /\ r.todo # {} /\ g.what # "sync" /\ bars' = Stored(g) /\ Mishap
        /\ run' = [run EXCEPT ![p] = new] /\ touched' = touched \cup g.symbols
        /\ UNCHANGED <<observed, warmed>>
    BY DEF Garbled
  <1>2. Process(r, bars, provider) /\ Typed(r)
    BY DEF TypeInv, Inv
  <1>3. g \in r.todo /\ Sane(g, bars)
    BY <1>1, <1>2, CurrentIsTodo DEF Process
  <1>4. DOMAIN r = DOMAIN Idle
    BY <1>2 DEF Process
  <1> HIDE DEF g
  <1>5. Typed(new)
    BY <1>1, <1>2, <1>3, <1>4, AnswerTypes
  <1>6. bars' \in [Symbols -> SUBSET Slots]
    BY <1>1, StoredTypes
  <1>7. touched' \subseteq Symbols /\ mishaps' \in 0 .. MaxMishaps
    BY <1>1, <1>3, MishapsBounded DEF TypeInv, TypeOK, Sane
  <1> HIDE DEF new
  <1> QED
    BY <1>1, <1>5, <1>6, <1>7, TypesMove

LEMMA FailTypes ==
    ASSUME TypeInv, Inv', NEW p \in Procs, Fail(p)
    PROVE  TypeInv'
  <1> DEFINE r == run[p]
             g == Current(r.todo)
             given == [r EXCEPT !.todo = GivenUp(r.todo, g), !.errors = TRUE]
             failed == [r EXCEPT !.got = Answer(g, TRUE, bars)]
             new == IF g.what = "sync" THEN given ELSE failed
  <1>1. /\ r.todo # {} /\ r.got = None /\ Mishap /\ run' = [run EXCEPT ![p] = new]
        /\ UNCHANGED <<bars, observed, warmed, touched>>
    BY DEF Fail
  <1>2. Process(r, bars, provider) /\ Typed(r)
    BY DEF TypeInv, Inv
  <1>3. g \in r.todo
    BY <1>1, <1>2, CurrentIsTodo DEF Process
  <1>4. DOMAIN r = DOMAIN Idle
    BY <1>2 DEF Process
  <1>5. given.todo \subseteq r.todo /\ given.got = None /\ given.kind = r.kind
    BY <1>1, <1>4 DEF Idle, GivenUp
  <1> HIDE DEF g
  <1>6. g.what # "sync" => Typed(failed)
    BY <1>2, <1>3, <1>4, AnswerTypes
  <1> HIDE DEF given, failed
  <1>7. Typed(given)
    BY <1>2, <1>5 DEF Typed
  <1>8. Typed(new)
    BY <1>6, <1>7
  <1>9. /\ bars' \in [Symbols -> SUBSET Slots] /\ touched' \subseteq Symbols
        /\ mishaps' \in 0 .. MaxMishaps
    BY <1>1, MishapsBounded DEF TypeInv, TypeOK
  <1> HIDE DEF new
  <1> QED
    BY <1>1, <1>8, <1>9, TypesMove

LEMMA RecordTypes ==
    ASSUME TypeInv, Inv', NEW p \in Procs, NEW s \in Symbols, Record(p, s)
    PROVE  TypeInv'
  <1> DEFINE r == run[p]
             g == Current(r.todo)
             over == [r EXCEPT !.got = None, !.todo = @ \ {g}]
             got == [r.got EXCEPT !.symbols = @ \ {s}]
             left == [r EXCEPT !.got = got]
             new == IF r.got.symbols = {s} THEN over ELSE left
             session == (g.from - 1) \div PerSession + 1
             missing == r.got.missing[s]
             noted == Noted(r.kind, r.got.failed, missing, missing = {})
             warm == Noted(r.kind, r.got.failed, {},
                           Cardinality(bars[s] \cap Before(s)) >= r.start)
  <1>1. /\ r.got # None /\ s \in r.got.symbols
        /\ UNCHANGED <<provider, bars, touched, mishaps>>
        /\ IF g.what = "session"
           THEN observed' = [observed EXCEPT ![s][session] = noted] /\ warmed' = warmed
           ELSE warmed' = [warmed EXCEPT ![s] = warm] /\ observed' = observed
    BY DEF Record
  <1>2. run' = [run EXCEPT ![p] = new]
    <2>1. [r EXCEPT !.got.symbols = @ \ {s}] = left
      OBVIOUS
    <2> QED
      BY <2>1 DEF Record
  <1>3. Process(r, bars, provider) /\ Typed(r)
    BY DEF TypeInv, Inv
  <1>4. DOMAIN r = DOMAIN Idle /\ DOMAIN r.got = {"symbols", "failed", "missing"}
    BY <1>1, <1>3 DEF Process, Honest
  <1>5. /\ over.todo \subseteq r.todo /\ over.got = None /\ over.kind = r.kind
        /\ left.todo = r.todo /\ left.got = got /\ left.kind = r.kind
    BY <1>4 DEF Idle
  <1>6. got.symbols \subseteq r.got.symbols /\ got.missing = r.got.missing
    BY <1>4
  <1>7. noted \in Observation \cup {None} /\ warm \in Observation \cup {None}
    <2>1. r.kind \in Kinds /\ missing \subseteq Slots
      BY <1>1, <1>3 DEF Typed
    <2> QED
      BY <2>1 DEF Noted, Observation
  <1> HIDE DEF over, left, got, session, noted, warm, g
  <1>8. Typed(over) /\ Typed(left)
    BY <1>1, <1>3, <1>5, <1>6 DEF Typed
  <1>9. Typed(new)
    BY <1>8
  <1> HIDE DEF new
  <1>10. \A q \in Procs : run'[q] = IF q = p THEN new ELSE run[q]
    BY <1>2 DEF TypeInv, Inv
  <1>11. \A q \in Procs : Typed(run'[q])
    BY <1>9, <1>10 DEF TypeInv
  <1>12. \A q \in Procs :
             /\ \A h \in run'[q].todo : h \in Groups /\ h.from < h.to
             /\ run'[q].got # None =>
                    run'[q].todo # {} /\ run'[q].got.symbols \subseteq Symbols
    BY <1>11 DEF Typed, Inv, Process, Honest
  <1>13. DOMAIN warmed' = Symbols /\ \A t \in Symbols : warmed'[t] \in Observation \cup {None}
    BY <1>1, <1>7 DEF TypeInv, TypeOK
  <1>14. \A t \in Symbols : \A n \in 1 .. Sessions :
             observed'[t][n] \in Observation \cup {None}
    <2>1. CASE g.what = "session"
      <3>1. observed' = [observed EXCEPT ![s] = [observed[s] EXCEPT ![session] = noted]]
        BY <1>1, <2>1
      <3>2. DOMAIN observed = Symbols /\ DOMAIN observed[s] = 1 .. Sessions
        BY DEF TypeInv, Inv
      <3>3. \A t \in Symbols : observed'[t] =
                IF t = s THEN [observed[s] EXCEPT ![session] = noted] ELSE observed[t]
        BY <3>1, <3>2
      <3>4. \A n \in 1 .. Sessions : [observed[s] EXCEPT ![session] = noted][n] =
                IF n = session THEN noted ELSE observed[s][n]
        BY <3>2
      <3>5. ASSUME NEW t \in Symbols, NEW n \in 1 .. Sessions
            PROVE  observed'[t][n] \in Observation \cup {None}
        <4>1. observed[t][n] \in Observation \cup {None}
          BY DEF TypeInv, TypeOK
        <4>2. observed'[t][n] = observed[t][n] \/ observed'[t][n] = noted
          BY <3>3, <3>4
        <4> QED
          BY ONLY <1>7, <4>1, <4>2, Zenon
      <3> QED
        BY <3>5
    <2>2. CASE g.what # "session"
      BY <1>1, <2>2 DEF TypeInv, TypeOK
    <2> QED
      BY <2>1, <2>2
  <1>15. TypeOK'
    BY <1>1, <1>12, <1>13, <1>14 DEF TypeInv, TypeOK
  <1> QED
    BY <1>11, <1>13, <1>15 DEF TypeInv

LEMMA InitTypes ==
    ASSUME Init
    PROVE  TypeInv
  <1>1. Typed(Idle)
    BY DEF Typed, Idle
  <1>2. \A p \in Procs : run[p] = Idle
    BY DEF Init
  <1>3. MaxMishaps \in Nat
    BY IntradayAssumption DEF IntradayAssumption
  <1>4. TypeOK
    BY <1>2, <1>3 DEF Init, TypeOK, Idle
  <1> QED
    BY <1>1, <1>2, <1>4, InitHolds DEF Init, TypeInv

LEMMA StepTypes ==
    ASSUME TypeInv, [Next]_vars
    PROVE  TypeInv'
  <1>1. Inv'
    BY StepKeeps DEF TypeInv
  <1>2. mishaps \in 0 .. MaxMishaps
    BY DEF TypeInv, TypeOK
  <1>3. CASE Next
    <2> SUFFICES ASSUME NEW p \in Procs,
                        \/ \E start \in Starts, end \in Ends, incremental \in BOOLEAN :
                               BeginSync(p, Symbols, start, end, incremental)
                        \/ Remedy(p) \/ Work(p) \/ Garbled(p) \/ Fail(p) \/ Die(p)
                 PROVE  TypeInv'
      BY <1>3 DEF Next
    <2>1. CASE \E start \in Starts, end \in Ends, incremental \in BOOLEAN :
                   BeginSync(p, Symbols, start, end, incremental)
      BY <1>1, <2>1, BeginSyncTypes
    <2>2. CASE Remedy(p)
      BY <1>1, <2>2, BeginRemedyTypes DEF Remedy
    <2>3. CASE Work(p)
      <3>1. CASE Fetch(p)
        BY <1>1, <3>1, FetchTypes
      <3>2. CASE \E s \in Symbols : Record(p, s)
        BY <1>1, <3>2, RecordTypes
      <3>3. CASE Finish(p)
        <4>1. UNCHANGED <<bars, observed, warmed, touched>>
          BY <3>3 DEF Finish
        <4>2. mishaps' = mishaps /\ run' = [run EXCEPT ![p] = Idle]
          BY <3>3 DEF Finish
        <4>3. mishaps' \in 0 .. MaxMishaps
          BY <1>2, <4>2
        <4> QED
          BY <1>1, <4>1, <4>2, <4>3, IdleTypes
      <3> QED
        BY <2>3, <3>1, <3>2, <3>3 DEF Work
    <2>4. CASE Garbled(p)
      BY <1>1, <2>4, GarbledTypes
    <2>5. CASE Fail(p)
      BY <1>1, <2>5, FailTypes
    <2>6. CASE Die(p)
      <3>1. UNCHANGED <<bars, observed, warmed, touched>> /\ Mishap
        BY <2>6 DEF Die
      <3>2. run' = [run EXCEPT ![p] = Idle]
        BY <2>6 DEF Die
      <3> QED
        BY <1>1, <3>1, <3>2, MishapsBounded, IdleTypes
    <2> QED
      BY <2>1, <2>2, <2>3, <2>4, <2>5, <2>6
  <1>4. CASE UNCHANGED vars
    BY <1>1, <1>4 DEF vars, TypeInv, TypeOK
  <1> QED
    BY <1>3, <1>4

\* IntradayTypes: types are kept, no interval that is asked for is empty, and an
\* answer in hand is one to a request that is still on the list.
THEOREM IntradayTypes == Spec => []TypeOK
  <1>1. Init => TypeInv
    BY InitTypes
  <1>2. TypeInv /\ [Next]_vars => TypeInv'
    BY StepTypes
  <1>3. TypeInv => TypeOK
    BY DEF TypeInv
  <1> QED
    BY <1>1, <1>2, <1>3, PTL DEF Spec

=============================================================================
