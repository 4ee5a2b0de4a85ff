------------------------ MODULE DailyFixpoint_proofs ------------------------
(***************************************************************************)
(* The daily qualification, for any symbols, sessions, worlds, limits, and *)
(* number of commands and preflights under way at once: ranges recorded as *)
(* complete are stored without a hole (HistoryInv), exclusions are true of *)
(* the provider, and accepted manifests are complete (PreflightInv).       *)
(***************************************************************************)
EXTENDS DailyFixpoint, TLAPS

\* A coverage as it is stored or has been read, with the bars stored of its
\* symbol: it has its type, and a range it calls complete is stored.
Sound(value, stored) ==
    /\ value \in Coverage \cup {None}
    /\ value # None /\ value.complete => value.first .. value.last \subseteq stored

\* A command under way: its range, and what it has read of the coverage.
SoundCommand(c, stored) ==
    /\ {"first", "last", "seen"} \subseteq DOMAIN c
    /\ c.first \in Days /\ c.last \in Days
    /\ DOMAIN c.seen \subseteq Symbols
    /\ \A s \in DOMAIN c.seen : Sound(c.seen[s], stored[s])

\* The invariant: what commands have read still holds when they write.
HistoryInv ==
    /\ DOMAIN sync = Syncers /\ coverage \in [Symbols -> Coverage \cup {None}]
    /\ \A s \in Symbols : Sound(coverage[s], bars[s])
    /\ \A q \in Syncers : sync[q] # None => SoundCommand(sync[q], bars)

-----------------------------------------------------------------------------
LEMMA ExtremesOfTwo ==
    ASSUME NEW a \in Int, NEW b \in Int
    PROVE  /\ Min({a, b}) = IF a <= b THEN a ELSE b
           /\ Max({a, b}) = IF a <= b THEN b ELSE a
  BY DEF Min, Max

\* A coverage made of a range just checked and a sound one is sound.
LEMMA CoverageValueSound ==
    ASSUME NEW stored, NEW previous, Sound(previous, stored),
           NEW first \in Days, NEW last \in Days,
           NEW complete \in BOOLEAN, complete => first .. last \subseteq stored
    PROVE  Sound(CoverageValue(previous, first, last, complete), stored)
  <1> DEFINE value == CoverageValue(previous, first, last, complete)
             joined == /\ complete /\ previous # None /\ previous.complete
                       /\ previous.first <= last + 1 /\ first <= previous.last + 1
  <1>1. Days \subseteq Int
    BY HistoryAssumption DEF HistoryAssumption
  <1>2. CASE ~joined
    BY <1>2 DEF CoverageValue, Sound, Coverage
  <1>3. CASE joined
    <2>1. previous \in Coverage /\ previous.first \in Days /\ previous.last \in Days
      BY <1>3 DEF Sound, Coverage
    <2>2. previous.first .. previous.last \subseteq stored /\ first .. last \subseteq stored
      BY <1>3 DEF Sound
    <2>3. value = [first |-> Min({first, previous.first}),
                   last |-> Max({last, previous.last}), complete |-> TRUE]
      BY <1>3 DEF CoverageValue
    <2>4. /\ Min({first, previous.first}) = IF first <= previous.first
                                            THEN first ELSE previous.first
          /\ Max({last, previous.last}) = IF last <= previous.last
                                          THEN previous.last ELSE last
      BY <1>1, <2>1, ExtremesOfTwo
    <2>5. value \in Coverage
      BY <2>1, <2>3, <2>4 DEF Coverage
    <2>6. value.first .. value.last \subseteq stored
      <3>1. SUFFICES ASSUME NEW d \in value.first .. value.last
                     PROVE  d \in stored
        OBVIOUS
      <3>2. /\ value.first = IF first <= previous.first THEN first ELSE previous.first
            /\ value.last = IF last <= previous.last THEN previous.last ELSE last
        BY <2>3, <2>4
      <3>3. /\ first \in Int /\ last \in Int
            /\ previous.first \in Int /\ previous.last \in Int
        BY <1>1, <2>1
      <3>4. previous.first <= last + 1 /\ first <= previous.last + 1
        BY <1>3
      <3>5. d \in Int /\ value.first <= d /\ d <= value.last
        BY <3>1, <3>2, <3>3
      <3>6. d \in previous.first .. previous.last \/ d \in first .. last
        <4> HIDE DEF value
        <4> QED
          BY <3>2, <3>3, <3>4, <3>5
      <3> QED
        BY <2>2, <3>6
    <2> QED
      BY <2>5, <2>6 DEF Sound
  <1> QED
    BY <1>2, <1>3

\* Bars are only added, which keeps what is known of them.
LEMMA CommandGrows ==
    ASSUME NEW c, NEW a, NEW b, \A s \in Symbols : a[s] \subseteq b[s],
           SoundCommand(c, a)
    PROVE  SoundCommand(c, b)
  BY DEF SoundCommand, Sound

-----------------------------------------------------------------------------
\* The steps of a synchronization, and the end of one that is given up.
LEMMA StartSound ==
    ASSUME HistoryInv, NEW q \in Syncers, NEW symbols, NEW first, NEW last,
           NEW incremental, StartSync(q, symbols, first, last, incremental),
           UNCHANGED <<bars, coverage>>
    PROVE  HistoryInv'
  <1>1. PICK c : /\ sync' = [sync EXCEPT ![q] = c]
                 /\ SoundCommand(c, bars)
    <2> DEFINE plan == [s \in symbols |-> Planned(s, first, last, incremental)]
               c == [first |-> first, last |-> last, plan |-> plan,
                     seen |-> [s \in symbols |-> coverage[s]],
                     queue |-> {s \in symbols : plan[s] # {}},
                     failed |-> {}, short |-> {}, clean |-> TRUE]
    <2>1. sync' = [sync EXCEPT ![q] = c]
      BY DEF StartSync
    <2>2. symbols \subseteq Symbols /\ first \in Days /\ last \in Days
      BY DEF StartSync
    <2>3. \A s \in symbols : Sound(coverage[s], bars[s])
      BY <2>2 DEF HistoryInv
    <2>4. SoundCommand(c, bars)
      BY <2>2, <2>3 DEF SoundCommand
    <2> QED
      BY <2>1, <2>4
  <1> QED
    BY <1>1 DEF HistoryInv

LEMMA AnswerSound ==
    ASSUME HistoryInv, NEW q \in Syncers, NEW invalid, AnswerBatch(q, invalid),
           UNCHANGED coverage
    PROVE  HistoryInv'
  <1>1. \A s \in Symbols : bars[s] \subseteq bars'[s]
    BY DEF AnswerBatch
  <1>2. \A s \in Symbols : Sound(coverage'[s], bars'[s])
    BY <1>1 DEF HistoryInv, Sound
  <1>3. /\ sync'[q].first = sync[q].first /\ sync'[q].last = sync[q].last
        /\ sync'[q].seen = sync[q].seen
        /\ DOMAIN sync'[q] = DOMAIN sync[q]
        /\ DOMAIN sync' = Syncers
        /\ \A other \in Syncers \ {q} : sync'[other] = sync[other]
    BY DEF AnswerBatch, HistoryInv, SoundCommand
  <1>4. \A other \in Syncers : sync[other] # None => SoundCommand(sync[other], bars')
    BY <1>1, CommandGrows DEF HistoryInv
  <1>5. sync[q] # None
    BY DEF AnswerBatch
  <1>6. SoundCommand(sync'[q], bars')
    BY <1>3, <1>4, <1>5 DEF SoundCommand, HistoryInv
  <1> QED
    BY <1>2, <1>3, <1>4, <1>6 DEF HistoryInv

LEMMA FailSound ==
    ASSUME HistoryInv, NEW q \in Syncers, FailBatch(q), UNCHANGED <<bars, coverage>>
    PROVE  HistoryInv'
  <1>1. PICK queue, failed :
            sync' = [sync EXCEPT ![q] = [sync[q] EXCEPT
                        !.queue = queue, !.failed = failed]]
    BY DEF FailBatch
  <1>2. SoundCommand(sync'[q], bars)
    BY <1>1 DEF FailBatch, HistoryInv, SoundCommand
  <1> QED
    BY <1>1, <1>2 DEF HistoryInv

LEMMA FinishSound ==
    ASSUME HistoryInv, NEW q \in Syncers, FinishSync(q), UNCHANGED bars
    PROVE  HistoryInv'
  <1>1. SoundCommand(sync[q], bars)
    BY DEF FinishSync, HistoryInv
  <1>2. ASSUME NEW s \in Symbols
        PROVE  Sound(coverage'[s], bars[s])
    <2>1. CASE s \in DOMAIN sync[q].seen \ sync[q].failed
      <3> DEFINE complete == /\ s \notin sync[q].short
                             /\ sync[q].first .. sync[q].last \subseteq bars[s]
      <3>1. coverage'[s] =
                CoverageValue(sync[q].seen[s], sync[q].first, sync[q].last, complete)
        BY <2>1 DEF FinishSync
      <3>2. /\ Sound(sync[q].seen[s], bars[s])
            /\ sync[q].first \in Days /\ sync[q].last \in Days
        BY <1>1, <2>1 DEF SoundCommand
      <3> QED
        BY <3>1, <3>2, CoverageValueSound
    <2>2. CASE s \notin DOMAIN sync[q].seen \ sync[q].failed
      BY <2>2 DEF FinishSync, HistoryInv
    <2> QED
      BY <2>1, <2>2
  <1>3. coverage' \in [Symbols -> Coverage \cup {None}]
    <2>1. coverage' = [s \in Symbols |-> coverage'[s]]
      BY DEF FinishSync
    <2>2. \A s \in Symbols : coverage'[s] \in Coverage \cup {None}
      BY <1>2 DEF Sound
    <2> QED
      BY <2>1, <2>2
  <1> QED
    BY <1>2, <1>3 DEF FinishSync, HistoryInv

LEMMA GivenUpSound ==
    ASSUME HistoryInv, NEW q, sync' = [sync EXCEPT ![q] = None],
           UNCHANGED <<bars, coverage>>
    PROVE  HistoryInv'
  BY DEF HistoryInv

-----------------------------------------------------------------------------
LEMMA HistoryInitially == Init => HistoryInv
  BY DEF Init, HistoryInit, HistoryInv, Sound

LEMMA HistoryKept == HistoryInv /\ [Next]_vars => HistoryInv'
  <1> SUFFICES ASSUME HistoryInv, [Next]_vars PROVE HistoryInv'
    OBVIOUS
  <1>1. ASSUME UNCHANGED <<bars, coverage, sync>> PROVE HistoryInv'
    BY <1>1 DEF HistoryInv
  <1>2. ASSUME NEW p \in Procs, Work(p) PROVE HistoryInv'
    <2>1. p \in Syncers
      BY FixpointAssumption DEF FixpointAssumption
    <2>2. CASE Discover(p)
      BY <1>1, <2>2 DEF Discover, historyVars
    <2>3. CASE Probe(p, {})
      BY <1>1, <2>3 DEF Probe
    <2>4. CASE \E block \in run[p].plan : Repair(p, block)
      BY <2>1, <2>4, StartSound DEF Repair
    <2>5. CASE Receive(p, {})
      BY <2>1, <2>5, AnswerSound DEF Receive
    <2>6. CASE FinishRepair(p)
      BY <2>1, <2>6, FinishSound DEF FinishRepair
    <2>7. CASE Certify(p) \/ Requalify(p) \/ Finalize(p) \/ Report(p)
      BY <1>1, <2>7 DEF Certify, Requalify, Finalize, Report, historyVars
    <2> QED
      BY <1>2, <2>2, <2>3, <2>4, <2>5, <2>6, <2>7 DEF Work
  <1>3. ASSUME NEW p \in Procs, \/ \E local \in BOOLEAN : Begin(p, local)
                                \/ \E failing \in SUBSET Symbols \ {{}} : Probe(p, failing)
                                \/ AuditRaises(p)
        PROVE  HistoryInv'
    BY <1>1, <1>3 DEF Begin, Probe, AuditRaises, historyVars
  <1>4. ASSUME NEW p \in Procs, RepairRaises(p) \/ Die(p) PROVE HistoryInv'
    BY <1>4, GivenUpSound DEF RepairRaises, Die
  <1>5. ASSUME NEW q \in Syncers,
               \/ \E bad \in Symbols \X Days : Receive(q, {bad})
               \/ Receive(q, {})
        PROVE  HistoryInv'
    BY <1>5, AnswerSound DEF Receive
  <1>6. ASSUME NEW q \in Syncers, RequestFails(q) PROVE HistoryInv'
    BY <1>6, FailSound DEF RequestFails
  <1>7. ASSUME NEW q \in Syncers, NEW range \in Ranges, NEW incremental \in BOOLEAN,
               OrdinarySync(q, range, incremental)
        PROVE  HistoryInv'
    BY <1>7, StartSound DEF OrdinarySync
  <1>8. ASSUME NEW q \in Syncers, FinishOrdinary(q) PROVE HistoryInv'
    BY <1>8, FinishSound DEF FinishOrdinary
  <1>9. CASE UNCHANGED vars
    BY <1>1, <1>9 DEF vars, historyVars
  <1> QED
    BY <1>2, <1>3, <1>4, <1>5, <1>6, <1>7, <1>8, <1>9 DEF Next

-----------------------------------------------------------------------------
\* The proof of a symbol: what it calls empty, the provider lacks.
Honest(proof, s, supply) ==
    /\ proof \in Proof \cup {None}
    /\ proof # None =>
           \A d \in Days : proof.sessions[d] = "empty" => d \notin supply[s]

States == [eligible : SUBSET Symbols, excluded : SUBSET Symbols,
           evidence : [Symbols -> Proof \cup {None}],
           source : UNION {[universe -> SUBSET Days] : universe \in SUBSET Symbols}]

\* A state in which nothing was left to resolve.
Settled(state) ==
    state.eligible = Symbols \ state.excluded /\ ~TooMany(state.excluded)

\* A success that stands: besides, its requirements are stored, and those it
\* excludes lack a session for good.
Stands(state, supply, stored) ==
    /\ Settled(state) /\ state.excluded \subseteq Symbols
    /\ \A key \in Requirements(state.eligible, state.source) : key[2] \in stored[key[1]]
    /\ \A s \in state.excluded :
           \E d \in Audited(state.evidence[s]) : d \notin supply[s] \cup stored[s]

\* What an audit was told about a symbol.
Told(answers, s, supply) ==
    /\ DOMAIN answers \subseteq Days
    /\ \A d \in DOMAIN answers :
           /\ answers[d] \in {"returned", "empty", "failed"}
           /\ answers[d] = "empty" => d \notin supply[s]

\* A preflight, by the place it has come to.
Sane(r, supply, stored) ==
    /\ DOMAIN r = DOMAIN Idle
    /\ r.rounds \in Seq(States) /\ Len(r.rounds) <= MaxRounds
    /\ r.at \in {"discovering", "auditing", "repairing", "requalifying"} =>
           Len(r.rounds) < MaxRounds
    /\ r.at = "finalizing" \/ (r.at = "reporting" /\ r.reason = "success") =>
           r.rounds # <<>> /\ Stands(Last(r.rounds), supply, stored)
    /\ IF r.at = "repairing"
       THEN /\ \A s \in Symbols : Honest(r.old[s], s, supply)
            /\ DOMAIN r.found \subseteq Symbols
            /\ \A s \in DOMAIN r.found : Told(r.found[s], s, supply)
       ELSE r.found = None

\* The invariant of the preflights.
PreflightInv ==
    /\ provider \in [Symbols -> SUBSET Days] /\ bars \in [Symbols -> SUBSET Days]
    /\ evidence \in [Symbols -> Proof \cup {None}]
    /\ \A s \in Symbols : Honest(evidence[s], s, provider)
    /\ DOMAIN sync = Syncers /\ DOMAIN run = Procs /\ DOMAIN manifest = Procs
    /\ \A p \in Procs : Sane(run[p], provider, bars)
    /\ \A p \in Procs : sync[p] # None => At(p, "repairing") /\ run[p].plan # {}
    /\ \A p \in Procs : manifest[p] # None /\ manifest[p].ready
                            => Stands(manifest[p].state, provider, bars)

-----------------------------------------------------------------------------
LEMMA FirstOfThree ==
    ASSUME NEW A, NEW B, NEW C, NEW key \in A \X B \X C
    PROVE  key[1] \in A
  OBVIOUS

\* Every requirement is of a member of the universe.
LEMMA RequiredOfUniverse ==
    ASSUME NEW universe, NEW stored, NEW key \in Requirements(universe, stored)
    PROVE  key[1] \in universe
  <1> DEFINE members(day) == Members(day, universe, stored)
             paired(day) == IF Cardinality(members(day)) < 2 THEN {} ELSE members(day)
             calibrated(day) == Days \cap (day - Calibration .. day)
             required(day) ==
                 (UNION {{s} \X Gaps(s, day, stored) \X {"gap"} : s \in universe})
                 \cup members(day) \X Needed(day) \X {"selection"}
                 \cup paired(day) \X calibrated(day) \X {"pair"}
  <1>0. PICK day \in Signals : key \in required(day)
    <2>1. Requirements(universe, stored) = UNION {required(day) : day \in Signals}
      BY DEF Requirements
    <2> HIDE DEF required
    <2> QED
      BY <2>1
  <1>1. \/ key \in UNION {{s} \X Gaps(s, day, stored) \X {"gap"} : s \in universe}
        \/ key \in members(day) \X Needed(day) \X {"selection"}
        \/ key \in paired(day) \X calibrated(day) \X {"pair"}
    BY <1>0
  <1>2. members(day) \subseteq universe /\ paired(day) \subseteq members(day)
    BY DEF Members
  <1> HIDE DEF members, paired, calibrated, required
  <1>3. CASE key \in UNION {{s} \X Gaps(s, day, stored) \X {"gap"} : s \in universe}
    <2>1. PICK s \in universe : key \in {s} \X Gaps(s, day, stored) \X {"gap"}
      BY <1>3
    <2>2. key[1] \in {s}
      BY <2>1, FirstOfThree
    <2> QED
      BY <2>2
  <1>4. CASE key \in members(day) \X Needed(day) \X {"selection"}
    BY <1>2, <1>4, FirstOfThree
  <1>5. CASE key \in paired(day) \X calibrated(day) \X {"pair"}
    BY <1>2, <1>5, FirstOfThree
  <1> QED
    BY <1>1, <1>3, <1>4, <1>5

\* Requirements depend on the bars of the universe alone.
LEMMA RequirementsLocal ==
    ASSUME NEW universe, NEW a, NEW b, \A s \in universe : a[s] = b[s]
    PROVE  Requirements(universe, a) = Requirements(universe, b)
  <1> DEFINE gaps(day, stored) ==
                 UNION {{s} \X Gaps(s, day, stored) \X {"gap"} : s \in universe}
             paired(day, stored) ==
                 IF Cardinality(Members(day, universe, stored)) < 2 THEN {}
                 ELSE Members(day, universe, stored)
             required(day, stored) ==
                 gaps(day, stored)
                 \cup Members(day, universe, stored) \X Needed(day) \X {"selection"}
                 \cup paired(day, stored) \X (Days \cap (day - Calibration .. day)) \X {"pair"}
  <1>1. \A stored : Requirements(universe, stored) =
                        UNION {required(day, stored) : day \in Signals}
    BY DEF Requirements
  <1>2. ASSUME NEW day \in Signals PROVE required(day, a) = required(day, b)
    <2>1. \A s \in universe : Gaps(s, day, a) = Gaps(s, day, b)
      BY DEF Gaps
    <2>2. Members(day, universe, a) = Members(day, universe, b)
      <3>1. {s \in universe : Needed(day) \subseteq a[s]}
                = {s \in universe : Needed(day) \subseteq b[s]}
        OBVIOUS
      <3>2. (\E s \in universe : Gaps(s, day, a) # {})
                <=> (\E s \in universe : Gaps(s, day, b) # {})
        BY <2>1
      <3> QED
        BY <3>1, <3>2 DEF Members
    <2>3. gaps(day, a) = gaps(day, b)
      BY <2>1
    <2> HIDE DEF gaps
    <2> QED
      BY <2>2, <2>3
  <1> HIDE DEF required
  <1> QED
    BY <1>1, <1>2

\* A discovery that finds a settled state again has resolved everything.
LEMMA SettledIsResolved ==
    ASSUME Settled(State(Now))
    PROVE  Resolved /\ State(Now).excluded = Now.excluded
  <1> DEFINE excluded == WithStanding("quarantined", evidence, bars)
             failed == WithStanding("failed", evidence, bars)
             universe == Symbols \ excluded
  <1>1. /\ Now.excluded = excluded /\ Now.failed = failed /\ Now.universe = universe
        /\ Now.complete = (failed = {} /\ ~TooMany(excluded))
        /\ Now.unresolved \subseteq Requirements(universe, bars)
    BY DEF Now, Discovery
  <1>2. /\ State(Now).excluded = excluded
        /\ State(Now).eligible =
               universe \ (failed \cup {key[1] : key \in Now.unresolved})
    BY <1>1 DEF State
  <1>3. failed \subseteq universe
    BY DEF WithStanding
  <1>4. universe = universe \ (failed \cup {key[1] : key \in Now.unresolved})
        /\ ~TooMany(excluded)
    BY <1>2 DEF Settled
  <1>5. failed = {}
    BY <1>3, <1>4
  <1>6. Now.unresolved = {}
    BY <1>1, <1>4, RequiredOfUniverse
  <1> QED
    BY <1>1, <1>2, <1>4, <1>5, <1>6 DEF Resolved

\* The states a discovery comes to.
LEMMA StateOfNow ==
    ASSUME PreflightInv
    PROVE  State(Now) \in States
  <1> DEFINE universe == Symbols \ WithStanding("quarantined", evidence, bars)
  <1>1. /\ Now.excluded \subseteq Symbols /\ Now.universe = universe
        /\ Now.source \in [universe -> SUBSET Days]
    BY DEF Now, Discovery, WithStanding, PreflightInv
  <1>2. Now.source \in UNION {[U -> SUBSET Days] : U \in SUBSET Symbols}
    BY <1>1
  <1> QED
    BY <1>1, <1>2 DEF State, States, PreflightInv

\* A quarantined symbol lacks every missing session it was audited for.
LEMMA QuarantinedLacks ==
    ASSUME PreflightInv, NEW s \in WithStanding("quarantined", evidence, bars)
    PROVE  /\ (Audited(evidence[s]) \ bars[s]) \cap provider[s] = {}
           /\ Audited(evidence[s]) \ bars[s] # {}
  <1> DEFINE missing == Audited(evidence[s]) \ bars[s]
  <1>1. s \in Symbols /\ Standing(s, evidence, bars) = "quarantined"
    BY DEF WithStanding
  <1>2. /\ evidence[s] # None /\ missing # {}
        /\ \A d \in missing : evidence[s].sessions[d] = "empty"
    BY <1>1 DEF Standing
  <1>3. missing \subseteq Days
    BY DEF Audited
  <1>4. \A d \in missing : d \notin provider[s]
    BY <1>1, <1>2, <1>3 DEF PreflightInv, Honest
  <1> QED
    BY <1>2, <1>4

\* The state of a discovery that is a success stands.
LEMMA SuccessIsStanding ==
    ASSUME PreflightInv, NEW rounds, NEW reviewed, NEW local,
           Reason(Now, rounds, reviewed, local) = "success"
    PROVE  Stands(State(Now), provider, bars)
  <1> DEFINE excluded == WithStanding("quarantined", evidence, bars)
             universe == Symbols \ excluded
             required == Requirements(universe, bars)
  <1>1. ~TooMany(Now.excluded) /\ Now.complete /\ Now.unresolved = {}
    BY DEF Reason
  <1>2. /\ Now.failed = {} /\ Now.universe = universe /\ Now.excluded = excluded
        /\ Now.unresolved = {key \in required : key[2] \notin bars[key[1]]}
        /\ Now.source = [s \in universe |-> bars[s]]
    BY <1>1 DEF Now, Discovery
  <1>3. /\ State(Now).eligible = universe /\ State(Now).excluded = excluded
        /\ State(Now).evidence = evidence /\ State(Now).source = Now.source
    BY <1>1, <1>2 DEF State
  <1>4. Settled(State(Now)) /\ excluded \subseteq Symbols
    BY <1>1, <1>2, <1>3 DEF Settled, WithStanding
  <1>5. Requirements(universe, Now.source) = required
    BY <1>2, RequirementsLocal
  <1>6. \A key \in required : key[2] \in bars[key[1]]
    BY <1>1, <1>2
  <1>7. \A s \in excluded : \E d \in Audited(evidence[s]) : d \notin provider[s] \cup bars[s]
    BY QuarantinedLacks
  <1> HIDE DEF excluded, universe, required
  <1> QED
    BY <1>3, <1>4, <1>5, <1>6, <1>7 DEF Stands

\* It stands when the provider's bars are stored.
LEMMA StandsOn ==
    ASSUME NEW state, NEW supply, NEW a, NEW b, Stands(state, supply, a),
           \A s \in Symbols : a[s] \subseteq b[s] /\ b[s] \subseteq a[s] \cup supply[s]
    PROVE  Stands(state, supply, b)
  <1>1. /\ Settled(state) /\ state.excluded \subseteq Symbols
        /\ state.eligible \subseteq Symbols
    BY DEF Stands, Settled
  <1>2. ASSUME NEW key \in Requirements(state.eligible, state.source)
        PROVE  key[2] \in b[key[1]]
    BY <1>1, RequiredOfUniverse DEF Stands
  <1>3. ASSUME NEW s \in state.excluded
        PROVE  \E d \in Audited(state.evidence[s]) : d \notin supply[s] \cup b[s]
    BY <1>1 DEF Stands
  <1> QED
    BY <1>1, <1>2, <1>3 DEF Stands

-----------------------------------------------------------------------------
\* A step that replaces one preflight.
LEMMA PreflightMoves ==
    ASSUME PreflightInv, NEW p \in Procs, NEW r,
           run' = [run EXCEPT ![p] = r], Sane(r, provider, bars),
           UNCHANGED <<provider, bars, evidence, manifest>>,
           DOMAIN sync' = Syncers,
           \A other \in Procs \ {p} : sync'[other] = sync[other],
           sync'[p] # None => r.at = "repairing" /\ r.plan # {}
    PROVE  PreflightInv'
  <1>1. \A other \in Procs : run'[other] = IF other = p THEN r ELSE run[other]
    BY DEF PreflightInv
  <1>2. \A other \in Procs : Sane(run'[other], provider, bars)
    BY <1>1 DEF PreflightInv
  <1>3. \A other \in Procs :
            sync'[other] # None => run'[other].at = "repairing" /\ run'[other].plan # {}
    BY <1>1 DEF PreflightInv, At
  <1> QED
    BY <1>1, <1>2, <1>3 DEF PreflightInv, At

LEMMA IdleIsSane == Sane(Idle, provider, bars)
  <1>1. <<>> \in Seq(States) /\ Len(<<>>) = 0
    OBVIOUS
  <1>2. MaxRounds \in Nat
    BY FixpointAssumption DEF FixpointAssumption
  <1> QED
    BY <1>1, <1>2 DEF Sane, Idle

LEMMA BeginKeeps ==
    ASSUME PreflightInv, NEW p \in Procs, NEW local, Begin(p, local)
    PROVE  PreflightInv'
  <1> DEFINE r == [Idle EXCEPT !.at = "discovering", !.local = local]
  <1>1. run' = [run EXCEPT ![p] = r]
    BY DEF Begin
  <1>2. /\ DOMAIN r = DOMAIN Idle /\ r.at = "discovering"
        /\ r.rounds = <<>> /\ r.found = None
    BY DEF Idle
  <1>3. Sane(r, provider, bars)
    <2>1. <<>> \in Seq(States) /\ Len(<<>>) = 0
      OBVIOUS
    <2>2. MaxRounds \in Nat /\ MaxRounds > 0
      BY FixpointAssumption DEF FixpointAssumption
    <2> HIDE DEF r
    <2> QED
      BY <1>2, <2>1, <2>2 DEF Sane
  <1>4. sync'[p] = sync[p] /\ sync[p] = None
    BY DEF Begin, historyVars, PreflightInv, At
  <1> HIDE DEF r
  <1> QED
    BY <1>1, <1>3, <1>4, PreflightMoves DEF Begin, historyVars, PreflightInv

\* A preflight comes to its verdict.
LEMMA FinishKeeps ==
    ASSUME PreflightInv, NEW p \in Procs, NEW reason, Finish(p, reason),
           reason = "success" => /\ run[p].rounds # <<>>
                                 /\ Stands(Last(run[p].rounds), provider, bars),
           UNCHANGED <<provider, bars, evidence, sync, manifest>>, sync[p] = None
    PROVE  PreflightInv'
  <1> DEFINE new == [Idle EXCEPT
                 !.at = "reporting", !.reason = reason, !.rounds = run[p].rounds]
  <1>1. run' = [run EXCEPT ![p] = new]
    BY DEF Finish
  <1>2. /\ DOMAIN new = DOMAIN Idle /\ new.at = "reporting" /\ new.reason = reason
        /\ new.rounds = run[p].rounds /\ new.found = None
    BY DEF Idle
  <1>3. run[p].rounds \in Seq(States) /\ Len(run[p].rounds) <= MaxRounds
    BY DEF PreflightInv, Sane
  <1> HIDE DEF new
  <1>4. Sane(new, provider, bars)
    BY <1>2, <1>3 DEF Sane
  <1> QED
    BY <1>1, <1>4, PreflightMoves DEF PreflightInv

\* The report changes nothing it speaks of.
LEMMA ReportKeeps ==
    ASSUME PreflightInv, NEW p \in Procs, Report(p)
    PROVE  PreflightInv'
  <1> DEFINE reason == run[p].reason
  <1>1. /\ At(p, "reporting") /\ sync[p] = None
        /\ UNCHANGED <<provider, bars, sync, evidence>>
    BY DEF Report, historyVars, PreflightInv, At
  <1>2. manifest'[p] =
            IF reason = "success" THEN [ready |-> TRUE, state |-> Last(run[p].rounds)]
            ELSE IF reason = "review" THEN [ready |-> FALSE, state |-> "review"]
            ELSE manifest[p]
    BY DEF Report, PreflightInv
  <1>3. /\ DOMAIN manifest' = Procs
        /\ \A other \in Procs \ {p} : manifest'[other] = manifest[other]
    BY DEF Report, PreflightInv
  <1>4. manifest'[p] # None /\ manifest'[p].ready
            => Stands(manifest'[p].state, provider, bars)
    <2>1. CASE reason = "success"
      <3>1. Stands(Last(run[p].rounds), provider, bars)
        BY <1>1, <2>1 DEF PreflightInv, Sane, At
      <3> QED
        BY <1>2, <2>1, <3>1
    <2>2. CASE reason = "review"
      BY <1>2, <2>2
    <2>3. CASE reason \notin {"success", "review"}
      <3>1. manifest'[p] = manifest[p]
        BY <1>2, <2>3
      <3> QED
        BY <3>1 DEF PreflightInv
    <2> QED
      BY <2>1, <2>2, <2>3
  <1>5. \A other \in Procs : manifest'[other] # None /\ manifest'[other].ready
                                 => Stands(manifest'[other].state, provider, bars)
    BY <1>3, <1>4 DEF PreflightInv
  <1>6. /\ DOMAIN run' = Procs
        /\ \A other \in Procs : run'[other] = IF other = p THEN Idle ELSE run[other]
    BY DEF Report, PreflightInv
  <1>7. \A other \in Procs : Sane(run'[other], provider, bars)
    BY <1>6, IdleIsSane DEF PreflightInv
  <1>8. \A other \in Procs :
            sync[other] # None => run'[other].at = "repairing" /\ run'[other].plan # {}
    BY <1>1, <1>6 DEF PreflightInv, At
  <1> QED
    BY <1>1, <1>3, <1>5, <1>6, <1>7, <1>8 DEF PreflightInv, At

LEMMA DiscoverKeeps ==
    ASSUME PreflightInv, NEW p \in Procs, Discover(p)
    PROVE  PreflightInv'
  <1> DEFINE r == run[p]
             reason == Reason(Now, r.rounds, r.reviewed, r.local)
             after(at, asked) == [r EXCEPT
                 !.at = at, !.rounds = Append(@, State(Now)), !.asked = asked]
  <1>1. /\ At(p, "discovering")
        /\ UNCHANGED <<provider, bars, sync, evidence, manifest>>
        /\ sync[p] = None
    BY DEF Discover, historyVars, PreflightInv, At
  <1>2. \/ /\ reason = "audit"
           /\ \E asked : run' = [run EXCEPT ![p] = after("auditing", asked)]
        \/ /\ reason = "success"
           /\ \E asked : run' = [run EXCEPT ![p] = after("finalizing", asked)]
        \/ reason # "success" /\ Finish(p, reason)
    BY DEF Discover
  <1>3. ASSUME NEW at \in {"auditing", "finalizing"}, NEW asked,
               run' = [run EXCEPT ![p] = after(at, asked)],
               at = "auditing" => reason = "audit",
               at = "finalizing" => reason = "success"
        PROVE  PreflightInv'
    <2> DEFINE new == after(at, asked)
    <2>1. /\ Sane(r, provider, bars) /\ r.rounds \in Seq(States) /\ Len(r.rounds) < MaxRounds
          /\ MaxRounds \in Nat
      BY <1>1, FixpointAssumption DEF PreflightInv, Sane, At, FixpointAssumption
    <2>2. /\ DOMAIN new = DOMAIN Idle /\ new.at = at
          /\ new.rounds = Append(r.rounds, State(Now)) /\ new.found = r.found
      BY <2>1 DEF Sane, Idle
    <2>3. new.found = None
      BY <1>1, <2>1, <2>2 DEF Sane, At
    <2>4. State(Now) \in States
      BY StateOfNow
    <2>5. /\ new.rounds \in Seq(States) /\ Len(new.rounds) = Len(r.rounds) + 1
          /\ new.rounds # <<>> /\ Last(new.rounds) = State(Now)
      BY <2>1, <2>2, <2>4 DEF Last
    <2>6. reason = "audit" => Len(r.rounds) + 1 # MaxRounds
      BY DEF Reason, AtLimit
    <2>7. reason = "success" => Stands(State(Now), provider, bars)
      BY SuccessIsStanding
    <2>8. Sane(new, provider, bars)
      <3> HIDE DEF new, reason
      <3> QED
        BY <1>3, <2>1, <2>2, <2>3, <2>5, <2>6, <2>7 DEF Sane
    <2>9. run' = [run EXCEPT ![p] = new]
      BY <1>3
    <2> HIDE DEF new
    <2> QED
      BY <1>1, <2>8, <2>9, PreflightMoves DEF PreflightInv
  <1> QED
    BY <1>1, <1>2, <1>3, FinishKeeps

\* The answers of an audit are honest, if those of the last one were.
LEMMA ProbeKeeps ==
    ASSUME PreflightInv, NEW p \in Procs, NEW failing, Probe(p, failing)
    PROVE  PreflightInv'
  <1> DEFINE r == run[p]
             told(s) == [d \in Open(p, s) |->
                            IF d \in Cached(evidence[s]) THEN evidence[s].sessions[d]
                            ELSE Answer(s, d, failing)]
             found == [s \in {t \in Symbols : Open(p, t) # {}} |-> told(s)]
             new == [r EXCEPT
                 !.at = "repairing", !.old = evidence, !.found = found,
                 !.plan = UNION {Blocks(s, found[s]) : s \in DOMAIN found},
                 !.unrepaired = {}]
  <1>1. /\ run' = [run EXCEPT ![p] = new] /\ At(p, "auditing")
        /\ UNCHANGED <<provider, bars, sync, evidence, manifest>>
    BY DEF Probe
  <1>2. sync[p] = None /\ Sane(r, provider, bars)
    BY <1>1 DEF PreflightInv, At
  <1>3. /\ DOMAIN new = DOMAIN Idle /\ new.at = "repairing" /\ new.rounds = r.rounds
        /\ new.old = evidence /\ new.found = found
    BY <1>2 DEF Sane, Idle
  <1>4. ASSUME NEW s \in Symbols PROVE Told(told(s), s, provider)
    <2>1. Open(p, s) \subseteq Days
      BY DEF Open
    <2>2. ASSUME NEW d \in Open(p, s)
          PROVE  /\ told(s)[d] \in {"returned", "empty", "failed"}
                 /\ told(s)[d] = "empty" => d \notin provider[s]
      <3>1. CASE d \in Cached(evidence[s])
        <4>1. /\ evidence[s] # None
              /\ evidence[s].sessions[d] \in {"returned", "empty"}
          BY <3>1 DEF Cached
        <4>2. Honest(evidence[s], s, provider)
          BY DEF PreflightInv
        <4> QED
          BY <2>1, <3>1, <4>1, <4>2 DEF Honest
      <3>2. CASE d \notin Cached(evidence[s])
        BY <3>2 DEF Answer
      <3> QED
        BY <3>1, <3>2
    <2> HIDE DEF told
    <2>3. DOMAIN told(s) = Open(p, s)
      BY DEF told
    <2> QED
      BY <2>1, <2>2, <2>3 DEF Told
  <1>5. Sane(new, provider, bars)
    <2>1. \A s \in DOMAIN found : Told(found[s], s, provider)
      BY <1>4
    <2>2. DOMAIN found \subseteq Symbols
      OBVIOUS
    <2>3. Len(r.rounds) < MaxRounds /\ r.rounds \in Seq(States) /\ Len(r.rounds) <= MaxRounds
      BY <1>1, <1>2 DEF Sane, At
    <2>4. \A s \in Symbols : Honest(evidence[s], s, provider)
      BY DEF PreflightInv
    <2> HIDE DEF new, found
    <2> QED
      BY <1>3, <2>1, <2>2, <2>3, <2>4 DEF Sane
  <1> HIDE DEF new
  <1> QED
    BY <1>1, <1>2, <1>5, PreflightMoves DEF PreflightInv

\* The end of a repair changes what is left of the plan, and nothing else.
LEMMA RepairedKeeps ==
    ASSUME PreflightInv, NEW p \in Procs, NEW ok, Repaired(p, ok), sync[p] # None,
           sync' = [sync EXCEPT ![p] = None],
           UNCHANGED <<provider, bars, evidence, manifest>>
    PROVE  PreflightInv'
  <1> DEFINE r == run[p]
  <1>1. PICK plan, unrepaired :
            run' = [run EXCEPT ![p] = [r EXCEPT !.plan = plan, !.unrepaired = unrepaired]]
    BY DEF Repaired
  <1> DEFINE new == [r EXCEPT !.plan = plan, !.unrepaired = unrepaired]
  <1>2. Sane(r, provider, bars)
    BY DEF PreflightInv
  <1>3. /\ DOMAIN new = DOMAIN Idle /\ new.at = r.at /\ new.rounds = r.rounds
        /\ new.old = r.old /\ new.found = r.found /\ new.reason = r.reason
    BY <1>2 DEF Sane, Idle
  <1>4. Sane(new, provider, bars)
    <2> HIDE DEF new, r
    <2> QED
      BY <1>2, <1>3 DEF Sane
  <1>5. run' = [run EXCEPT ![p] = new]
    BY <1>1
  <1>6. /\ DOMAIN sync' = Syncers /\ sync'[p] = None
        /\ \A other \in Procs \ {p} : sync'[other] = sync[other]
    BY FixpointAssumption DEF PreflightInv, FixpointAssumption
  <1> HIDE DEF new
  <1> QED
    BY <1>4, <1>5, <1>6, PreflightMoves

\* What is merged into a proof is as honest as the answers and the proof before.
LEMMA MergedHonest ==
    ASSUME PreflightInv, NEW p \in Procs, At(p, "repairing"),
           NEW s \in DOMAIN run[p].found
    PROVE  Merged(p, s) \in Proof /\ Honest(Merged(p, s), s, provider)
  <1> DEFINE r == run[p]
             session(d) ==
                 IF d \in DOMAIN r.found[s] THEN Recheck(s, d, r.found[s][d])
                 ELSE IF r.old[s] = None THEN None ELSE r.old[s].sessions[d]
             sessions == [d \in Days |-> session(d)]
             repaired == /\ s \notin r.unrepaired
                         /\ \A d \in Days : sessions[d] \notin {"unstored", "uncovered"}
  <1>1. /\ Told(r.found[s], s, provider) /\ s \in Symbols
        /\ Honest(r.old[s], s, provider)
    BY DEF PreflightInv, Sane, At
  <1>2. Merged(p, s) = [sessions |-> sessions, repaired |-> repaired]
    BY DEF Merged
  <1>3. ASSUME NEW d \in Days
        PROVE  /\ session(d) \in Results \cup {None}
               /\ session(d) = "empty" => d \notin provider[s]
    <2>1. CASE d \in DOMAIN r.found[s]
      BY <1>1, <2>1 DEF Told, Recheck, Results
    <2>2. CASE d \notin DOMAIN r.found[s] /\ r.old[s] = None
      BY <2>2, NoneAssumption DEF Results
    <2>3. CASE d \notin DOMAIN r.found[s] /\ r.old[s] # None
      BY <1>1, <2>3 DEF Honest, Proof
    <2> QED
      BY <2>1, <2>2, <2>3
  <1> HIDE DEF session
  <1> QED
    BY <1>1, <1>2, <1>3 DEF Proof, Honest

LEMMA CertifyKeeps ==
    ASSUME PreflightInv, NEW p \in Procs, Certify(p)
    PROVE  PreflightInv'
  <1> DEFINE r == run[p]
             new == [r EXCEPT !.at = "requalifying", !.old = None,
                              !.found = None, !.unrepaired = {}]
  <1>1. /\ At(p, "repairing") /\ sync[p] = None
        /\ UNCHANGED <<provider, bars, sync, manifest>>
        /\ run' = [run EXCEPT ![p] = new]
    BY DEF Certify, historyVars, PreflightInv
  <1>2. evidence' = [s \in Symbols |->
                        IF s \in DOMAIN r.found THEN Merged(p, s) ELSE r.old[s]]
    BY DEF Certify
  <1>3. \A s \in Symbols : /\ evidence'[s] \in Proof \cup {None}
                           /\ Honest(evidence'[s], s, provider)
    <2> TAKE s \in Symbols
    <2>1. CASE s \in DOMAIN r.found
      BY <1>1, <1>2, <2>1, MergedHonest
    <2>2. CASE s \notin DOMAIN r.found
      <3>1. Honest(r.old[s], s, provider)
        BY <1>1 DEF PreflightInv, Sane, At
      <3>2. evidence'[s] = r.old[s]
        BY <1>2, <2>2
      <3> QED
        BY <3>1, <3>2 DEF Honest
    <2> QED
      BY <2>1, <2>2
  <1>4. evidence' \in [Symbols -> Proof \cup {None}]
    BY <1>2, <1>3
  <1>5. Sane(new, provider, bars)
    <2>1. /\ Sane(r, provider, bars) /\ r.at = "repairing"
      BY <1>1 DEF PreflightInv, At
    <2>2. /\ DOMAIN new = DOMAIN Idle /\ new.at = "requalifying"
          /\ new.rounds = r.rounds /\ new.found = None
      BY <2>1 DEF Sane, Idle
    <2> HIDE DEF new
    <2> QED
      BY <2>1, <2>2 DEF Sane
  <1>6. /\ DOMAIN run' = Procs
        /\ \A other \in Procs : run'[other] = IF other = p THEN new ELSE run[other]
    BY <1>1 DEF PreflightInv
  <1> HIDE DEF new
  <1>7. \A other \in Procs : Sane(run'[other], provider, bars)
    BY <1>5, <1>6 DEF PreflightInv
  <1>8. \A other \in Procs :
            sync[other] # None => run'[other].at = "repairing" /\ run'[other].plan # {}
    BY <1>1, <1>6 DEF PreflightInv, At
  <1> QED
    BY <1>1, <1>3, <1>4, <1>6, <1>7, <1>8 DEF PreflightInv, At

LEMMA RequalifyKeeps ==
    ASSUME PreflightInv, NEW p \in Procs, Requalify(p)
    PROVE  PreflightInv'
  <1> DEFINE r == run[p]
  <1>1. /\ At(p, "requalifying") /\ sync[p] = None
        /\ UNCHANGED <<provider, bars, sync, evidence, manifest>>
    BY DEF Requalify, historyVars, PreflightInv, At
  <1>2. CASE Finish(p, "review") \/ Finish(p, "failed")
    BY <1>1, <1>2, FinishKeeps
  <1>3. ASSUME NEW reviewed,
               run' = [run EXCEPT ![p] =
                   [r EXCEPT !.at = "discovering", !.reviewed = reviewed, !.asked = {}]]
        PROVE  PreflightInv'
    <2> DEFINE new == [r EXCEPT !.at = "discovering", !.reviewed = reviewed, !.asked = {}]
    <2>1. Sane(r, provider, bars) /\ r.at = "requalifying"
      BY <1>1 DEF PreflightInv, At
    <2>2. /\ DOMAIN new = DOMAIN Idle /\ new.at = "discovering"
          /\ new.rounds = r.rounds /\ new.found = r.found
      BY <2>1 DEF Sane, Idle
    <2>3. run' = [run EXCEPT ![p] = new]
      BY <1>3
    <2> HIDE DEF new
    <2>4. Sane(new, provider, bars)
      BY <2>1, <2>2 DEF Sane
    <2> QED
      BY <1>1, <1>3, <2>3, <2>4, PreflightMoves DEF PreflightInv
  <1> QED
    BY <1>2, <1>3 DEF Requalify

LEMMA FinalizeKeeps ==
    ASSUME PreflightInv, NEW p \in Procs, Finalize(p)
    PROVE  PreflightInv'
  <1>1. /\ At(p, "finalizing") /\ sync[p] = None
        /\ UNCHANGED <<provider, bars, sync, evidence, manifest>>
    BY DEF Finalize, historyVars, PreflightInv, At
  <1>2. run[p].rounds # <<>> /\ Stands(Last(run[p].rounds), provider, bars)
    BY <1>1 DEF PreflightInv, Sane, At
  <1>3. \E reason : Finish(p, reason)
    BY DEF Finalize
  <1> QED
    BY <1>1, <1>2, <1>3, FinishKeeps

\* A step of a synchronization.
LEMMA SyncKeeps ==
    ASSUME PreflightInv, UNCHANGED <<provider, evidence, run, manifest>>,
           bars' \in [Symbols -> SUBSET Days], DOMAIN sync' = Syncers,
           \A s \in Symbols : /\ bars[s] \subseteq bars'[s]
                              /\ bars'[s] \subseteq bars[s] \cup provider[s],
           \A p \in Procs : sync'[p] # None =>
               sync[p] # None \/ (At(p, "repairing") /\ run[p].plan # {})
    PROVE  PreflightInv'
  <1>1. \A state : Stands(state, provider, bars) => Stands(state, provider, bars')
    BY StandsOn
  <1>2. \A p \in Procs : Sane(run'[p], provider, bars')
    <2>1. \A p \in Procs : Sane(run[p], provider, bars)
      BY DEF PreflightInv
    <2> QED
      BY <1>1, <2>1 DEF Sane
  <1>3. \A p \in Procs : manifest'[p] # None /\ manifest'[p].ready
                             => Stands(manifest'[p].state, provider, bars')
    BY <1>1 DEF PreflightInv
  <1> QED
    BY <1>2, <1>3 DEF PreflightInv, At

LEMMA ReceiveKeeps ==
    ASSUME PreflightInv, NEW q \in Syncers, NEW invalid, Receive(q, invalid)
    PROVE  PreflightInv'
  <1>1. /\ bars' \in [Symbols -> SUBSET Days]
        /\ \A s \in Symbols : /\ bars[s] \subseteq bars'[s]
                              /\ bars'[s] \subseteq bars[s] \cup provider[s]
    <2> DEFINE received(s) ==
                   {d \in sync[q].plan[s] \cap provider[s] : <<s, d>> \notin invalid}
    <2>1. bars' = [s \in Symbols |->
                      IF s \in Batch(q) THEN bars[s] \cup received(s) ELSE bars[s]]
      BY DEF Receive, AnswerBatch
    <2>2. \A s \in Symbols : /\ bars[s] \subseteq Days /\ received(s) \subseteq Days
                             /\ received(s) \subseteq provider[s]
      BY DEF PreflightInv
    <2> HIDE DEF received
    <2> QED
      BY <2>1, <2>2
  <1>2. /\ UNCHANGED <<provider, evidence, run, manifest>>
        /\ DOMAIN sync' = Syncers /\ sync[q] # None
        /\ \A other \in Syncers \ {q} : sync'[other] = sync[other]
    BY DEF Receive, AnswerBatch, PreflightInv
  <1> QED
    BY <1>1, <1>2, SyncKeeps, FixpointAssumption DEF FixpointAssumption

LEMMA RepairKeeps ==
    ASSUME PreflightInv, NEW p \in Procs, NEW block \in run[p].plan, Repair(p, block)
    PROVE  PreflightInv'
  <1>1. /\ UNCHANGED <<provider, bars, evidence, run, manifest>>
        /\ At(p, "repairing") /\ run[p].plan # {}
        /\ DOMAIN sync' = Syncers
        /\ \A other \in Syncers \ {p} : sync'[other] = sync[other]
    BY DEF Repair, StartSync, PreflightInv
  <1> QED
    BY <1>1, SyncKeeps, FixpointAssumption DEF FixpointAssumption, PreflightInv

\* A preflight dies.
LEMMA DieKeeps ==
    ASSUME PreflightInv, NEW p \in Procs, Die(p)
    PROVE  PreflightInv'
  <1>1. /\ run' = [run EXCEPT ![p] = Idle]
        /\ UNCHANGED <<provider, bars, evidence, manifest>>
        /\ DOMAIN sync' = Syncers /\ sync'[p] = None
        /\ \A other \in Procs \ {p} : sync'[other] = sync[other]
    BY FixpointAssumption DEF Die, PreflightInv, FixpointAssumption
  <1> QED
    BY <1>1, IdleIsSane, PreflightMoves

-----------------------------------------------------------------------------
LEMMA PreflightInitially == Init => PreflightInv
  <1> SUFFICES ASSUME Init PROVE PreflightInv
    OBVIOUS
  <1>1. provider \in [Symbols -> SUBSET Days] /\ bars \in [Symbols -> SUBSET Days]
    BY HistoryAssumption DEF Init, HistoryInit, HistoryAssumption
  <1>2. /\ evidence \in [Symbols -> Proof \cup {None}]
        /\ \A s \in Symbols : Honest(evidence[s], s, provider)
    BY DEF Init, Honest
  <1>3. \A p \in Procs : Sane(run[p], provider, bars)
    BY IdleIsSane DEF Init
  <1>4. \A p \in Procs : sync[p] = None /\ manifest[p] = None
    BY FixpointAssumption DEF Init, HistoryInit, FixpointAssumption
  <1> QED
    BY <1>1, <1>2, <1>3, <1>4 DEF Init, HistoryInit, PreflightInv

LEMMA PreflightKept == PreflightInv /\ [Next]_vars => PreflightInv'
  <1> SUFFICES ASSUME PreflightInv, [Next]_vars PROVE PreflightInv'
    OBVIOUS
  <1>1. ASSUME NEW p \in Procs, Work(p) PROVE PreflightInv'
    <2>1. CASE Discover(p)
      BY <2>1, DiscoverKeeps
    <2>2. CASE Probe(p, {})
      BY <2>2, ProbeKeeps
    <2>3. CASE \E block \in run[p].plan : Repair(p, block)
      BY <2>3, RepairKeeps
    <2>4. CASE Receive(p, {})
      BY <2>4, ReceiveKeeps, FixpointAssumption DEF FixpointAssumption
    <2>5. CASE FinishRepair(p)
      BY <2>5, RepairedKeeps DEF FinishRepair, FinishSync
    <2>6. CASE Certify(p)
      BY <2>6, CertifyKeeps
    <2>7. CASE Requalify(p)
      BY <2>7, RequalifyKeeps
    <2>8. CASE Finalize(p)
      BY <2>8, FinalizeKeeps
    <2>9. CASE Report(p)
      BY <2>9, ReportKeeps
    <2> QED
      BY <1>1, <2>1, <2>2, <2>3, <2>4, <2>5, <2>6, <2>7, <2>8, <2>9 DEF Work
  <1>2. ASSUME NEW p \in Procs, NEW local \in BOOLEAN, Begin(p, local) PROVE PreflightInv'
    BY <1>2, BeginKeeps
  <1>3. ASSUME NEW p \in Procs, NEW failing, Probe(p, failing) PROVE PreflightInv'
    BY <1>3, ProbeKeeps
  <1>4. ASSUME NEW p \in Procs, RepairRaises(p) PROVE PreflightInv'
    BY <1>4, RepairedKeeps DEF RepairRaises
  <1>5. ASSUME NEW p \in Procs, AuditRaises(p) PROVE PreflightInv'
    BY <1>5, FinishKeeps DEF AuditRaises
  <1>6. ASSUME NEW p \in Procs, Die(p) PROVE PreflightInv'
    BY <1>6, DieKeeps
  <1>7. ASSUME NEW q \in Syncers, NEW invalid, Receive(q, invalid) PROVE PreflightInv'
    BY <1>7, ReceiveKeeps
  <1>8. ASSUME NEW q \in Syncers, RequestFails(q) PROVE PreflightInv'
    <2>1. /\ UNCHANGED <<provider, bars, evidence, run, manifest>>
          /\ DOMAIN sync' = Syncers /\ sync[q] # None
          /\ \A other \in Syncers \ {q} : sync'[other] = sync[other]
      BY <1>8 DEF RequestFails, FailBatch, PreflightInv
    <2> QED
      BY <2>1, SyncKeeps, FixpointAssumption DEF FixpointAssumption, PreflightInv
  <1>9. ASSUME NEW q \in Syncers \ Procs, NEW range, NEW incremental,
               OrdinarySync(q, range, incremental) \/ FinishOrdinary(q)
        PROVE  PreflightInv'
    <2>1. /\ UNCHANGED <<provider, bars, evidence, run, manifest>>
          /\ DOMAIN sync' = Syncers
          /\ \A other \in Syncers \ {q} : sync'[other] = sync[other]
      BY <1>9 DEF OrdinarySync, StartSync, FinishOrdinary, FinishSync, PreflightInv
    <2> QED
      BY <2>1, SyncKeeps, FixpointAssumption DEF FixpointAssumption, PreflightInv
  <1>10. CASE UNCHANGED vars
    BY <1>10 DEF vars, historyVars, PreflightInv, At
  <1> QED
    BY <1>1, <1>2, <1>3, <1>4, <1>5, <1>6, <1>7, <1>8, <1>9, <1>10 DEF Next

-----------------------------------------------------------------------------
\* The invariant of the synchronizations and preflights together.
Inv == HistoryInv /\ PreflightInv

THEOREM FixpointInvariant == Spec => []Inv
  <1>1. Init => Inv
    BY HistoryInitially, PreflightInitially DEF Inv
  <1>2. Inv /\ [Next]_vars => Inv'
    BY HistoryKept, PreflightKept DEF Inv
  <1> QED
    BY <1>1, <1>2, PTL DEF Spec

(***************************************************************************)
(* A range that is recorded as proven complete is stored without a hole,   *)
(* whatever commands overlap, fail or die (_sync_daily_history).           *)
(***************************************************************************)
THEOREM CoverageIsHonest == Spec => []CoverageHonest
  <1>1. Inv => CoverageHonest
    BY DEF Inv, HistoryInv, Sound, CoverageHonest
  <1> QED
    BY <1>1, FixpointInvariant, PTL

(***************************************************************************)
(* No failed request, repair or death, and no certificate of another       *)
(* process, excludes a symbol whose history the provider has               *)
(* (qualify_daily, audit_and_repair).                                      *)
(***************************************************************************)
THEOREM QuarantineIsHonest == Spec => []QuarantineHonest
  <1>1. Inv => QuarantineHonest
    BY QuarantinedLacks DEF Inv, QuarantineHonest
  <1> QED
    BY <1>1, FixpointInvariant, PTL

(***************************************************************************)
(* A manifest a validation accepts rests on inputs that are all stored,    *)
(* whoever changes the database after it was written (verify_trace).       *)
(***************************************************************************)
THEOREM VerifiedManifests == Spec => []VerifiedIsComplete
  <1>1. Inv => VerifiedIsComplete
    <2> SUFFICES ASSUME Inv, NEW p \in Procs, Accepts(manifest[p]) PROVE Resolved
      BY DEF VerifiedIsComplete
    <2>1. Settled(manifest[p].state) /\ State(Now) = manifest[p].state
      BY DEF Inv, PreflightInv, Stands, Accepts
    <2> QED
      BY <2>1, SettledIsResolved
  <1> QED
    BY <1>1, FixpointInvariant, PTL

(***************************************************************************)
(* A verdict is a success only if it is true of the database at the        *)
(* recheck (prepare_fixpoint); nothing is claimed of the moment at which   *)
(* its report is written.                                                  *)
(***************************************************************************)
THEOREM SuccessesAreRechecked == Spec => SuccessRechecked
  <1> DEFINE Success(p) ==
                 /\ run'[p].at = "reporting" /\ run'[p].reason = "success"
                 /\ run'[p] # run[p]
             True(p) == Resolved /\ Last(run'[p].rounds).excluded = Now.excluded
             Rechecked == \A p \in Procs : Success(p) => True(p)
  <1>1. Inv /\ [Next]_vars => [Rechecked]_vars
    <2> SUFFICES ASSUME Inv, Next, NEW p \in Procs, Success(p) PROVE True(p)
      OBVIOUS
    <2>1. ASSUME NEW q \in Procs, NEW r, run' = [run EXCEPT ![q] = r]
          PROVE  p = q /\ r.at = "reporting" /\ r.reason = "success"
      BY <2>1 DEF Inv, PreflightInv
    <2>2. ASSUME NEW q \in Procs, NEW reason, Finish(q, reason)
          PROVE  p = q /\ reason = "success" /\ run'[p].rounds = run[q].rounds
      <3> DEFINE new == [Idle EXCEPT
                     !.at = "reporting", !.reason = reason, !.rounds = run[q].rounds]
      <3>1. run' = [run EXCEPT ![q] = new]
        BY <2>2 DEF Finish
      <3>2. new.reason = reason /\ new.rounds = run[q].rounds
        BY DEF Idle
      <3>3. run'[q] = new
        BY <3>1 DEF Inv, PreflightInv
      <3> HIDE DEF new
      <3> QED
        BY <2>1, <3>1, <3>2, <3>3
    <2>3. ASSUME NEW q \in Procs, Finalize(q) PROVE True(p)
      <3>1. /\ At(q, "finalizing") /\ Unchanged(Last(run[q].rounds))
            /\ Finish(q, "success")
        BY <2>2, <2>3 DEF Finalize
      <3>2. /\ Settled(Last(run[q].rounds))
            /\ State(Now) = Last(run[q].rounds)
        BY <3>1 DEF Inv, PreflightInv, Sane, Stands, At, Unchanged
      <3>3. run'[p].rounds = run[q].rounds
        BY <2>2, <3>1
      <3> QED
        BY <3>2, <3>3, SettledIsResolved
    <2>4. ASSUME NEW q \in Procs, Discover(q) PROVE FALSE
      <3>1. ASSUME NEW at \in {"auditing", "finalizing"}, NEW rounds, NEW asked,
                   run' = [run EXCEPT ![q] =
                       [run[q] EXCEPT !.at = at, !.rounds = rounds, !.asked = asked]]
            PROVE  FALSE
        <4>1. [run[q] EXCEPT !.at = at, !.rounds = rounds, !.asked = asked].at = at
          BY DEF Inv, PreflightInv, Sane, Idle
        <4> QED
          BY <2>1, <3>1, <4>1
      <3>2. ASSUME NEW reason, reason # "success", Finish(q, reason) PROVE FALSE
        BY <2>2, <3>2
      <3> QED
        BY <2>4, <3>1, <3>2 DEF Discover
    <2>5. ASSUME NEW q \in Procs, Requalify(q) PROVE FALSE
      <3>1. ASSUME NEW reviewed,
                   run' = [run EXCEPT ![q] = [run[q] EXCEPT
                       !.at = "discovering", !.reviewed = reviewed, !.asked = {}]]
            PROVE  FALSE
        <4>1. [run[q] EXCEPT !.at = "discovering",
                             !.reviewed = reviewed, !.asked = {}].at = "discovering"
          BY DEF Inv, PreflightInv, Sane, Idle
        <4> QED
          BY <2>1, <3>1, <4>1
      <3>2. ASSUME NEW reason \in {"review", "failed"}, Finish(q, reason) PROVE FALSE
        BY <2>2, <3>2
      <3> QED
        BY <2>5, <3>1, <3>2 DEF Requalify
    <2>6. ASSUME NEW q \in Procs, AuditRaises(q) PROVE FALSE
      BY <2>2, <2>6 DEF AuditRaises
    <2>7. ASSUME NEW q \in Procs, NEW local, Begin(q, local) PROVE FALSE
      BY <2>1, <2>7 DEF Begin, Idle
    <2>8. ASSUME NEW q \in Procs, Report(q) \/ Die(q) PROVE FALSE
      <3>1. run' = [run EXCEPT ![q] = Idle]
        BY <2>8 DEF Report, Die
      <3> QED
        BY <2>1, <3>1 DEF Idle
    <2>9. ASSUME NEW q \in Procs, \/ \E failing : Probe(q, failing)
                                  \/ FinishRepair(q) \/ RepairRaises(q) \/ Certify(q)
          PROVE  FALSE
      <3>1. /\ DOMAIN run[q] = DOMAIN Idle
            /\ sync[q] # None => run[q].at = "repairing"
        BY DEF Inv, PreflightInv, Sane, At
      <3>2. PICK r : /\ run' = [run EXCEPT ![q] = r]
                     /\ r.at \in {"repairing", "requalifying"}
        <4>1. CASE \E failing : Probe(q, failing)
          BY <3>1, <4>1 DEF Probe, Idle
        <4>2. CASE FinishRepair(q) \/ RepairRaises(q)
          <5>1. PICK ok : Repaired(q, ok)
            BY <4>2 DEF FinishRepair, RepairRaises
          <5>2. PICK plan, unrepaired : run' = [run EXCEPT ![q] =
                    [run[q] EXCEPT !.plan = plan, !.unrepaired = unrepaired]]
            BY <5>1 DEF Repaired
          <5>3. run[q].at = "repairing"
            BY <3>1, <4>2 DEF FinishRepair, FinishSync, RepairRaises
          <5>4. [run[q] EXCEPT !.plan = plan, !.unrepaired = unrepaired].at = "repairing"
            BY <3>1, <5>3 DEF Idle
          <5> QED
            BY <5>2, <5>4
        <4>3. CASE Certify(q)
          BY <3>1, <4>3 DEF Certify, Idle
        <4> QED
          BY <2>9, <4>1, <4>2, <4>3
      <3> QED
        BY <2>1, <3>2
    <2>10. ASSUME NEW q, \/ \E block \in run[q].plan : Repair(q, block)
                         \/ \E invalid : Receive(q, invalid)
                         \/ RequestFails(q) \/ FinishOrdinary(q)
                         \/ \E range, incremental : OrdinarySync(q, range, incremental)
          PROVE  FALSE
      BY <2>10 DEF Repair, Receive, RequestFails, OrdinarySync, FinishOrdinary
    <2> HIDE DEF Success, True
    <2> QED
      BY <2>3, <2>4, <2>5, <2>6, <2>7, <2>8, <2>9, <2>10 DEF Next, Work
  <1> QED
    BY <1>1, FixpointInvariant, PTL DEF Spec, SuccessRechecked

(***************************************************************************)
(* What a success has written stays true of its inputs, whatever others    *)
(* certify and store after its recheck (run_pairs_stat_arb_v1,             *)
(* prepare_fixpoint).                                                      *)
(***************************************************************************)
THEOREM SuccessesStand == Spec => []SuccessStands
  <1>1. Inv => SuccessStands
    BY DEF Inv, PreflightInv, Stands, SuccessStands
  <1> QED
    BY <1>1, FixpointInvariant, PTL

(***************************************************************************)
(* Types are kept, no preflight exceeds its rounds, and a process          *)
(* synchronizes only while it repairs.                                     *)
(***************************************************************************)
THEOREM FixpointTypeCorrect == Spec => []TypeOK
  <1>1. Inv => TypeOK
    <2> SUFFICES ASSUME Inv PROVE TypeOK
      OBVIOUS
    <2>1. ASSUME NEW p \in Procs, run[p].found # None, NEW s \in DOMAIN run[p].found
          PROVE  DOMAIN run[p].found[s] \subseteq Days
      BY <2>1 DEF Inv, PreflightInv, Sane, Told
    <2>2. \A p \in Procs : Len(run[p].rounds) <= MaxRounds
      BY DEF Inv, PreflightInv, Sane
    <2> QED
      BY <2>1, <2>2 DEF TypeOK, Inv, HistoryInv, PreflightInv, At
  <1> QED
    BY <1>1, FixpointInvariant, PTL

=============================================================================
