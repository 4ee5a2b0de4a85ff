--------------------------- MODULE DailyFixpoint ---------------------------
(***************************************************************************)
(* The daily qualification of the pairs research                           *)
(* (backtest/pairs_stat_arb_v1_daily_fixpoint.py): discover what the       *)
(* selection requires of the stored daily bars, ask the provider for what  *)
(* is new and missing, store what it has, certify what it lacks, and       *)
(* discover again, for a bounded number of rounds.  A symbol whose missing *)
(* history the provider lacks is excluded; one that could not be asked for *)
(* blocks the run.  Preflights may overlap, and ordinary synchronizations  *)
(* of daily history come at any time.                                      *)
(*                                                                         *)
(* One SIC2 group, ranked by number, and no identity is in doubt.          *)
(***************************************************************************)
EXTENDS DailyHistory, Sequences

CONSTANTS
    Signals,       \* the sessions for which pairs are selected
    TopN,
    Lookback,      \* adv_lookback_sessions
    Calibration,   \* calibration_sessions
    MaxExcluded,   \* a tenth of the universe
    MaxRounds,     \* MAX_DAILY_QUALIFICATION_ROUNDS
    Procs,
    Ranges         \* what ordinary synchronizations ask for

ASSUME FixpointAssumption ==
    /\ Signals \subseteq Days /\ Ranges \subseteq Days \X Days
    /\ TopN \in Nat /\ Lookback \in Nat \ {0} /\ Calibration \in Nat
    /\ MaxExcluded \in Nat /\ MaxRounds \in Nat \ {0}
    /\ Procs \subseteq Syncers

VARIABLES
    evidence,      \* the certificate: what was found out about each symbol
    run,           \* the preflight each process is at
    manifest       \* the manifest each process has written last

vars == <<historyVars, evidence, run, manifest>>

\* What an audit has found out about a session a symbol is required for.
Results == {"returned", "unstored", "uncovered", "empty", "failed"}

ASSUME NoneAssumption == None \notin Results

\* A proof: the sessions audited, and whether the repairs were completed.
Proof == [sessions : [Days -> Results \cup {None}], repaired : BOOLEAN]

Audited(proof) == {d \in Days : proof.sessions[d] # None}

-----------------------------------------------------------------------------
\* qualify_daily: the standing of a symbol, from its proof and the stored bars.
Standing(s, proofs, stored) ==
    LET proof == proofs[s]
        missing == Audited(proof) \ stored[s] IN
    IF proof = None THEN "usable"
    ELSE IF ~proof.repaired \/ \E d \in Days : proof.sessions[d] = "failed"
        THEN "failed"
    ELSE IF missing = {} THEN "repaired"
    ELSE IF \A d \in missing : proof.sessions[d] = "empty" THEN "quarantined"
    ELSE "failed"

WithStanding(standing, proofs, stored) ==
    {s \in Symbols : Standing(s, proofs, stored) = standing}

\* Too many exclusions want a review.
TooMany(excluded) == Cardinality(excluded) > MaxExcluded

\* The bars that must be there for a symbol to be ranked on a session.
Needed(day) == (day - Lookback + 1 .. day) \cup {day - 1}

\* selection_inputs: what is missing since the symbol was first observed.
Gaps(s, day, stored) ==
    {d \in Needed(day) \ stored[s] : \E first \in stored[s] : first <= d}

\* discover_pairs: the members of the group on a session; a gap of one symbol
\* leaves the whole group unresolved.
Members(day, universe, stored) ==
    LET ranked == {s \in universe : Needed(day) \subseteq stored[s]} IN
    IF \E s \in universe : Gaps(s, day, stored) # {} THEN {}
    ELSE {s \in ranked : Cardinality({r \in ranked : r < s}) < TopN}

\* daily_requirements: the inputs a selection rests on, with their roles.
Requirements(universe, stored) ==
    UNION {
        LET members == Members(day, universe, stored)
            paired == IF Cardinality(members) < 2 THEN {} ELSE members IN
        (UNION {{s} \X Gaps(s, day, stored) \X {"gap"} : s \in universe})
        \cup members \X Needed(day) \X {"selection"}
        \cup paired \X (Days \cap (day - Calibration .. day)) \X {"pair"} :
        day \in Signals}

\* prepare_pairs_data: the selection's inputs that are not stored.  Nothing is
\* selected before the standing of every symbol is known.
Discovery(proofs, stored) ==
    LET excluded == WithStanding("quarantined", proofs, stored)
        failed == WithStanding("failed", proofs, stored)
        universe == Symbols \ excluded
        complete == failed = {} /\ ~TooMany(excluded)
        unresolved == {key \in Requirements(universe, stored) :
                           key[2] \notin stored[key[1]]} IN
    [excluded |-> excluded, failed |-> failed, universe |-> universe,
     complete |-> complete, unresolved |-> IF complete THEN unresolved ELSE {},
     source |-> [s \in universe |-> IF complete THEN stored[s] ELSE {}]]

\* state_inputs: what rounds are compared by.  The required inputs follow from
\* the members of the universe and the bars they have.
State(d) ==
    [eligible |-> d.universe \ (d.failed \cup {key[1] : key \in d.unresolved}),
     excluded |-> d.excluded, evidence |-> evidence, source |-> d.source]

Now == Discovery(evidence, bars)

SameMembers(a, b) == a.eligible = b.eligible /\ a.excluded = b.excluded

\* The inputs are all there, and nothing stands in the way of using them.
Resolved == Now.complete /\ Now.unresolved = {}

-----------------------------------------------------------------------------
\* rounds: the states discovered so far.  old, found, unrepaired: the evidence an
\* audit started from, what it was told, and whose repair has failed.  reason: the
\* verdict that is to be reported.
Idle == [at |-> "idle", local |-> FALSE, rounds |-> <<>>, reviewed |-> {},
         asked |-> {}, old |-> None, found |-> None, plan |-> {},
         unrepaired |-> {}, reason |-> None]

Init ==
    /\ HistoryInit
    /\ evidence = [s \in Symbols |-> None]
    /\ run = [p \in Procs |-> Idle]
    /\ manifest = [p \in Procs |-> None]

At(p, at) == run[p].at = at

Last(rounds) == rounds[Len(rounds)]

\* finish: the verdict of a preflight, with its rounds; nothing is written yet.
Finish(p, reason) ==
    run' = [run EXCEPT ![p] = [Idle EXCEPT
               !.at = "reporting", !.reason = reason, !.rounds = run[p].rounds]]

\* --local-only asks no provider.
Begin(p, local) ==
    /\ At(p, "idle")
    /\ run' = [run EXCEPT ![p] = [Idle EXCEPT !.at = "discovering", !.local = local]]
    /\ UNCHANGED <<historyVars, evidence, manifest>>

\* The earlier rounds that found this.
Seen(rounds, Same(_)) == {i \in DOMAIN rounds : Same(rounds[i])}

\* Mutant of AtLimit: one round too many.
AtLimitLate(number) == number > MaxRounds

AtLimit(number) == number = MaxRounds

\* iterate: why the iteration ends with a discovery, or that it goes on.
Reason(d, rounds, reviewed, local) ==
    LET number == Len(rounds) + 1
        state == State(d)
        members == Seen(rounds, LAMBDA r : SameMembers(r, state))
        states == Seen(rounds, LAMBDA r : r = state) IN
    IF TooMany(d.excluded) THEN "review"
    ELSE IF ~d.complete THEN "failed"
    ELSE IF members # {} /\ Max(members) # number - 1 THEN "cycle"
    ELSE IF d.unresolved = {} THEN "success"
    ELSE IF states # {}
        THEN IF Max(states) = number - 1 THEN "no progress" ELSE "cycle"
    ELSE IF AtLimit(number) THEN "max rounds"
    ELSE IF d.unresolved \subseteq reviewed THEN "no progress"
    ELSE IF local THEN "failed"
    ELSE "audit"

Discover(p) ==
    LET r == run[p] IN
    /\ At(p, "discovering")
    /\ \E d \in {Now} : \E reason \in {Reason(d, r.rounds, r.reviewed, r.local)} :
        LET after(at, asked) ==
                run' = [run EXCEPT ![p] = [r EXCEPT
                    !.at = at, !.rounds = Append(@, State(d)), !.asked = asked]] IN
        CASE reason = "audit" -> after("auditing", d.unresolved \ r.reviewed)
          [] reason = "success" -> after("finalizing", {})
          [] OTHER -> Finish(p, reason)
    /\ UNCHANGED <<historyVars, evidence, manifest>>

-----------------------------------------------------------------------------
\* What is still missing of what an audit was asked for.
Open(p, s) == {d \in Days : \E key \in run[p].asked : key[1] = s /\ key[2] = d}
                  \ bars[s]

\* Answers of a completed audit are used again.
Cached(proof) ==
    IF proof = None \/ ~proof.repaired THEN {}
    ELSE {d \in Days : proof.sessions[d] \in {"returned", "empty"}}

\* Mutant of Answer: a request that failed has found nothing.
AnswerEmpty(s, d, failing) ==
    IF s \in failing THEN "empty"
    ELSE IF d \in provider[s] THEN "returned" ELSE "empty"

\* The provider's answer about a session of a symbol.
Answer(s, d, failing) ==
    IF s \in failing THEN "failed"
    ELSE IF d \in provider[s] THEN "returned" ELSE "empty"

\* repair_plan: the longest runs of successive sessions the provider has and
\* that are not stored.
Blocks(s, found) ==
    LET positive == {d \in DOMAIN found : found[d] = "returned"}
        runs == {r \in positive \X positive :
                    /\ r[1] <= r[2] /\ r[1] .. r[2] \subseteq positive
                    /\ r[1] - 1 \notin positive /\ r[2] + 1 \notin positive} IN
    {[symbol |-> s, first |-> r[1], last |-> r[2]] : r \in runs}

\* audit_and_repair, up to the repair plan: each symbol is asked for once.
Probe(p, failing) ==
    LET r == run[p]
        found == [s \in {t \in Symbols : Open(p, t) # {}} |->
                     [d \in Open(p, s) |->
                         IF d \in Cached(evidence[s]) THEN evidence[s].sessions[d]
                         ELSE Answer(s, d, failing)]] IN
    /\ At(p, "auditing")
    /\ \A s \in failing : s \in DOMAIN found /\ ~(Open(p, s) \subseteq Cached(evidence[s]))
    /\ IF failing = {} THEN UNCHANGED events ELSE Mishap
    /\ run' = [run EXCEPT ![p] =
           [r EXCEPT !.at = "repairing", !.old = evidence, !.found = found,
                     !.plan = UNION {Blocks(s, found[s]) : s \in DOMAIN found},
                     !.unrepaired = {}]]
    /\ UNCHANGED <<provider, bars, coverage, sync, evidence, manifest>>

\* The blocks of the plan are synchronized one by one, in full.
Repair(p, block) ==
    LET plan == run[p].plan
        before(a, b) ==
            a.symbol < b.symbol \/ (a.symbol = b.symbol /\ a.first < b.first) IN
    /\ At(p, "repairing") /\ block \in plan
    /\ \A other \in plan \ {block} : before(block, other)
    /\ StartSync(p, {block.symbol}, block.first, block.last, FALSE)
    /\ UNCHANGED <<provider, bars, coverage, events, evidence, run, manifest>>

\* The block whose synchronization is under way.
Current(p) == CHOOSE block \in run[p].plan :
    /\ block.symbol \in DOMAIN sync[p].plan
    /\ block.first = sync[p].first

Repaired(p, ok) ==
    run' = [run EXCEPT ![p] = [@ EXCEPT
               !.plan = @ \ {Current(p)},
               !.unrepaired = IF ok THEN @ ELSE @ \cup {Current(p).symbol}]]

\* A block is done; a failed request or an invalid bar spoils the repair.
FinishRepair(p) ==
    /\ FinishSync(p)
    /\ Repaired(p, Succeeded(sync[p]))
    /\ UNCHANGED <<provider, bars, events, evidence, manifest>>

\* The synchronization raises, on its way or when it writes the coverage.
RepairRaises(p) ==
    /\ sync[p] # None /\ Mishap
    /\ sync' = [sync EXCEPT ![p] = None]
    /\ Repaired(p, FALSE)
    /\ UNCHANGED <<provider, bars, coverage, evidence, manifest>>

\* Mutant of Recheck: the bars are those of before the repair.
RecheckEarly(s, d, answer) == IF answer = "returned" THEN "unstored" ELSE answer

\* What the provider has must be stored and covered by now.
Recheck(s, d, answer) ==
    IF answer # "returned" THEN answer
    ELSE IF d \notin bars[s] THEN "unstored"
    ELSE IF ~Asked(coverage[s], d) THEN "uncovered"
    ELSE "returned"

\* The proof of a symbol with the answers of this audit merged into it.
Merged(p, s) ==
    LET r == run[p]
        sessions == [d \in Days |->
            IF d \in DOMAIN r.found[s]
            THEN Recheck(s, d, r.found[s][d])
            ELSE IF r.old[s] = None THEN None ELSE r.old[s].sessions[d]] IN
    [sessions |-> sessions,
     repaired |-> /\ s \notin r.unrepaired
                  /\ \A d \in Days : sessions[d] \notin {"unstored", "uncovered"}]

\* The local recheck; the whole certificate is written in one go.
Certify(p) ==
    LET r == run[p] IN
    /\ At(p, "repairing") /\ r.plan = {}
    /\ evidence' = [s \in Symbols |->
                       IF s \in DOMAIN r.found THEN Merged(p, s) ELSE r.old[s]]
    /\ run' = [run EXCEPT ![p] = [r EXCEPT !.at = "requalifying", !.old = None,
                                           !.found = None, !.unrepaired = {}]]
    /\ UNCHANGED <<historyVars, manifest>>

\* The universe of the discovery is qualified again, before the next round.
Requalify(p) ==
    LET r == run[p]
        before == Last(r.rounds).excluded
        excluded == before \cup WithStanding("quarantined", evidence, bars)
        failed == WithStanding("failed", evidence, bars) \ before IN
    /\ At(p, "requalifying")
    /\ IF TooMany(excluded) THEN Finish(p, "review")
       ELSE IF failed # {} THEN Finish(p, "failed")
       ELSE run' = [run EXCEPT ![p] =
                [r EXCEPT !.at = "discovering",
                          !.reviewed = @ \cup r.asked, !.asked = {}]]
    /\ UNCHANGED <<historyVars, evidence, manifest>>

\* Mutant of Unchanged: the inputs are not looked at again.
UnchangedTrusted(state) == TRUE

\* The inputs are still those of the last discovery.
Unchanged(state) == \E d \in {Now} : State(d) = state

\* prepare_fixpoint: a success is one only if its inputs are found unchanged.
Finalize(p) ==
    /\ At(p, "finalizing")
    /\ Finish(p, IF Unchanged(Last(run[p].rounds)) THEN "success" ELSE "failed")
    /\ UNCHANGED <<historyVars, evidence, manifest>>

\* run_pairs_stat_arb_v1: the report is written once the verdict is known, and no
\* lock keeps others from changing the database in between.  Of a process the last
\* manifest that is a success or wants a review is kept.
Report(p) ==
    /\ At(p, "reporting")
    /\ manifest' = [manifest EXCEPT ![p] =
           CASE run[p].reason = "success" ->
                    [ready |-> TRUE, state |-> Last(run[p].rounds)]
             [] run[p].reason = "review" -> [ready |-> FALSE, state |-> "review"]
             [] OTHER -> @]
    /\ run' = [run EXCEPT ![p] = Idle]
    /\ UNCHANGED <<historyVars, evidence>>

\* The audit raises: nothing is certified.
AuditRaises(p) ==
    /\ run[p].at \in {"auditing", "repairing"} /\ sync[p] = None /\ Mishap
    /\ Finish(p, "failed")
    /\ UNCHANGED <<provider, bars, coverage, sync, evidence, manifest>>

Die(p) ==
    /\ ~At(p, "idle") /\ Mishap
    /\ run' = [run EXCEPT ![p] = Idle]
    /\ sync' = [sync EXCEPT ![p] = None]
    /\ UNCHANGED <<provider, bars, coverage, evidence, manifest>>

\* The steps of a synchronization, ordinary or a repair.
Receive(q, invalid) ==
    /\ AnswerBatch(q, invalid)
    /\ IF invalid = {} THEN UNCHANGED events ELSE Mishap
    /\ UNCHANGED <<provider, coverage, evidence, run, manifest>>

RequestFails(q) ==
    /\ FailBatch(q) /\ Mishap
    /\ UNCHANGED <<provider, bars, coverage, evidence, run, manifest>>

\* An ordinary synchronization, of every symbol.
OrdinarySync(q, range, incremental) ==
    /\ mishaps + syncs < MaxEvents /\ syncs' = syncs + 1
    /\ StartSync(q, Symbols, range[1], range[2], incremental)
    /\ UNCHANGED <<provider, bars, coverage, mishaps, evidence, run, manifest>>

FinishOrdinary(q) ==
    /\ FinishSync(q)
    /\ UNCHANGED <<provider, bars, events, evidence, run, manifest>>

\* Mutant of Accepts: the trace is believed.
AcceptsTrace(m) == m # None /\ m.ready

\* verify_trace: whether a validation accepts a manifest.
Accepts(m) == m # None /\ m.ready /\ \E d \in {Now} : State(d) = m.state

-----------------------------------------------------------------------------
Work(p) ==
    \/ Discover(p) \/ Probe(p, {}) \/ (\E block \in run[p].plan : Repair(p, block))
    \/ Receive(p, {}) \/ FinishRepair(p)
    \/ Certify(p) \/ Requalify(p) \/ Finalize(p) \/ Report(p)

Next ==
    \/ \E p \in Procs :
        \/ \E local \in BOOLEAN : Begin(p, local)
        \/ Work(p)
        \/ \E failing \in SUBSET Symbols \ {{}} : Probe(p, failing)
        \/ RepairRaises(p) \/ AuditRaises(p) \/ Die(p)
    \/ \E q \in Syncers :
        \/ \E bad \in Symbols \X Days : Receive(q, {bad})
        \/ RequestFails(q)
    \/ \E q \in Syncers \ Procs :
        \/ \E range \in Ranges, incremental \in BOOLEAN :
               OrdinarySync(q, range, incremental)
        \/ Receive(q, {})
        \/ FinishOrdinary(q)

Spec == Init /\ [][Next]_vars

\* Something goes on while a preflight is under way, and preflights that may ask
\* the provider are begun again and again.
FairSpec ==
    /\ Spec
    /\ WF_vars(\E p \in Procs : Work(p))
    /\ SF_vars(\E p \in Procs : Begin(p, FALSE))

-----------------------------------------------------------------------------
TypeOK ==
    /\ bars \in [Symbols -> SUBSET Days]
    /\ coverage \in [Symbols -> Coverage \cup {None}]
    /\ \A s \in Symbols : evidence[s] \in Proof \cup {None}
    /\ \A p \in Procs :
        /\ Len(run[p].rounds) <= MaxRounds
        /\ sync[p] # None => run[p].at = "repairing" /\ run[p].plan # {}
        /\ run[p].found # None =>
               \A s \in DOMAIN run[p].found :
                   DOMAIN run[p].found[s] \subseteq Days

(***************************************************************************)
(* A symbol is excluded only when the provider lacks every one of its      *)
(* required sessions that is not stored: no failed request, failed repair  *)
(* or death, and no certificate of another process, makes unknown history  *)
(* unavailable (pairs_stat_arb_v1_daily_qualification.qualify_daily,       *)
(* pairs_stat_arb_v1_daily_qualification_audit.audit_and_repair).          *)
(***************************************************************************)
QuarantineHonest ==
    \A s \in WithStanding("quarantined", evidence, bars) :
        /\ (Audited(evidence[s]) \ bars[s]) \cap provider[s] = {}
        /\ Audited(evidence[s]) \ bars[s] # {}

(***************************************************************************)
(* As long as a validation would accept a manifest, every input its        *)
(* selection requires is stored, and no symbol is left undecided, whatever *)
(* was stored or certified since it was written (verify_trace).            *)
(***************************************************************************)
VerifiedIsComplete ==
    \A p \in Procs : Accepts(manifest[p]) => Resolved

(***************************************************************************)
(* A verdict is a success only if it is true of the database at the        *)
(* recheck, although others may have changed it since the discovery: the   *)
(* comparison of the states leaves no input missing and nobody undecided   *)
(* (prepare_fixpoint).  Of the later moment of writing it says nothing.    *)
(***************************************************************************)
SuccessRechecked ==
    [][\A p \in Procs :
           /\ run'[p].at = "reporting" /\ run'[p].reason = "success"
           /\ run'[p] # run[p]
           => Resolved /\ Last(run'[p].rounds).excluded = Now.excluded]_vars

(***************************************************************************)
(* What a success has written stays true of its inputs, although others    *)
(* certify and store between its recheck, its writing and its use: every   *)
(* bar its selection requires is stored, and a symbol it excludes lacks a  *)
(* session that it was audited for and that nobody can provide             *)
(* (run_pairs_stat_arb_v1, prepare_fixpoint, qualify_daily).               *)
(***************************************************************************)
SuccessStands ==
    \A p \in Procs :
        manifest[p] # None /\ manifest[p].ready =>
            LET state == manifest[p].state IN
            /\ \A key \in Requirements(state.eligible, state.source) :
                   key[2] \in bars[key[1]]
            /\ \A s \in state.excluded :
                   \E d \in Audited(state.evidence[s]) : d \notin provider[s] \cup bars[s]

(***************************************************************************)
(* As long as nothing fails, preflights that are started again and again   *)
(* come to a success or to a review: neither the round limit nor a cycle   *)
(* that is reported in good faith keeps them from it.  Only one thing may: *)
(* that a session was repaired and its coverage lost, see RepairedIsUsable *)
(* (iterate).                                                              *)
(***************************************************************************)
Converges ==
    (mishaps = 0) ~>
        \/ mishaps > 0
        \/ \E p \in Procs : manifest[p] # None
        \/ \E s \in Symbols : evidence[s] # None
               /\ \E d \in Days : evidence[s].sessions[d] = "uncovered"

(***************************************************************************)
(* "Returned bars receive targeted repair and remain usable when ingestion *)
(* succeeds": unless something has failed, a symbol is usable once every   *)
(* session it was audited for is stored (audit_and_repair, qualify_daily). *)
(***************************************************************************)
RepairedIsUsable ==
    mishaps = 0 =>
        \A s \in Symbols :
            evidence[s] # None /\ Audited(evidence[s]) \subseteq bars[s]
            => Standing(s, evidence, bars) = "repaired"

=============================================================================
