---------------------------- MODULE DailyHistory ----------------------------
(***************************************************************************)
(* The synchronization of daily history (_sync_daily_history, data/sync.py)*)
(* and the coverage it keeps per symbol: one range of sessions, and whether*)
(* it is proven complete.  A command reads the coverage when it starts,    *)
(* asks the provider batch by batch, and writes the coverage at its end    *)
(* from what it has read; several commands may be under way.               *)
(*                                                                         *)
(* Sessions are successive days; feed and adjustment are always the same.  *)
(* A provider always has the same bars; an invalid bar is not stored, and  *)
(* stored bars are usable ones.                                            *)
(***************************************************************************)
EXTENDS Integers, FiniteSets, FiniteSetsExt

CONSTANTS
    Symbols,       \* numbers, in the order of the names
    Days,          \* the sessions history is kept of
    Overlap,       \* daily_overlap_bars
    BatchSize,     \* market_data_batch_size
    Worlds,        \* what a provider may have, and what may be stored of it
    Syncers,       \* who may synchronize
    None,
    MaxEvents      \* bound: failures, deaths and ordinary synchronizations

ASSUME HistoryAssumption ==
    /\ Symbols \subseteq Nat /\ Days \subseteq Nat
    /\ Overlap \in Nat /\ BatchSize \in Nat \ {0} /\ MaxEvents \in Nat
    /\ Worlds \subseteq [provider : [Symbols -> SUBSET Days],
                         stored : [Symbols -> SUBSET Days]]

VARIABLES
    provider,      \* the daily bars the provider has
    bars,          \* the daily bars stored
    coverage,      \* daily_history_coverage: a range per symbol
    sync,          \* the synchronization each syncer is at
    mishaps,       \* failures and deaths so far
    syncs          \* ordinary synchronizations so far

events == <<mishaps, syncs>>

historyVars == <<provider, bars, coverage, sync, events>>

Coverage == [first : Days, last : Days, complete : BOOLEAN]

HistoryInit ==
    /\ \E world \in Worlds : provider = world.provider /\ bars = world.stored
    /\ coverage = [s \in Symbols |-> None]
    /\ sync = [q \in Syncers |-> None]
    /\ mishaps = 0 /\ syncs = 0

Mishap ==
    /\ mishaps + syncs < MaxEvents
    /\ mishaps' = mishaps + 1 /\ UNCHANGED syncs

-----------------------------------------------------------------------------
\* _daily_range_verified: the range is proven complete.
Proven(value, first, last) ==
    /\ value # None /\ value.complete
    /\ value.first <= first /\ last <= value.last

\* provider_range_verified: the range has been asked for, whatever was found.
Asked(value, day) == value # None /\ value.first <= day /\ day <= value.last

\* Mutant of CoverageValue: ranges with a hole between them are joined.
CoverageSpanning(previous, first, last, complete) ==
    IF complete /\ previous # None /\ previous.complete
    THEN [first |-> Min({first, previous.first}), last |-> Max({last, previous.last}),
          complete |-> TRUE]
    ELSE [first |-> first, last |-> last, complete |-> complete]

\* _daily_coverage_value: proofs that meet are joined, any other value is
\* replaced.
CoverageValue(previous, first, last, complete) ==
    IF /\ complete /\ previous # None /\ previous.complete
       /\ previous.first <= last + 1 /\ first <= previous.last + 1
    THEN [first |-> Min({first, previous.first}), last |-> Max({last, previous.last}),
          complete |-> TRUE]
    ELSE [first |-> first, last |-> last, complete |-> complete]

\* The sessions to ask for: all of them, or of a range proven before the last
\* few, for corrections.
Planned(s, first, last, incremental) ==
    IF ~(incremental /\ Proven(coverage[s], first, last)) THEN first .. last
    ELSE IF bars[s] \cap (first .. last) = {} THEN {}
    ELSE Max({first, last + 1 - Overlap}) .. last

\* seen: the coverage when it started.  queue: who is still to be asked for.
\* short: whose answer lacked a session.  clean: no bar was invalid.
StartSync(q, symbols, first, last, incremental) ==
    LET plan == [s \in symbols |-> Planned(s, first, last, incremental)] IN
    /\ sync[q] = None
    /\ symbols \subseteq Symbols /\ {first, last} \subseteq Days /\ first <= last
    /\ sync' = [sync EXCEPT ![q] =
           [first |-> first, last |-> last, plan |-> plan,
            seen |-> [s \in symbols |-> coverage[s]],
            queue |-> {s \in symbols : plan[s] # {}},
            failed |-> {}, short |-> {}, clean |-> TRUE]]

\* The first batch of the symbols of which the same range, the earliest, is asked.
Batch(q) ==
    LET c == sync[q]
        earliest == {s \in c.queue : \A t \in c.queue : Min(c.plan[s]) <= Min(c.plan[t])} IN
    {s \in earliest : Cardinality({t \in earliest : t < s}) < BatchSize}

\* The answer of the provider to a batch, of which some bars are invalid.
AnswerBatch(q, invalid) ==
    LET c == sync[q]
        batch == Batch(q)
        received == [s \in batch |->
            {d \in c.plan[s] \cap provider[s] : <<s, d>> \notin invalid}] IN
    /\ c # None /\ c.queue # {}
    /\ \A bad \in invalid : bad[1] \in batch /\ bad[2] \in c.plan[bad[1]] \cap provider[bad[1]]
    /\ bars' = [s \in Symbols |-> IF s \in batch THEN bars[s] \cup received[s] ELSE bars[s]]
    /\ sync' = [sync EXCEPT ![q] = [c EXCEPT
           !.queue = @ \ batch, !.clean = @ /\ invalid = {},
           !.short = @ \cup {s \in batch : received[s] # c.plan[s]}]]

\* A batch fails; the others are asked for all the same.
FailBatch(q) ==
    LET c == sync[q] IN
    /\ c # None /\ c.queue # {}
    /\ sync' = [sync EXCEPT ![q] =
           [c EXCEPT !.queue = @ \ Batch(q), !.failed = @ \cup Batch(q)]]

\* Without a failed request or an invalid bar.
Succeeded(c) == c.failed = {} /\ c.clean

\* The stored bars are checked, and the coverage is written.  A failed request
\* leaves the coverage of its symbols as it is.
FinishSync(q) ==
    LET c == sync[q] IN
    /\ c # None /\ c.queue = {}
    /\ coverage' = [s \in Symbols |->
           IF s \in DOMAIN c.seen \ c.failed
           THEN CoverageValue(c.seen[s], c.first, c.last,
                    s \notin c.short /\ c.first .. c.last \subseteq bars[s])
           ELSE coverage[s]]
    /\ sync' = [sync EXCEPT ![q] = None]

-----------------------------------------------------------------------------
(***************************************************************************)
(* A range that is recorded as proven complete is stored without a hole,   *)
(* whatever ranges were asked for in which order, failed, or were written  *)
(* from a coverage another command has replaced since (_sync_daily_history,*)
(* _daily_coverage_value).                                                 *)
(***************************************************************************)
CoverageHonest ==
    \A s \in Symbols :
        coverage[s] # None /\ coverage[s].complete
        => coverage[s].first .. coverage[s].last \subseteq bars[s]

=============================================================================
