---------------------------- MODULE IntradayData ----------------------------
(***************************************************************************)
(* How native intraday bars reach the database and what is held of those   *)
(* that do not: the incremental synchronization (data/sync.py) and the     *)
(* remediation of the sessions a candidate report requires                 *)
(* (data/intraday_remediation.py), run by processes that may overlap, fail *)
(* or die at any point.                                                    *)
(*                                                                         *)
(* Time is counted in bars of one timeframe: the slots 1, 2, ... of which  *)
(* PerSession make a session.  Intervals are half open.  The provider      *)
(* always has the same (valid) bars.  A group of symbols is one batch.     *)
(***************************************************************************)
EXTENDS Integers, FiniteSets, FiniteSetsExt

CONSTANTS
    Symbols,       \* numbers
    Procs,
    None,
    Sessions,      \* the number of sessions
    Supplies,      \* the sets of bars the provider may have of a symbol
    PerSession,    \* bars in a session
    Window,        \* intraday.sync.request_window_days, in bars
    Overlap,       \* intraday.sync.overlap_bars
    Starts, Ends,  \* the intervals users ask to be synchronized
    Required,      \* the sessions the candidate report requires: <<symbol, session>>
    Kinds,         \* what an observation must match: requirement type, feed,
                   \* adjustment and extended hours
    Warmups,       \* values of intraday.warmup_bars, 0: none
    MaxMishaps     \* bound: failed requests and deaths

ASSUME IntradayAssumption ==
    /\ Symbols \subseteq Nat /\ None \notin Int
    /\ Sessions \in Nat /\ PerSession \in Nat \ {0}
    /\ Window \in Nat /\ PerSession <= Window
    /\ Overlap \in Nat /\ Warmups \subseteq Nat /\ MaxMishaps \in Nat
    /\ Starts \subseteq Nat \ {0} /\ Ends \subseteq Nat
    /\ Required \subseteq Symbols \X (1 .. Sessions)
    /\ Supplies \subseteq SUBSET (1 .. Sessions * PerSession)

VARIABLES
    provider,   \* the bars the provider has
    bars,       \* the bars stored
    observed,   \* provider observations of required sessions
    warmed,     \* provider observations of the bars before the first of them
    run,        \* what each process is doing
    touched,    \* history: symbols a remediation has fetched bars of
    mishaps

vars == <<provider, bars, observed, warmed, run, touched, mishaps>>

Slots == 1 .. Sessions * PerSession

Opening(session) == (session - 1) * PerSession + 1

Between(from, to) == {slot \in Slots : from <= slot /\ slot < to}

SessionSlots(session) == Between(Opening(session), Opening(session + 1))

-----------------------------------------------------------------------------
\* A request that is still to be made: what for, and for which interval.
Group(what, symbols, from, to) ==
    [what |-> what, symbols |-> symbols, from |-> from, to |-> to]

\* todo: what is left.  got: an answer that has not been recorded.
Idle == [todo |-> {}, incremental |-> FALSE, start |-> 0, end |-> 0,
         kind |-> None, errors |-> FALSE, got |-> None, busy |-> FALSE]

Observation == [kind : Kinds, status : {"failed", "absent"},
                missing : SUBSET Slots]

Groups == [what : {"sync", "session", "warmup"}, symbols : SUBSET Symbols,
           from : Nat, to : Nat]

TypeOK ==
    /\ bars \in [Symbols -> SUBSET Slots]
    /\ \A s \in Symbols :
        /\ \A session \in 1 .. Sessions :
               observed[s][session] \in Observation \cup {None}
        /\ warmed[s] \in Observation \cup {None}
    /\ \A p \in Procs :
        /\ \A g \in run[p].todo : g \in Groups /\ g.from < g.to
        /\ run[p].got # None =>
               run[p].todo # {} /\ run[p].got.symbols \subseteq Symbols
    /\ touched \subseteq Symbols /\ mishaps \in 0 .. MaxMishaps

\* Nothing is stored yet, and nothing has been looked for.
Init ==
    /\ provider \in [Symbols -> Supplies]
    /\ bars = [s \in Symbols |-> {}]
    /\ observed = [s \in Symbols |-> [session \in 1 .. Sessions |-> None]]
    /\ warmed = [s \in Symbols |-> None]
    /\ run = [p \in Procs |-> Idle]
    /\ touched = {} /\ mishaps = 0

Mishap == mishaps < MaxMishaps /\ mishaps' = mishaps + 1

-----------------------------------------------------------------------------
\* The intervals an incremental synchronization asks for: what lies before the
\* first stored bar and what lies after the last, each with some overlap.
EdgeRanges(stored, start, end) ==
    IF stored = {} THEN {<<start, end>>}
    ELSE LET lead == Min({end, Min(stored) + Overlap})
             following == Max(stored) + 1
             tail == Max({start, following - Overlap})
             leading == Min(stored) > start
             trailing == following < end \/ (Overlap > 0 /\ tail < end) IN
         IF leading /\ trailing /\ tail <= lead THEN {<<start, Max({lead, end})>>}
         ELSE (IF leading THEN {<<start, lead>>} ELSE {})
                  \cup (IF trailing THEN {<<tail, end>>} ELSE {})

Ranges(s, start, end, incremental) ==
    IF incremental
    THEN EdgeRanges(bars[s] \cap Between(start, end), start, end)
    ELSE {<<start, end>>}

\* sync_intraday: symbols with the same interval are asked for together.
BeginSync(p, symbols, start, end, incremental) ==
    LET ranges(s) == Ranges(s, start, end, incremental)
        groups == {Group("sync", {s \in symbols : r \in ranges(s)}, r[1], r[2]) :
                       r \in UNION {ranges(s) : s \in symbols}} IN
    /\ ~run[p].busy /\ symbols # {} /\ start < end
    /\ run' = [run EXCEPT ![p] =
           [Idle EXCEPT !.busy = TRUE, !.todo = groups, !.start = start,
                        !.end = end, !.incremental = incremental]]
    /\ UNCHANGED <<provider, bars, observed, warmed, touched, mishaps>>

Missing(s, session) == SessionSlots(session) \ bars[s]

\* _classify_missing: what is known of a required session.
Classified(kind, s, session) ==
    LET missing == Missing(s, session)
        seen == observed[s][session] IN
    IF missing = {} THEN "present"
    ELSE IF seen = None \/ seen.kind # kind THEN "fetchable"
    ELSE IF seen.status = "failed" THEN "failed"
    ELSE IF missing \subseteq seen.missing THEN "absent"
    ELSE "fetchable"

First(s) == Min({session \in 1 .. Sessions : <<s, session>> \in Required})

\* The bars before the first session required of a symbol.
Before(s) == Between(1, Opening(First(s)))

\* intraday_warmup_start: as many sessions as it takes for that many bars.
WarmupStart(s, need) ==
    Max({1, Opening(First(s) - (need + PerSession - 1) \div PerSession)})

\* The same for the warmup: an observation does not say how many bars it is for.
ClassifiedWarmup(kind, s, need) ==
    LET seen == warmed[s] IN
    IF Cardinality(bars[s] \cap Before(s)) >= need THEN "present"
    ELSE IF seen = None \/ seen.kind # kind THEN "fetchable"
    ELSE seen.status

\* Mutant of Blocking: a failed check is not repeated.
BlockingOnce == {"fetchable"}

\* What is asked for (again), and what keeps a report from being ready.
Blocking == {"fetchable", "failed"}

\* remediate_candidate_intraday_coverage: the gaps of a session are asked for
\* together, from the first that is missing to the last; then the warmups.
BeginRemedy(p, kind, need) ==
    LET targets(session) ==
            {s \in Symbols : /\ <<s, session>> \in Required
                             /\ Classified(kind, s, session) \in Blocking}
        gaps(session) == UNION {Missing(s, session) : s \in targets(session)}
        sessions == {Group("session", targets(session), Min(gaps(session)),
                           Max(gaps(session)) + 1) :
                         session \in {n \in 1 .. Sessions : targets(n) # {}}}
        warm == {s \in Symbols : /\ \E n \in 1 .. Sessions : <<s, n>> \in Required
                                 /\ need > 0 /\ First(s) > 1
                                 /\ ClassifiedWarmup(kind, s, need) \in Blocking}
        warmups == {Group("warmup", {s}, WarmupStart(s, need),
                          Opening(First(s))) : s \in warm} IN
    /\ ~run[p].busy
    /\ sessions # {} \/ warm # {}
    /\ run' = [run EXCEPT ![p] =
           [Idle EXCEPT !.busy = TRUE, !.kind = kind, !.start = need,
                        !.todo = sessions \cup warmups]]
    /\ UNCHANGED <<provider, bars, observed, warmed, touched, mishaps>>

-----------------------------------------------------------------------------
\* The groups are asked for one after the other: the warmups last, by symbol, the
\* others by their intervals, which do not overlap.
Current(todo) ==
    LET order(g) == IF g.what = "warmup"
                    THEN Sessions * PerSession + 1 + Min(g.symbols) ELSE g.from IN
    CHOOSE g \in todo : \A h \in todo : order(g) <= order(h)

\* Mutant of WindowEnd: the end of the interval does not matter.
WindowEndOpen(g) == g.from + Window

WindowEnd(g) == Min({g.from + Window, g.to})

\* The groups left when one window of a group has been stored.
Rest(todo, g) ==
    (todo \ {g}) \cup
        (IF WindowEnd(g) = g.to THEN {} ELSE {[g EXCEPT !.from = WindowEnd(g)]})

\* Mutant of GivenUp: the next window of the group is tried.
GivenUpNot(todo, g) == Rest(todo, g)

\* The groups left when one window of a group has failed: its other windows
\* are not asked for in this run.
GivenUp(todo, g) == todo \ {g}

\* An answer that a remediation has still to record, with what was missing when
\* it came.
Answer(g, failed, stored) ==
    [symbols |-> g.symbols, failed |-> failed,
     missing |-> [s \in g.symbols |->
                     IF g.what = "session"
                     THEN SessionSlots((g.from - 1) \div PerSession + 1) \ stored[s]
                     ELSE {}]]

\* What is stored once the first window of a group has been answered.
Stored(g) ==
    [s \in Symbols |->
        IF s \in g.symbols
        THEN bars[s] \cup (provider[s] \cap Between(g.from, WindowEnd(g)))
        ELSE bars[s]]

\* The next window is answered, and its bars are stored in one transaction.
Fetch(p) ==
    LET r == run[p]
        g == Current(r.todo)
        stored == Stored(g) IN
    /\ r.todo # {} /\ r.got = None
    /\ bars' = stored
    /\ run' = [run EXCEPT ![p] =
           IF g.what = "sync" \/ WindowEnd(g) # g.to
           THEN [r EXCEPT !.todo = Rest(r.todo, g)]
           ELSE [r EXCEPT !.got = Answer(g, FALSE, stored)]]
    /\ touched' = IF g.what = "sync" THEN touched ELSE touched \cup g.symbols
    /\ UNCHANGED <<provider, observed, warmed, mishaps>>

\* So is the last window of a remediation's request, but with invalid bars among
\* the valid ones: these are stored, and the request has failed.
Garbled(p) ==
    LET r == run[p]
        g == Current(r.todo)
        stored == Stored(g) IN
    /\ r.todo # {} /\ r.got = None /\ Mishap
    /\ g.what # "sync" /\ WindowEnd(g) = g.to
    /\ bars' = stored
    /\ run' = [run EXCEPT ![p] = [r EXCEPT !.got = Answer(g, TRUE, stored)]]
    /\ touched' = touched \cup g.symbols
    /\ UNCHANGED <<provider, observed, warmed>>

\* The request fails, or the database does.
Fail(p) ==
    LET r == run[p]
        g == Current(r.todo) IN
    /\ r.todo # {} /\ r.got = None /\ Mishap
    /\ run' = [run EXCEPT ![p] =
           IF g.what = "sync"
           THEN [r EXCEPT !.todo = GivenUp(r.todo, g), !.errors = TRUE]
           ELSE [r EXCEPT !.got = Answer(g, TRUE, bars)]]
    /\ UNCHANGED <<provider, bars, observed, warmed, touched>>

\* Mutant of Noted: a check that failed counts as one.
NotedAbsent(kind, failed, missing, complete) ==
    IF complete THEN None
    ELSE [kind |-> kind, status |-> "absent", missing |-> missing]

\* The observation that is left of an answer.
Noted(kind, failed, missing, complete) ==
    IF ~failed /\ complete THEN None
    ELSE [kind |-> kind, status |-> IF failed THEN "failed" ELSE "absent",
          missing |-> missing]

\* One symbol of an answer is recorded, in a transaction of its own.
Record(p, s) ==
    LET r == run[p]
        g == Current(r.todo)
        session == (g.from - 1) \div PerSession + 1
        missing == r.got.missing[s] IN
    /\ r.got # None /\ s \in r.got.symbols
    /\ \A other \in r.got.symbols : s <= other
    /\ IF g.what = "session"
       THEN /\ observed' = [observed EXCEPT ![s][session] =
                   Noted(r.kind, r.got.failed, missing, missing = {})]
            /\ UNCHANGED warmed
       ELSE /\ warmed' = [warmed EXCEPT ![s] =
                   Noted(r.kind, r.got.failed, {},
                         Cardinality(bars[s] \cap Before(s)) >= r.start)]
            /\ UNCHANGED observed
    /\ run' = [run EXCEPT ![p] =
           IF r.got.symbols = {s}
           THEN [r EXCEPT !.got = None, !.todo = @ \ {g}]
           ELSE [r EXCEPT !.got.symbols = @ \ {s}]]
    /\ UNCHANGED <<provider, bars, touched, mishaps>>

Finish(p) ==
    /\ run[p].busy /\ run[p].todo = {}
    /\ run' = [run EXCEPT ![p] = Idle]
    /\ UNCHANGED <<provider, bars, observed, warmed, touched, mishaps>>

Die(p) ==
    /\ run[p].busy /\ Mishap
    /\ run' = [run EXCEPT ![p] = Idle]
    /\ UNCHANGED <<provider, bars, observed, warmed, touched>>

-----------------------------------------------------------------------------
Work(p) == Fetch(p) \/ (\E s \in Symbols : Record(p, s)) \/ Finish(p)

Remedy(p) == \E kind \in Kinds, need \in Warmups : BeginRemedy(p, kind, need)

Next ==
    \E p \in Procs :
        \/ \E start \in Starts, end \in Ends, incremental \in BOOLEAN :
               BeginSync(p, Symbols, start, end, incremental)
        \/ Remedy(p) \/ Work(p) \/ Garbled(p) \/ Fail(p) \/ Die(p)

Spec == Init /\ [][Next]_vars

\* A process that has begun goes on, and the remediation is started again and
\* again, however often the other commands are.
FairSpec ==
    /\ Spec
    /\ \A p \in Procs : WF_vars(Work(p))
    /\ SF_vars(\E p \in Procs : Remedy(p))

-----------------------------------------------------------------------------
\* AbsenceIsReal: a session is taken to be incomplete at the provider only when
\* the provider has none of the bars missing from it, whatever fetches,
\* failures and deaths came in between, and however late an answer was
\* recorded (intraday_remediation._classify_missing, _fetch_and_record).
AbsenceIsReal ==
    \A kind \in Kinds, s \in Symbols, session \in 1 .. Sessions :
        Classified(kind, s, session) = "absent" =>
            Missing(s, session) \cap provider[s] = {}

\* An incremental synchronization that has come through without an error.
Succeeded(r) == r.busy /\ r.incremental /\ r.todo = {} /\ ~r.errors

Covered(s, r) == provider[s] \cap Between(r.start, r.end) \subseteq bars[s]

\* NoSilentHole: an incremental run that reports no error leaves nothing of its
\* interval unasked, whatever failed in the runs before it
\* (sync.py, the comment where _sync_intraday gives up a batch).
NoSilentHole ==
    \A p \in Procs : Succeeded(run[p]) => \A s \in Symbols : Covered(s, run[p])

\* ResumesWithoutHole: it holds of the symbols whose bars only these runs have
\* stored; a remediation stores bars of single sessions, which the next
\* incremental run takes for its high-water mark.
ResumesWithoutHole ==
    \A p \in Procs : Succeeded(run[p]) =>
        \A s \in Symbols \ touched : Covered(s, run[p])

\* WarmupAbsenceIsReal: the warmup of a symbol is taken to be incomplete at the
\* provider only when every bar it has of the interval asked for is held.
WarmupAbsenceIsReal ==
    \A kind \in Kinds, need \in Warmups \ {0}, s \in Symbols :
        /\ \E n \in 1 .. Sessions : <<s, n>> \in Required
        /\ ClassifiedWarmup(kind, s, need) = "absent"
        => provider[s] \cap Between(WarmupStart(s, need), Opening(First(s)))
               \subseteq bars[s]

\* Settles: once requests no longer fail, remediation brings every session that
\* is required to a state that does not block, for good, however the other
\* commands interleave with it (remediate_candidate_intraday_coverage).
Settles ==
    <>[](\A pair \in Required, kind \in Kinds :
            Classified(kind, pair[1], pair[2]) \notin {"fetchable", "failed"})

=============================================================================
