--------------------------- MODULE SecChangeSync ---------------------------
(***************************************************************************)
(* How fundamentals follow the filings at the SEC (data/sync.py).  An      *)
(* incremental run reads the daily indexes from a few days before its      *)
(* cursor on, refreshes the companies they name, each in a transaction of  *)
(* its own, and at last moves the cursor.  Runs may overlap, fail for one  *)
(* company, abort or die at any point, and none of them holds a lock while *)
(* it talks to the SEC.                                                    *)
(*                                                                         *)
(* A filing is a company and the day it is filed on; a company has at most *)
(* one a day.  The companies in Ciks are followed in detail; the others of *)
(* the universe show only when they fail.  Only forms the parser supports  *)
(* are in the model.  A stored filing is one that was public when the      *)
(* stored companyfacts were fetched; what the SEC puts into its answer is  *)
(* the SEC's business.                                                     *)
(***************************************************************************)
EXTENDS Integers, FiniteSetsExt

CONSTANTS
    Ciks,        \* some companies of the universe: numbers, processed in order
    Procs,       \* processes that may run a synchronization
    None,
    Overlap,     \* DAILY_INDEX_OVERLAP_DAYS, 7
    TTL,         \* companyfacts_unavailable_ttl, in days
    Delay,       \* an index appears at most so long after its day
    RunDays,     \* a run takes at most so long; a run that fetched before a day's
                 \* filings may commit after another has noted them
    FileBy,      \* bound: nothing is filed after this day
    LastDay,     \* bound: time stands still here
    MaxMishaps   \* bound: failures, deaths, missing resources, and runs that are
                 \* full, partial, or begin while another one is going on

ASSUME SecAssumption ==
    /\ Overlap \in Nat /\ TTL \in Nat /\ Delay \in Nat /\ RunDays \in Nat
    /\ FileBy \in Nat /\ LastDay \in Nat /\ MaxMishaps \in Nat
    /\ 2 * RunDays + Delay <= Overlap
    /\ Ciks \subseteq Nat /\ None \notin Int

VARIABLES
    today,
    filed,    \* the days on which each company filed
    listed,   \* the days whose master index is published
    db,       \* the rows of sync_state and fundamental_facts
    run,      \* what each process is doing
    floor,    \* history: the first day the first cursor answers for
    passed,   \* history: companies that a run moved the cursor without
    mishaps

vars == <<today, filed, listed, db, run, floor, passed, mishaps>>

Days == 0 .. LastDay

-----------------------------------------------------------------------------
Idle == [at |-> "idle", full |-> FALSE, cover |-> {}, since |-> 0,
         acc |-> [c \in Ciks |-> None], checked |-> [c \in Ciks |-> {}],
         from |-> 0, to |-> None, found |-> [c \in Ciks |-> {}],
         todo |-> {}, errors |-> FALSE, got |-> None]

\* A day in cf or sub: the resource was missing when last asked for.
Database ==
    [cursor : Days \cup {None},
     acc    : [Ciks -> (SUBSET Days) \cup {None}],  \* sec_accessions
     facts  : [Ciks -> SUBSET Days],              \* fundamental_facts
     cf     : [Ciks -> Days \cup {None}],         \* sec_companyfacts_status
     sub    : [Ciks -> Days \cup {None}]]         \* sec_submissions_status

\* What a company's two requests have brought.
Answers == [cik : Ciks, kind : {"facts", "known", "no facts", "no company"},
            acc : SUBSET Days, payload : SUBSET Days]

ASSUME NoneAssumption == None \notin Answers

Locals ==
    [at : {"idle", "begun", "companies"}, full : BOOLEAN, cover : SUBSET Ciks,
     since : Days, acc : [Ciks -> (SUBSET Days) \cup {None}],
     checked : [Ciks -> SUBSET Days], from : Int, to : Days \cup {None},
     found : [Ciks -> SUBSET Days], todo : SUBSET Ciks, errors : BOOLEAN,
     got : Answers \cup {None}]

\* Type correctness, including that the cursor never lies in the future: a run
\* that finds it there raises, and nothing would ever set it back.
TypeOK ==
    /\ db.cursor # None => db.cursor <= today
    /\ today \in Days /\ listed \subseteq Days
    /\ filed \in [Ciks -> SUBSET Days]
    /\ db \in Database
    /\ run \in [Procs -> Locals]
    /\ floor \in Int /\ passed \subseteq Ciks /\ mishaps \in 0 .. MaxMishaps

\* Day 0 is over.  Its filings were imported or not, and the accessions were
\* noted or the database is older (or newer) than that bookkeeping.
Init ==
    /\ today = 0 /\ listed = {0}
    /\ filed = [c \in Ciks |-> {0}]
    /\ \E cursor \in {None, 0}, stored \in SUBSET {0}, noted \in BOOLEAN :
           db = [cursor |-> cursor,
                 acc |-> [c \in Ciks |-> IF noted THEN stored ELSE None],
                 facts |-> [c \in Ciks |-> stored],
                 cf |-> [c \in Ciks |-> None], sub |-> [c \in Ciks |-> None]]
    /\ run = [p \in Procs |-> Idle]
    /\ floor = 0 - Overlap /\ passed = {} /\ mishaps = 0

-----------------------------------------------------------------------------
(***************************************************************************)
(* The SEC and the calendar (external).                                    *)
(***************************************************************************)
File(c) ==
    /\ today <= FileBy /\ today \notin listed
    /\ filed' = [filed EXCEPT ![c] = @ \cup {today}]
    /\ UNCHANGED <<today, listed, db, run, floor, passed, mishaps>>

\* The index of a day appears, with everything filed on it.
Publish(d) ==
    /\ d \in 0 .. today /\ d \notin listed
    /\ listed' = listed \cup {d}
    /\ UNCHANGED <<today, filed, db, run, floor, passed, mishaps>>

Tick ==
    /\ today < LastDay
    /\ \A d \in 0 .. today - Delay : d \in listed
    /\ \A p \in Procs : run[p].at # "idle" => today < run[p].since + RunDays
    /\ today' = today + 1
    /\ UNCHANGED <<filed, listed, db, run, floor, passed, mishaps>>

Failure == mishaps < MaxMishaps /\ mishaps' = mishaps + 1

\* The other things do not go wrong so late that a missing resource would not be
\* asked for again.
Mishap == Failure /\ today + RunDays + TTL <= LastDay

-----------------------------------------------------------------------------
\* Negative-cache entries: times at which something was found missing.
Fresh(day) == today - day < TTL

Expired(entries) == \E day \in entries : ~Fresh(day)

Entries(c) == {db.cf[c], db.sub[c]} \ {None}

\* _sync_sec starts: it reads which companies it resolves and what is known of
\* them.  Requested symbols, missing mappings and identity conflicts all make
\* a run cover less than the universe.
Begin(p, full, cover) ==
    /\ run[p].at = "idle"
    /\ run' = [run EXCEPT ![p] =
           [Idle EXCEPT !.at = IF full THEN "companies" ELSE "begun",
                        !.full = full, !.cover = cover, !.since = today,
                        !.acc = db.acc,
                        !.checked = [c \in Ciks |-> Entries(c)],
                        !.todo = IF full THEN cover ELSE {}]]
    /\ IF ~full /\ cover = Ciks /\ \A q \in Procs : run[q].at = "idle"
       THEN UNCHANGED mishaps ELSE Mishap
    /\ UNCHANGED <<today, filed, listed, db, floor, passed>>

\* Mutant of WindowStart: no overlap.
WindowStartAtCursor == IF db.cursor = None THEN today - Overlap ELSE db.cursor

\* The first day a run reads the index of.
WindowStart == (IF db.cursor = None THEN today ELSE db.cursor) - Overlap

\* Mutant of CursorAfter: the first day not read yet.
CursorAfterNext(indexes) ==
    IF indexes = {} THEN db.cursor
    ELSE 1 + Max(indexes \cup ({db.cursor} \ {None}))

\* Where a clean run leaves the cursor: the last index it has read.
CursorAfter(indexes) ==
    IF indexes = {} THEN db.cursor
    ELSE Max(indexes \cup ({db.cursor} \ {None}))

Known(accessions) == IF accessions = None THEN {} ELSE accessions

\* The directories and the indexes are read, and the companies chosen: those
\* with an accession that is not stored yet, and those due for another try.
Discover(p) ==
    LET r == run[p]
        indexes == {d \in listed : WindowStart <= d /\ d <= today}
        found == [c \in Ciks |-> filed[c] \cap indexes]
        new(c) == found[c] \ Known(r.acc[c]) # {}
        suppressed(c) == ~new(c) /\ \E day \in r.checked[c] : Fresh(day) IN
    /\ r.at = "begun"
    /\ run' = [run EXCEPT ![p] =
           [r EXCEPT
               !.at = "companies", !.from = WindowStart, !.found = found,
               !.to = CursorAfter(indexes),
               !.todo = {c \in r.cover :
                   /\ new(c) \/ Expired(r.checked[c])
                   /\ ~suppressed(c)}]]
    /\ UNCHANGED <<today, filed, listed, db, floor, passed, mishaps>>

\* A company's requests are answered.  The accessions to be stored are computed
\* from what the run has read at its start.
Fetch(p, c) ==
    LET r == run[p]
        before == IF r.acc[c] = None THEN db.facts[c] ELSE r.acc[c]
        \* all recent accessions the submissions show
        noted == before \cup filed[c] \cup r.found[c]
        needed == \/ r.full \/ Expired(r.checked[c])
                  \/ r.acc[c] = None /\ db.facts[c] = {}
                  \/ (filed[c] \cup r.found[c]) \ before # {}
        answer(kind, acc) == run' = [run EXCEPT ![p] =
            [r EXCEPT !.todo = @ \ {c},
                      !.got = [cik |-> c, kind |-> kind, acc |-> acc,
                               payload |-> IF kind = "facts" THEN filed[c]
                                           ELSE {}]]] IN
    /\ r.at = "companies" /\ r.got = None
    /\ c \in r.todo /\ \A other \in r.todo : c <= other
    /\ \/ needed /\ answer("facts", noted) /\ UNCHANGED mishaps
       \/ ~needed /\ answer("known", noted) /\ UNCHANGED mishaps
       \/ needed /\ answer("no facts", noted) /\ Mishap
       \/ answer("no company", Known(r.acc[c]) \cup r.found[c]) /\ Mishap
    /\ UNCHANGED <<today, filed, listed, db, floor, passed>>

\* Mutant of Stored: a missing resource is not noted for another try.
StoredForgetful(g, first) ==
    CASE g.kind = "facts" ->
             [db EXCEPT !.facts = [@ EXCEPT ![g.cik] =
                                        db.facts[g.cik] \cup g.payload],
                        !.acc = [@ EXCEPT ![g.cik] = g.acc],
                        !.cf = [@ EXCEPT ![g.cik] = None],
                        !.sub = [@ EXCEPT ![g.cik] = None]]
      [] g.kind = "known" -> IF first
             THEN [db EXCEPT !.acc = [@ EXCEPT ![g.cik] = g.acc]] ELSE db
      [] OTHER -> [db EXCEPT !.acc = [@ EXCEPT ![g.cik] = g.acc]]

\* The rows after a company's transaction.
Stored(g, first) ==
    CASE g.kind = "facts" ->
             [db EXCEPT !.facts = [@ EXCEPT ![g.cik] =
                                        db.facts[g.cik] \cup g.payload],
                        !.acc = [@ EXCEPT ![g.cik] = g.acc],
                        !.cf = [@ EXCEPT ![g.cik] = None],
                        !.sub = [@ EXCEPT ![g.cik] = None]]
      [] g.kind = "known" -> IF first
             THEN [db EXCEPT !.acc = [@ EXCEPT ![g.cik] = g.acc]] ELSE db
      [] g.kind = "no facts" ->
             [db EXCEPT !.acc = [@ EXCEPT ![g.cik] = g.acc],
                        !.cf = [@ EXCEPT ![g.cik] = today],
                        !.sub = [@ EXCEPT ![g.cik] = None]]
      [] g.kind = "no company" ->
             [db EXCEPT !.acc = [@ EXCEPT ![g.cik] = g.acc],
                        !.sub = [@ EXCEPT ![g.cik] = today]]

\* The company's transaction commits.
Commit(p) ==
    LET g == run[p].got IN
    /\ g # None
    /\ db' = Stored(g, run[p].acc[g.cik] = None)
    /\ run' = [run EXCEPT ![p] = [@ EXCEPT !.got = None]]
    /\ passed' = IF g.kind = "facts" THEN passed \ {g.cik} ELSE passed
    /\ UNCHANGED <<today, filed, listed, floor, mishaps>>

\* A SecCompanySyncError: a request, the parser or the database fails for one
\* company, the transaction is rolled back, and the run goes on.
Reject(p, c) ==
    LET r == run[p] IN
    /\ r.at = "companies" /\ Failure
    /\ \/ r.got = None /\ c \in r.todo /\ \A other \in r.todo : c <= other
       \/ r.got # None /\ r.got.cik = c
    /\ run' = [run EXCEPT ![p] =
           [r EXCEPT !.todo = @ \ {c}, !.got = None, !.errors = TRUE]]
    /\ UNCHANGED <<today, filed, listed, db, floor, passed>>

\* The same for a company that is not followed.
RejectOther(p) ==
    /\ run[p].at = "companies" /\ ~run[p].errors /\ Failure
    /\ run' = [run EXCEPT ![p] = [@ EXCEPT !.errors = TRUE]]
    /\ UNCHANGED <<today, filed, listed, db, floor, passed>>

\* Mutant of Advances: failed companies do not keep the cursor back.
AdvancesAnyway(r) == ~r.full /\ r.to # None

\* Only a clean incremental run moves the cursor.
Advances(r) == ~r.full /\ ~r.errors /\ r.to # None

\* The companies are done: the cursor's own transaction, and the run returns.
Finish(p) ==
    LET r == run[p] IN
    /\ r.at = "companies" /\ r.todo = {} /\ r.got = None
    /\ IF Advances(r)
       THEN /\ db' = [db EXCEPT !.cursor = r.to]
            /\ floor' = IF db.cursor = None THEN r.from ELSE floor
            /\ passed' = passed \cup (Ciks \ r.cover)
       ELSE UNCHANGED <<db, floor, passed>>
    /\ run' = [run EXCEPT ![p] = Idle]
    /\ UNCHANGED <<today, filed, listed, mishaps>>

\* The process dies, or any other error ends the stage: an index that cannot
\* be had or parsed, a lock on the database that does not come free.
Abort(p) ==
    /\ run[p].at # "idle" /\ Mishap
    /\ run' = [run EXCEPT ![p] = Idle]
    /\ UNCHANGED <<today, filed, listed, db, floor, passed>>

-----------------------------------------------------------------------------
Work(p) ==
    \/ Discover(p) \/ (\E c \in Ciks : Fetch(p, c)) \/ Commit(p) \/ Finish(p)

\* sync --incremental for the whole universe.
Nightly(p) == Begin(p, FALSE, Ciks)

Next ==
    \/ \E c \in Ciks : File(c)
    \/ \E d \in Days : Publish(d)
    \/ Tick
    \/ \E p \in Procs :
           \/ \E full \in BOOLEAN, cover \in SUBSET Ciks : Begin(p, full, cover)
           \/ Work(p) \/ Abort(p)
           \/ RejectOther(p) \/ \E c \in Ciks : Reject(p, c)

Spec == Init /\ [][Next]_vars

\* Days pass (a run that is going on only delays midnight in the model: it takes
\* at most RunDays), indexes appear, somebody runs the nightly command again and
\* again, and a run that has begun goes on.
FairSpec ==
    /\ Spec
    /\ SF_vars(Tick) /\ \A d \in Days : WF_vars(Publish(d))
    /\ \A p \in Procs : WF_vars(Work(p))
    /\ WF_vars(\E p \in Procs : Nightly(p))

-----------------------------------------------------------------------------
Unavailable(c) == db.cf[c] # None \/ db.sub[c] # None

\* The filings of c that the bookkeeping answers for.
Owed(c) == {d \in filed[c] : d >= floor /\ c \notin passed}

(***************************************************************************)
(* What the cursor has left behind is never lost: a filing older than the  *)
(* next run's first index is in the facts, or its company is marked for    *)
(* another try.  Failed companies, deaths between the companies and the    *)
(* cursor, runs that overlap and write what they computed from old reads,  *)
(* late indexes: none of them makes the cursor pass a filing.  (Companies  *)
(* a run did not cover are exempt until they are refreshed.)               *)
(***************************************************************************)
CursorLeavesNothing ==
    db.cursor # None =>
        \A c \in Ciks : \A d \in Owed(c) :
            d < db.cursor - Overlap => d \in db.facts[c] \/ Unavailable(c)

(***************************************************************************)
(* A stored accession suppresses the download of its company, so one is    *)
(* stored only with the facts, or with a mark that has the company asked   *)
(* for again, on every path of _sync_sec_company and in every order in     *)
(* which overlapping runs commit.                                          *)
(***************************************************************************)
NotedMeansHeld ==
    \A c \in Ciks : \A d \in Known(db.acc[c]) \cap filed[c] :
        d \in db.facts[c] \/ Unavailable(c)

(***************************************************************************)
(* Every filing gets into the facts in the end, if the nightly run keeps   *)
(* being started: missing resources are asked for again, failed companies  *)
(* are found again through the same indexes.                               *)
(***************************************************************************)
FilingsArrive == <>[](\A c \in Ciks : Owed(c) \subseteq db.facts[c])

=============================================================================
