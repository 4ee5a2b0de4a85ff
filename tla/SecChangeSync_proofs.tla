------------------------ MODULE SecChangeSync_proofs ------------------------
(***************************************************************************)
(* No filing falls behind the cursor, for any number of companies and of   *)
(* overlapping runs, any failures, deaths and late indexes, as long as     *)
(* indexes appear within Delay days, runs take at most RunDays, and        *)
(* 2 * RunDays + Delay <= Overlap.                                         *)
(***************************************************************************)
EXTENDS SecChangeSync, WellFoundedInduction, TLAPS

\* The largest of a nonempty set of days.
LEMMA MaxOf ==
    ASSUME NEW b \in Int, NEW S \in SUBSET (0 .. b), S # {}
    PROVE  Max(S) \in S /\ \A x \in S : x <= Max(S)
<1> DEFINE T == {n \in Nat : b - n \in S}
           Less == OpToRel(<, Nat)
<1>1. PICK z \in S : TRUE  OBVIOUS
<1>2. b - z \in T  OBVIOUS
<1>3. T \subseteq Nat /\ T # {}  BY <1>2
<1> HIDE DEF T
<1>5. IsWellFoundedOn(Less, Nat)  BY NatLessThanWellFounded DEF Less
<1>6. \E m \in T : \A y \in T : ~ (<<y, m>> \in Less)
  <2> HIDE DEF Less
  <2> QED  BY <1>3, <1>5, WFMin
<1>7. PICK m \in T : \A y \in T : ~ (<<y, m>> \in Less)  BY <1>6
<1>8. ASSUME NEW y \in Nat, NEW n \in Nat, y < n PROVE <<y, n>> \in Less
  BY <1>8 DEF Less, OpToRel
<1> HIDE DEF Less
<1>9. ASSUME NEW y \in T PROVE m <= y
  <2>1. y \in Nat /\ m \in Nat  BY <1>3
  <2>2. ~ (y < m)  BY <2>1, <1>7, <1>8
  <2> QED  BY <2>1, <2>2
<1>10. b - m \in S /\ m \in Nat  BY DEF T
<1>11. ASSUME NEW y \in S PROVE y <= b - m
  <2>1. b - y \in T  BY DEF T
  <2> QED  BY <2>1, <1>9, <1>10
<1>12. \E x \in S : \A y \in S : x >= y  BY <1>10, <1>11
<1> DEFINE x == CHOOSE x \in S : \A y \in S : x >= y
<1>13. x \in S /\ \A y \in S : x >= y  BY <1>12
<1>14. Max(S) = x  BY DEF Max
<1> HIDE DEF x
<1> QED  BY <1>13, <1>14

-----------------------------------------------------------------------------
(***************************************************************************)
(* The inductive invariant.  Its parts are functions of what they speak    *)
(* of: r is what a process is doing, b the database, f the filings, t the  *)
(* day, l the first day answered for, x the companies passed over.         *)
(***************************************************************************)
Done(b, c, d) == d \in b.facts[c] \/ b.cf[c] # None \/ b.sub[c] # None

\* A filing of an earlier day than this is in every answer that is still to be
\* stored, and was in the indexes of every run that is still going on.
Cutoff(r) == r.since + RunDays - Overlap

Times(r, t) ==
    /\ r.at # "idle" => r.since <= t /\ t <= r.since + RunDays
    /\ r.to # None => r.to <= t
    /\ r.at = "companies" /\ ~r.full => r.from <= t - Overlap
    /\ r.got # None => r.at = "companies"

\* What was read was filed.
Reads(r, f) ==
    /\ \A c \in Ciks : Known(r.acc[c]) \subseteq f[c] /\ r.found[c] \subseteq f[c]
    /\ r.got # None => /\ r.got.payload \subseteq f[r.got.cik]
                       /\ r.got.acc \subseteq f[r.got.cik]

\* What an answer will leave in the database when it is stored.
Answered(r, b, f) ==
    r.got # None =>
        /\ r.got.kind = "facts" =>
               /\ r.got.acc \subseteq r.got.payload
               /\ \A d \in f[r.got.cik] : d < r.since => d \in r.got.payload
        /\ r.got.kind = "known" =>
               (r.acc[r.got.cik] = None => r.got.acc \subseteq b.facts[r.got.cik])

\* The accessions a run found noted are still answered for.
OldReads(r, b) ==
    r.at # "idle" =>
        \A c \in Ciks : \A d \in Known(r.acc[c]) :
            d < Cutoff(r) => Done(b, c, d)

\* The filings that the bookkeeping answers for.
Owing(f, l, x, c) == {d \in f[c] : d >= l /\ c \notin x}

\* What lies before a run's first index was done with when the run read it.
Behind(r, b, f, l, x) ==
    r.at = "companies" /\ ~r.full =>
        \A c \in Ciks : \A d \in Owing(f, l, x, c) :
            d < r.from => b.cursor = None \/ Done(b, c, d)

\* What the answer got will do for the filing of day d.
Resolves(r, b, c, d) ==
    /\ r.got # None /\ r.got.cik = c
    /\ r.got.kind = "facts" => d \in r.got.payload
    /\ r.got.kind = "known" => d \in b.facts[c]

\* What a run's indexes show is done with, or is still in hand.
InHand(r, b, f) ==
    r.at = "companies" /\ ~r.full =>
        \A c \in r.cover : \A d \in f[c] :
            r.from <= d /\ d < Cutoff(r) =>
                r.errors \/ c \in r.todo \/ Done(b, c, d) \/ Resolves(r, b, c, d)

\* A process has only seen what is there and answers for what it has seen.
ProcInv(r, b, f, t, l, x) ==
    /\ Times(r, t) /\ Reads(r, f) /\ Answered(r, b, f)
    /\ OldReads(r, b) /\ Behind(r, b, f, l, x) /\ InHand(r, b, f)

Stock(b, f) ==
    \A c \in Ciks : b.facts[c] \subseteq f[c] /\ Known(b.acc[c]) \subseteq f[c]

Held(b) == \A c \in Ciks : \A d \in Known(b.acc[c]) : Done(b, c, d)

LeftBehind(b, f, l, x) ==
    b.cursor # None =>
        \A c \in Ciks : \A d \in Owing(f, l, x, c) :
            d < b.cursor - Overlap => Done(b, c, d)

\* Every index is published Delay days after its day.
Punctual(t, s) == \A d \in 0 .. t : d < t - Delay => d \in s

SyncInv ==
    /\ TypeOK
    /\ \A c \in Ciks : filed[c] \subseteq 0 .. today
    /\ Punctual(today, listed)
    /\ Stock(db, filed) /\ Held(db)
    /\ LeftBehind(db, filed, floor, passed)
    /\ \A p \in Procs : ProcInv(run[p], db, filed, today, floor, passed)

-----------------------------------------------------------------------------
LEMMA Numbers ==
    /\ Overlap \in Nat /\ TTL \in Nat /\ Delay \in Nat /\ RunDays \in Nat
    /\ LastDay \in Nat /\ 2 * RunDays + Delay <= Overlap
    /\ Ciks \subseteq Nat /\ None \notin Int /\ None \notin Days
    /\ Days \subseteq Int /\ 0 \in Days
BY SecAssumption DEF Days

LEMMA Fields ==
    ASSUME NEW r \in Locals
    PROVE  /\ r.at \in {"idle", "begun", "companies"} /\ r.full \in BOOLEAN
           /\ r.cover \subseteq Ciks /\ r.since \in Days /\ r.since \in Int
           /\ r.acc \in [Ciks -> (SUBSET Days) \cup {None}]
           /\ r.checked \in [Ciks -> SUBSET Days]
           /\ r.from \in Int /\ r.to \in Days \cup {None}
           /\ r.found \in [Ciks -> SUBSET Days] /\ r.todo \subseteq Ciks
           /\ r.errors \in BOOLEAN /\ r.got \in Answers \cup {None}
           /\ Cutoff(r) = r.since + RunDays - Overlap /\ Cutoff(r) \in Int
<1>1. /\ r.at \in {"idle", "begun", "companies"} /\ r.full \in BOOLEAN
      /\ r.cover \in SUBSET Ciks /\ r.since \in Days
      /\ r.acc \in [Ciks -> (SUBSET Days) \cup {None}]
      /\ r.checked \in [Ciks -> SUBSET Days]
      /\ r.from \in Int /\ r.to \in Days \cup {None}
      /\ r.found \in [Ciks -> SUBSET Days] /\ r.todo \in SUBSET Ciks
      /\ r.errors \in BOOLEAN /\ r.got \in Answers \cup {None}
  BY DEF Locals
<1>2. r.since \in Int  BY <1>1, Numbers
<1>3. Cutoff(r) = r.since + RunDays - Overlap /\ Cutoff(r) \in Int
  BY <1>2, Numbers DEF Cutoff
<1> QED  BY <1>1, <1>2, <1>3

LEMMA AnswerFields ==
    ASSUME NEW g \in Answers
    PROVE  /\ g.cik \in Ciks
           /\ g.kind \in {"facts", "known", "no facts", "no company"}
           /\ g.acc \in SUBSET Days /\ g.payload \in SUBSET Days
           /\ g # None
BY NoneAssumption DEF Answers

LEMMA Rows ==
    ASSUME NEW b \in Database
    PROVE  /\ b.cursor \in Days \cup {None}
           /\ b.acc \in [Ciks -> (SUBSET Days) \cup {None}]
           /\ b.facts \in [Ciks -> SUBSET Days]
           /\ b.cf \in [Ciks -> Days \cup {None}]
           /\ b.sub \in [Ciks -> Days \cup {None}]
BY DEF Database

LEMMA IdleTypes ==
    /\ Idle \in Locals /\ Idle.at = "idle" /\ Idle.to = None /\ Idle.got = None
    /\ \A c \in Ciks : Idle.acc[c] = None /\ Idle.found[c] = {}
<1>1. /\ [c \in Ciks |-> None] \in [Ciks -> (SUBSET Days) \cup {None}]
      /\ [c \in Ciks |-> {}] \in [Ciks -> SUBSET Days]
  OBVIOUS
<1>2. 0 \in Days /\ 0 \in Int  BY Numbers
<1>3. Idle \in Locals  BY <1>1, <1>2 DEF Idle, Locals
<1> QED  BY <1>3 DEF Idle

\* An idle process has seen nothing and answers for nothing.
LEMMA IdleInv ==
    ASSUME NEW b, NEW f, NEW t, NEW l, NEW x
    PROVE  ProcInv(Idle, b, f, t, l, x)
<1>1. Times(Idle, t)  BY IdleTypes DEF Times
<1>2. Reads(Idle, f)  BY IdleTypes DEF Reads, Known
<1>3. Answered(Idle, b, f)  BY IdleTypes DEF Answered
<1>4. OldReads(Idle, b)  BY IdleTypes DEF OldReads
<1>5. Behind(Idle, b, f, l, x) /\ InHand(Idle, b, f)
  BY IdleTypes DEF Behind, InHand
<1> QED  BY <1>1, <1>2, <1>3, <1>4, <1>5 DEF ProcInv

-----------------------------------------------------------------------------
LEMMA InitInv == Init => SyncInv
<1> SUFFICES ASSUME Init PROVE SyncInv  OBVIOUS
<1>1. /\ today = 0 /\ listed = {0} /\ filed = [c \in Ciks |-> {0}]
      /\ run = [p \in Procs |-> Idle] /\ floor = 0 - Overlap
      /\ passed = {} /\ mishaps = 0
  BY DEF Init
<1>2. PICK cursor \in {None, 0}, stored \in SUBSET {0}, noted \in BOOLEAN :
          db = [cursor |-> cursor,
                acc |-> [c \in Ciks |-> IF noted THEN stored ELSE None],
                facts |-> [c \in Ciks |-> stored],
                cf |-> [c \in Ciks |-> None], sub |-> [c \in Ciks |-> None]]
  BY DEF Init
<1>3. /\ db.cursor = cursor /\ db.facts = [c \in Ciks |-> stored]
      /\ db.acc = [c \in Ciks |-> IF noted THEN stored ELSE None]
  BY <1>2
<1>4. stored \subseteq Days /\ cursor \in Days \cup {None} /\ 0 \in Days
  BY Numbers
<1>5. db \in Database
  <2>1. /\ [c \in Ciks |-> IF noted THEN stored ELSE None]
              \in [Ciks -> (SUBSET Days) \cup {None}]
        /\ [c \in Ciks |-> stored] \in [Ciks -> SUBSET Days]
        /\ [c \in Ciks |-> None] \in [Ciks -> Days \cup {None}]
    BY <1>4
  <2> QED  BY <1>2, <1>4, <2>1 DEF Database
<1>6. TypeOK
  <2>1. run \in [Procs -> Locals]  BY <1>1, IdleTypes
  <2>2. filed \in [Ciks -> SUBSET Days] /\ listed \subseteq Days
    BY <1>1, <1>4
  <2>3. db.cursor # None => db.cursor <= today  BY <1>1, <1>3
  <2>4. floor \in Int /\ mishaps \in 0 .. MaxMishaps
    BY <1>1, SecAssumption
  <2> QED  BY <1>1, <1>4, <1>5, <2>1, <2>2, <2>3, <2>4 DEF TypeOK
<1>7. \A c \in Ciks : filed[c] \subseteq 0 .. today  BY <1>1
<1>8. Punctual(today, listed)  BY <1>1 DEF Punctual
<1>9. \A c \in Ciks : Known(db.acc[c]) \subseteq db.facts[c]
  BY <1>3 DEF Known
<1>10. Stock(db, filed)
  <2>1. \A c \in Ciks : db.facts[c] = stored /\ filed[c] = {0}
    BY <1>1, <1>3
  <2>2. stored \subseteq {0}  OBVIOUS
  <2> QED  BY <1>9, <2>1, <2>2 DEF Stock
<1>11. Held(db)  BY <1>9 DEF Held, Done
<1>12. LeftBehind(db, filed, floor, passed)
  <2> SUFFICES ASSUME db.cursor # None, NEW c \in Ciks,
                      NEW d \in Owing(filed, floor, passed, c),
                      d < db.cursor - Overlap
               PROVE  FALSE
    BY DEF LeftBehind
  <2>1. d = 0 /\ db.cursor = 0  BY <1>1, <1>3 DEF Owing
  <2> QED  BY <2>1, Numbers
<1>13. \A p \in Procs : ProcInv(run[p], db, filed, today, floor, passed)
  BY <1>1, IdleInv
<1> QED
  BY <1>6, <1>7, <1>8, <1>10, <1>11, <1>12, <1>13 DEF SyncInv

-----------------------------------------------------------------------------
\* What the invariant says of the shared state, and of the process p.
LEMMA Shared ==
    ASSUME SyncInv
    PROVE  /\ today \in Days /\ today \in Int /\ listed \subseteq Days
           /\ filed \in [Ciks -> SUBSET Days] /\ db \in Database
           /\ run \in [Procs -> Locals] /\ floor \in Int /\ passed \subseteq Ciks
           /\ mishaps \in 0 .. MaxMishaps
           /\ db.cursor # None => db.cursor \in Int /\ db.cursor <= today
BY Numbers, Rows DEF SyncInv, TypeOK

LEMMA FailureTypes ==
    ASSUME SyncInv, Failure \/ UNCHANGED mishaps
    PROVE  mishaps' \in 0 .. MaxMishaps
BY SecAssumption DEF SyncInv, TypeOK, Failure

\* A step that only changes what one process is doing.
LEMMA LocalStep ==
    ASSUME SyncInv, NEW p \in Procs, NEW r \in Locals,
           run' = [run EXCEPT ![p] = r],
           UNCHANGED <<today, filed, listed, db, floor, passed>>,
           Failure \/ UNCHANGED mishaps,
           ProcInv(r, db, filed, today, floor, passed)
    PROVE  SyncInv'
<1>1. mishaps' \in 0 .. MaxMishaps  BY FailureTypes
<1>2. run' \in [Procs -> Locals]  BY Shared
<1>3. TypeOK'
  BY <1>1, <1>2, Shared DEF TypeOK
<1>4. ASSUME NEW q \in Procs
      PROVE ProcInv(run'[q], db, filed, today, floor, passed)
  <2>1. CASE q = p  BY <2>1, Shared
  <2>2. CASE q # p
    <3>1. run'[q] = run[q]  BY <2>2, Shared
    <3> QED  BY <3>1 DEF SyncInv
  <2> QED  BY <2>1, <2>2
<1>5. /\ today' = today /\ filed' = filed /\ listed' = listed /\ db' = db
      /\ floor' = floor /\ passed' = passed
  OBVIOUS
<1>6. (\A q \in Procs : ProcInv(run[q], db, filed, today, floor, passed))'
  BY <1>4, <1>5
<1>7. /\ \A c \in Ciks : filed[c] \subseteq 0 .. today
      /\ Punctual(today, listed) /\ Stock(db, filed) /\ Held(db)
      /\ LeftBehind(db, filed, floor, passed)
  BY DEF SyncInv
<1>8. /\ \A c \in Ciks : filed'[c] \subseteq 0 .. today'
      /\ Punctual(today', listed') /\ Stock(db', filed') /\ Held(db')
      /\ LeftBehind(db', filed', floor', passed')
  BY <1>5, <1>7
<1> QED  BY <1>3, <1>6, <1>8 DEF SyncInv

\* A process stops.
LEMMA StopStep ==
    ASSUME SyncInv, NEW p \in Procs, Abort(p)
    PROVE  SyncInv'
<1>1. /\ run' = [run EXCEPT ![p] = Idle] /\ Failure
      /\ UNCHANGED <<today, filed, listed, db, floor, passed>>
  BY DEF Abort, Mishap
<1>2. ProcInv(Idle, db, filed, today, floor, passed)  BY IdleInv
<1> QED  BY <1>1, <1>2, IdleTypes, LocalStep

LEMMA BeginStep ==
    ASSUME SyncInv, NEW p \in Procs, NEW full \in BOOLEAN,
           NEW cover \in SUBSET Ciks, Begin(p, full, cover)
    PROVE  SyncInv'
<1> DEFINE at == IF full THEN "companies" ELSE "begun"
           checked == [c \in Ciks |-> Entries(c)]
           todo == IF full THEN cover ELSE {}
           r == [Idle EXCEPT !.at = at, !.full = full, !.cover = cover,
                             !.since = today, !.acc = db.acc,
                             !.checked = checked, !.todo = todo]
<1>1. /\ run' = [run EXCEPT ![p] = r] /\ (Failure \/ UNCHANGED mishaps)
      /\ UNCHANGED <<today, filed, listed, db, floor, passed>>
  BY DEF Begin, Mishap
<1>2. /\ at \in {"idle", "begun", "companies"} /\ todo \in SUBSET Ciks
      /\ at # "idle"
      /\ at = "companies" => full
  OBVIOUS
<1>3. checked \in [Ciks -> SUBSET Days]
  BY Shared, Rows DEF Entries
<1>4. today \in Days /\ today \in Int /\ db \in Database  BY Shared
<1>5. db.acc \in [Ciks -> (SUBSET Days) \cup {None}]  BY <1>4, Rows
<1> HIDE DEF at, checked, todo
<1>6. r \in Locals
  BY <1>2, <1>3, <1>4, <1>5, IdleTypes DEF Locals
<1>7. /\ r.at = at /\ r.full = full /\ r.since = today /\ r.acc = db.acc
      /\ r.to = None /\ r.got = None /\ \A c \in Ciks : r.found[c] = {}
  BY IdleTypes DEF Idle
<1> HIDE DEF r
<1>8. Times(r, today)  BY <1>2, <1>4, <1>7, Numbers DEF Times
<1>9. Reads(r, filed)
  <2>1. \A c \in Ciks : Known(db.acc[c]) \subseteq filed[c]
    BY DEF SyncInv, Stock
  <2> QED  BY <1>7, <2>1 DEF Reads
<1>10. Answered(r, db, filed)  BY <1>7 DEF Answered
<1>11. OldReads(r, db)
  <2>1. Held(db)  BY DEF SyncInv
  <2> QED  BY <1>7, <2>1 DEF OldReads, Held
<1>12. Behind(r, db, filed, floor, passed) /\ InHand(r, db, filed)
  BY <1>2, <1>7 DEF Behind, InHand
<1>13. ProcInv(r, db, filed, today, floor, passed)
  BY <1>8, <1>9, <1>10, <1>11, <1>12 DEF ProcInv
<1> QED  BY <1>1, <1>6, <1>13, LocalStep

\* The first index a run reads, and the cursor it will leave.
LEMMA Window ==
    ASSUME SyncInv, NEW indexes, indexes \subseteq listed,
           \A d \in indexes : d <= today
    PROVE  /\ WindowStart \in Int /\ WindowStart <= today - Overlap
           /\ db.cursor # None => WindowStart = db.cursor - Overlap
           /\ CursorAfter(indexes) \in Days \cup {None}
           /\ CursorAfter(indexes) # None => CursorAfter(indexes) <= today
<1>1. /\ today \in Int /\ today \in Days /\ listed \subseteq Days
      /\ db.cursor \in Days \cup {None}
      /\ db.cursor # None => db.cursor \in Int /\ db.cursor <= today
  BY Shared, Rows
<1>2. /\ WindowStart \in Int /\ WindowStart <= today - Overlap
      /\ db.cursor # None => WindowStart = db.cursor - Overlap
  BY <1>1, Numbers DEF WindowStart
<1>3. CASE indexes = {}  BY <1>1, <1>2, <1>3 DEF CursorAfter
<1>4. CASE indexes # {}
  <2> DEFINE S == indexes \cup ({db.cursor} \ {None})
  <2>1. S \in SUBSET (0 .. today) /\ S # {}
    <3>1. indexes \subseteq 0 .. today
      BY <1>1, Numbers DEF Days
    <3>2. {db.cursor} \ {None} \subseteq 0 .. today
      BY <1>1, Numbers DEF Days
    <3> QED  BY <1>4, <3>1, <3>2
  <2>2. CursorAfter(indexes) = Max(S)  BY <1>4 DEF CursorAfter
  <2> HIDE DEF S
  <2>3. Max(S) \in 0 .. today  BY <1>1, <2>1, MaxOf
  <2>4. Max(S) \in Days /\ Max(S) <= today
    BY <1>1, <2>3, Numbers DEF Days
  <2> QED  BY <1>2, <2>2, <2>4
<1> QED  BY <1>3, <1>4

LEMMA DiscoverStep ==
    ASSUME SyncInv, NEW p \in Procs, Discover(p)
    PROVE  SyncInv'
<1> DEFINE r == run[p]
           indexes == {d \in listed : WindowStart <= d /\ d <= today}
           found == [c \in Ciks |-> filed[c] \cap indexes]
           new(c) == found[c] \ Known(r.acc[c]) # {}
           suppressed(c) == ~new(c) /\ \E day \in r.checked[c] : Fresh(day)
           todo == {c \in r.cover :
                       /\ new(c) \/ Expired(r.checked[c])
                       /\ ~suppressed(c)}
           to == CursorAfter(indexes)
           n == [r EXCEPT !.at = "companies", !.from = WindowStart,
                          !.found = found, !.to = to, !.todo = todo]
<1>1. /\ r.at = "begun" /\ run' = [run EXCEPT ![p] = n] /\ UNCHANGED mishaps
      /\ UNCHANGED <<today, filed, listed, db, floor, passed>>
  BY DEF Discover
<1>2. /\ r \in Locals /\ filed \in [Ciks -> SUBSET Days] /\ today \in Int
      /\ db \in Database /\ listed \subseteq Days
  BY Shared
<1>3. ProcInv(r, db, filed, today, floor, passed)  BY DEF SyncInv
<1>4. /\ WindowStart \in Int /\ WindowStart <= today - Overlap
      /\ db.cursor # None => WindowStart = db.cursor - Overlap
      /\ to \in Days \cup {None}
      /\ to # None => to <= today
  BY Window
<1>5. found \in [Ciks -> SUBSET Days]  BY <1>2
<1>6. todo \in SUBSET Ciks  BY <1>2, Fields
<1>7. \A c \in r.cover : filed[c] \cap indexes \subseteq Known(r.acc[c]) \/ c \in todo
  BY <1>2, Fields
<1>8. \A c \in Ciks : found[c] \subseteq filed[c]  OBVIOUS
<1> HIDE DEF found, todo, to
<1>9. n \in Locals /\ Cutoff(n) = Cutoff(r) /\ n.cover = r.cover
  BY <1>2, <1>4, <1>5, <1>6 DEF Locals, Cutoff
<1>10. /\ n.at = "companies" /\ n.full = r.full /\ n.since = r.since
       /\ n.acc = r.acc /\ n.from = WindowStart /\ n.to = to /\ n.found = found
       /\ n.todo = todo /\ n.got = r.got
  BY <1>2 DEF Locals
<1>11. r.got = None  BY <1>1, <1>3 DEF ProcInv, Times
<1> HIDE DEF n
<1>12. Times(n, today)
  BY <1>1, <1>3, <1>4, <1>10, <1>11 DEF ProcInv, Times
<1>13. Reads(n, filed)  BY <1>3, <1>8, <1>10, <1>11 DEF ProcInv, Reads
<1>14. Answered(n, db, filed)  BY <1>10, <1>11 DEF Answered
<1>15. OldReads(n, db)
  BY <1>1, <1>3, <1>9, <1>10 DEF ProcInv, OldReads
<1>16. Behind(n, db, filed, floor, passed)
  <2>1. LeftBehind(db, filed, floor, passed)  BY DEF SyncInv
  <2> QED  BY <1>4, <1>10, <2>1 DEF Behind, LeftBehind
<1>17. InHand(n, db, filed)
  <2> SUFFICES ASSUME NEW c \in r.cover, NEW d \in filed[c],
                      WindowStart <= d, d < Cutoff(r)
               PROVE  c \in todo \/ Done(db, c, d)
    BY <1>9, <1>10 DEF InHand
  <2>1. /\ c \in Ciks /\ d \in Days /\ d \in Int /\ 0 <= d /\ r.since \in Int
        /\ Cutoff(r) = r.since + RunDays - Overlap /\ r.since <= today
    <3>1. r.since <= today  BY <1>1, <1>3 DEF ProcInv, Times
    <3>2. /\ r.since \in Int /\ c \in Ciks
          /\ Cutoff(r) = r.since + RunDays - Overlap
      BY <1>2, Fields
    <3>3. d \in Days  BY <1>2, <3>2
    <3>4. d \in Int /\ 0 <= d  BY <3>3, Numbers DEF Days
    <3> QED  BY <3>1, <3>2, <3>3, <3>4
  <2>2. d < today - Delay /\ d <= today  BY <1>2, <2>1, Numbers
  <2>3. d \in listed
    <3>1. Punctual(today, listed)  BY DEF SyncInv
    <3> QED  BY <1>2, <2>1, <2>2, <3>1 DEF Punctual
  <2>4. d \in filed[c] \cap indexes  BY <2>2, <2>3
  <2>5. CASE d \in Known(r.acc[c])
    BY <1>1, <1>3, <2>1, <2>5 DEF ProcInv, OldReads
  <2> QED  BY <1>7, <2>4, <2>5
<1>18. ProcInv(n, db, filed, today, floor, passed)
  BY <1>12, <1>13, <1>14, <1>15, <1>16, <1>17 DEF ProcInv
<1> QED  BY <1>1, <1>9, <1>18, LocalStep

\* A company of the run fails, or another one does.
LEMMA FailStep ==
    ASSUME SyncInv, NEW p \in Procs, RejectOther(p) \/ \E c \in Ciks : Reject(p, c)
    PROVE  SyncInv'
<1> DEFINE r == run[p]
<1>1. PICK todo \in SUBSET Ciks, got \in {None, r.got} :
          /\ r.at = "companies" /\ Failure
          /\ run' = [run EXCEPT ![p] =
                        [r EXCEPT !.todo = todo, !.got = got, !.errors = TRUE]]
          /\ UNCHANGED <<today, filed, listed, db, floor, passed>>
  <2>1. r \in Locals /\ r.todo \in SUBSET Ciks  BY Shared, Fields
  <2>2. CASE RejectOther(p)
    <3>1. [r EXCEPT !.errors = TRUE]
              = [r EXCEPT !.todo = r.todo, !.got = r.got, !.errors = TRUE]
      BY <2>1 DEF Locals
    <3>2. run' = [run EXCEPT ![p] = [r EXCEPT !.errors = TRUE]]
      BY <2>2 DEF RejectOther
    <3> QED  BY <2>1, <2>2, <3>1, <3>2 DEF RejectOther
  <2>3. ASSUME NEW c \in Ciks, Reject(p, c)
        PROVE  /\ r.at = "companies" /\ Failure
               /\ run' = [run EXCEPT ![p] =
                      [r EXCEPT !.todo = r.todo \ {c}, !.got = None,
                                !.errors = TRUE]]
               /\ UNCHANGED <<today, filed, listed, db, floor, passed>>
    BY <2>3 DEF Reject
  <2>4. \A c \in Ciks : r.todo \ {c} \in SUBSET Ciks  BY <2>1
  <2> QED  BY <2>2, <2>3, <2>4
<1> DEFINE n == [r EXCEPT !.todo = todo, !.got = got, !.errors = TRUE]
<1>2. r \in Locals /\ ProcInv(r, db, filed, today, floor, passed)
  BY Shared DEF SyncInv
<1>3. n \in Locals /\ Cutoff(n) = Cutoff(r)
  BY <1>2, Fields DEF Locals, Cutoff
<1>4. /\ n.at = r.at /\ n.full = r.full /\ n.since = r.since /\ n.acc = r.acc
      /\ n.from = r.from /\ n.to = r.to /\ n.found = r.found /\ n.got = got
      /\ n.errors
  BY <1>2 DEF Locals
<1> HIDE DEF n
<1>5. Times(n, today)  BY <1>1, <1>2, <1>4 DEF ProcInv, Times
<1>6. Reads(n, filed) /\ Answered(n, db, filed)
  BY <1>2, <1>4 DEF ProcInv, Reads, Answered
<1>7. OldReads(n, db)  BY <1>2, <1>3, <1>4 DEF ProcInv, OldReads
<1>8. Behind(n, db, filed, floor, passed) /\ InHand(n, db, filed)
  BY <1>2, <1>4 DEF ProcInv, Behind, InHand
<1>9. ProcInv(n, db, filed, today, floor, passed)
  BY <1>5, <1>6, <1>7, <1>8 DEF ProcInv
<1>10. run' = [run EXCEPT ![p] = n]  BY <1>1 DEF n
<1> QED  BY <1>1, <1>3, <1>9, <1>10, LocalStep

\* A company's requests are answered: with the facts that are public, with
\* nothing to fetch, or with a resource missing.
LEMMA FetchStep ==
    ASSUME SyncInv, NEW p \in Procs, NEW c \in Ciks, Fetch(p, c)
    PROVE  SyncInv'
<1> DEFINE r == run[p]
           before == IF r.acc[c] = None THEN db.facts[c] ELSE r.acc[c]
           noted == before \cup filed[c] \cup r.found[c]
           some == Known(r.acc[c]) \cup r.found[c]
           g(kind, acc) == [cik |-> c, kind |-> kind, acc |-> acc,
                            payload |-> IF kind = "facts" THEN filed[c]
                                        ELSE {}]
           n(kind, acc) == [r EXCEPT !.todo = @ \ {c}, !.got = g(kind, acc)]
<1>1. /\ r \in Locals /\ filed \in [Ciks -> SUBSET Days] /\ db \in Database
      /\ ProcInv(r, db, filed, today, floor, passed) /\ Stock(db, filed)
  BY Shared DEF SyncInv
<1>2. /\ r.at = "companies" /\ r.got = None /\ (Failure \/ UNCHANGED mishaps)
      /\ UNCHANGED <<today, filed, listed, db, floor, passed>>
  BY DEF Fetch, Mishap
<1>3. PICK kind \in {"facts", "known", "no facts", "no company"},
           acc \in {noted, some} :
          /\ run' = [run EXCEPT ![p] = n(kind, acc)]
          /\ kind = "known" => acc = noted /\ (filed[c] \cup r.found[c]) \ before = {}
  BY DEF Fetch
<1>4. before \subseteq filed[c] /\ r.found[c] \subseteq filed[c]
      /\ Known(r.acc[c]) \subseteq filed[c]
  BY <1>1 DEF ProcInv, Reads, Stock, Known
<1>5. acc \subseteq filed[c] /\ acc \in SUBSET Days  BY <1>1, <1>4
<1>6. kind = "known" => /\ filed[c] \subseteq before
                        /\ r.acc[c] = None => acc \subseteq db.facts[c]
  BY <1>3, <1>4
<1> HIDE DEF noted, some
<1> DEFINE got == g(kind, acc)
           m == n(kind, acc)
<1>7. got \in Answers  BY <1>1, <1>5 DEF Answers
<1>8. /\ got.cik = c /\ got.kind = kind /\ got.acc = acc
      /\ kind = "facts" => got.payload = filed[c]
      /\ got.payload \subseteq filed[c]
  OBVIOUS
<1>9. got # None  BY <1>7, AnswerFields
<1> HIDE DEF got
<1>10. m = [r EXCEPT !.todo = r.todo \ {c}, !.got = got]  BY DEF got
<1>11. r.todo \ {c} \in SUBSET Ciks  BY <1>1, Fields
<1> HIDE DEF m
<1>12. m \in Locals /\ Cutoff(m) = Cutoff(r) /\ m.cover = r.cover
  BY <1>1, <1>7, <1>10, <1>11 DEF Locals, Cutoff
<1>13. /\ m.at = r.at /\ m.full = r.full /\ m.since = r.since /\ m.acc = r.acc
       /\ m.from = r.from /\ m.to = r.to /\ m.found = r.found
       /\ m.errors = r.errors /\ m.got = got /\ m.todo = r.todo \ {c}
  BY <1>1, <1>10 DEF Locals
<1>14. Times(m, today)  BY <1>1, <1>2, <1>13 DEF ProcInv, Times
<1>15. Reads(m, filed)
  BY <1>1, <1>5, <1>8, <1>13 DEF ProcInv, Reads
<1>16. Answered(m, db, filed)
  BY <1>5, <1>6, <1>8, <1>13 DEF Answered
<1>17. OldReads(m, db)
  BY <1>1, <1>12, <1>13 DEF ProcInv, OldReads
<1>18. Behind(m, db, filed, floor, passed)
  BY <1>1, <1>13 DEF ProcInv, Behind
<1>19. InHand(m, db, filed)
  <2> SUFFICES ASSUME ~r.full, NEW k \in r.cover, NEW d \in filed[k],
                      r.from <= d, d < Cutoff(r), ~r.errors
               PROVE  \/ k \in r.todo \ {c} \/ Done(db, k, d)
                      \/ Resolves(m, db, k, d)
    BY <1>12, <1>13 DEF InHand
  <2>1. k \in r.todo \/ Done(db, k, d)
    BY <1>1, <1>2 DEF ProcInv, InHand, Resolves
  <2>2. CASE k # c  BY <2>1, <2>2
  <2>3. CASE k = c
    <3>1. CASE kind = "known" /\ r.acc[c] # None
      <4>1. d \in Known(r.acc[c])  BY <1>6, <2>3, <3>1 DEF Known
      <4> QED  BY <1>1, <1>2, <2>3, <4>1 DEF ProcInv, OldReads
    <3>2. CASE kind = "known" /\ r.acc[c] = None
      BY <1>6, <1>8, <1>9, <1>13, <2>3, <3>2 DEF Resolves
    <3>3. CASE kind # "known"
      BY <1>8, <1>9, <1>13, <2>3, <3>3 DEF Resolves
    <3> QED  BY <3>1, <3>2, <3>3
  <2> QED  BY <2>2, <2>3
<1>20. ProcInv(m, db, filed, today, floor, passed)
  BY <1>14, <1>15, <1>16, <1>17, <1>18, <1>19 DEF ProcInv
<1>21. run' = [run EXCEPT ![p] = m]  BY <1>3 DEF m
<1> QED  BY <1>2, <1>12, <1>20, <1>21, LocalStep

-----------------------------------------------------------------------------
\* What lies before a cutoff was filed before any run began that is going on.
LEMMA CutoffPast ==
    ASSUME NEW r \in Locals, NEW t \in Int, Times(r, t)
    PROVE  /\ r.at # "idle" => Cutoff(r) <= t - RunDays
           /\ r.at # "idle" => t - RunDays <= r.since
           /\ r.at = "companies" /\ ~r.full => r.from <= t - RunDays
<1>1. r.since \in Int /\ r.from \in Int /\ Cutoff(r) = r.since + RunDays - Overlap
  BY Fields
<1>2. t - Overlap <= t - RunDays  BY Numbers
<1>3. CASE r.at # "idle"
  <2>1. r.since <= t /\ t <= r.since + RunDays  BY <1>3 DEF Times
  <2>2. Cutoff(r) <= t - RunDays  BY <1>1, <2>1, Numbers
  <2>3. t - RunDays <= r.since  BY <1>1, <2>1, Numbers
  <2>4. r.at = "companies" /\ ~r.full => r.from <= t - RunDays
    BY <1>1, <1>2, Numbers DEF Times
  <2> QED  BY <2>2, <2>3, <2>4
<1> QED  BY <1>3

\* What is done with stays done with when an answer is stored, unless the
\* answer is older than the filing.
LEMMA CommitStep ==
    ASSUME SyncInv, NEW p \in Procs, Commit(p)
    PROVE  SyncInv'
<1> DEFINE r == run[p]
           g == run[p].got
           k == g.cik
           first == r.acc[k] = None
           n == [r EXCEPT !.got = None]
<1>1. /\ g # None /\ db' = Stored(g, first) /\ run' = [run EXCEPT ![p] = n]
      /\ passed' = IF g.kind = "facts" THEN passed \ {k} ELSE passed
      /\ UNCHANGED <<today, filed, listed, floor, mishaps>>
  BY DEF Commit
<1>2. /\ r \in Locals /\ filed \in [Ciks -> SUBSET Days] /\ db \in Database
      /\ today \in Days /\ today \in Int /\ passed \subseteq Ciks
      /\ ProcInv(r, db, filed, today, floor, passed) /\ Stock(db, filed)
  BY Shared DEF SyncInv
<1>3. g \in Answers  BY <1>1, <1>2, Fields
<1>4. /\ k \in Ciks /\ g.kind \in {"facts", "known", "no facts", "no company"}
      /\ g.acc \in SUBSET Days /\ g.payload \in SUBSET Days
  BY <1>3, AnswerFields
<1>5. /\ g.payload \subseteq filed[k] /\ g.acc \subseteq filed[k]
      /\ g.kind = "facts" => g.acc \subseteq g.payload
      /\ g.kind = "facts" => \A d \in filed[k] : d < r.since => d \in g.payload
      /\ g.kind = "known" => (first => g.acc \subseteq db.facts[k])
      /\ r.at = "companies"
  BY <1>1, <1>2 DEF ProcInv, Reads, Answered, Times
\* The rows after it, one field at a time.
<1>6. /\ db' \in Database /\ db'.cursor = db.cursor
      /\ \A c \in Ciks : c # k => /\ db'.acc[c] = db.acc[c]
                                  /\ db'.facts[c] = db.facts[c]
                                  /\ db'.cf[c] = db.cf[c]
                                  /\ db'.sub[c] = db.sub[c]
      /\ db'.acc[k] = db.acc[k] \/ db'.acc[k] = g.acc
      /\ g.kind = "facts" => /\ db'.facts[k] = db.facts[k] \cup g.payload
                             /\ db'.acc[k] = g.acc
      /\ g.kind # "facts" => db'.facts[k] = db.facts[k]
      /\ g.kind = "known" => /\ db'.cf = db.cf /\ db'.sub = db.sub
                             /\ ~first => db'.acc[k] = db.acc[k]
      /\ g.kind = "no facts" => db'.cf[k] = today
      /\ g.kind = "no company" => db'.sub[k] = today
  <2>1. /\ db.cursor \in Days \cup {None}
        /\ db.acc \in [Ciks -> (SUBSET Days) \cup {None}]
        /\ db.facts \in [Ciks -> SUBSET Days]
        /\ db.cf \in [Ciks -> Days \cup {None}]
        /\ db.sub \in [Ciks -> Days \cup {None}]
    BY <1>2, Rows
  <2> DEFINE A == [db.acc EXCEPT ![k] = g.acc]
             F == [db.facts EXCEPT ![k] = @ \cup g.payload]
             now(f) == [f EXCEPT ![k] = today]
             gone(f) == [f EXCEPT ![k] = None]
  <2>2. /\ A \in [Ciks -> (SUBSET Days) \cup {None}]
        /\ F \in [Ciks -> SUBSET Days]
        /\ now(db.cf) \in [Ciks -> Days \cup {None}]
        /\ now(db.sub) \in [Ciks -> Days \cup {None}]
        /\ gone(db.cf) \in [Ciks -> Days \cup {None}]
        /\ gone(db.sub) \in [Ciks -> Days \cup {None}]
    BY <1>2, <1>4, <2>1
  <2>3. CASE g.kind = "facts"
    <3>1. db' = [db EXCEPT !.facts = F, !.acc = A, !.cf = gone(db.cf),
                           !.sub = gone(db.sub)]
      BY <1>1, <2>3 DEF Stored
    <3> HIDE DEF k
    <3> QED  BY <1>2, <1>4, <2>1, <2>2, <2>3, <3>1 DEF Database
  <2>4. CASE g.kind = "known" /\ first
    <3>1. db' = [db EXCEPT !.acc = A]  BY <1>1, <2>4 DEF Stored
    <3> HIDE DEF k
    <3> QED  BY <1>2, <1>4, <2>1, <2>2, <2>4, <3>1 DEF Database
  <2>5. CASE g.kind = "known" /\ ~first
    <3>1. db' = db  BY <1>1, <2>5 DEF Stored
    <3> QED  BY <1>2, <1>4, <2>5, <3>1
  <2>6. CASE g.kind = "no facts"
    <3>1. db' = [db EXCEPT !.acc = A, !.cf = now(db.cf), !.sub = gone(db.sub)]
      BY <1>1, <2>6 DEF Stored
    <3> HIDE DEF k
    <3> QED  BY <1>2, <1>4, <2>1, <2>2, <2>6, <3>1 DEF Database
  <2>7. CASE g.kind = "no company"
    <3>1. db' = [db EXCEPT !.acc = A, !.sub = now(db.sub)]
      BY <1>1, <2>7 DEF Stored
    <3> HIDE DEF k
    <3> QED  BY <1>2, <1>4, <2>1, <2>2, <2>7, <3>1 DEF Database
  <2> QED  BY <1>4, <2>3, <2>4, <2>5, <2>6, <2>7
<1>7. today # None  BY <1>2, Numbers
<1>8. \A c \in Ciks : db.facts[c] \subseteq db'.facts[c]  BY <1>6
<1> HIDE DEF first, n
<1>9. Times(r, today)  BY <1>2 DEF ProcInv
<1>10. today - RunDays \in Int /\ today - RunDays <= r.since /\ r.since \in Int
  <2>1. today - RunDays <= r.since  BY <1>2, <1>5, <1>9, CutoffPast
  <2> QED  BY <1>2, <2>1, Fields, Numbers
<1>11. \A c \in Ciks : \A d \in filed[c] : d \in Int
  BY <1>2, Numbers
<1>12. ASSUME NEW c \in Ciks, NEW d \in filed[c], d < today - RunDays,
              g.kind = "facts", c = k
       PROVE  Done(db', c, d)
  <2>1. d < r.since  BY <1>10, <1>11, <1>12
  <2>2. d \in g.payload  BY <1>5, <1>12, <2>1
  <2> QED  BY <1>6, <1>12, <2>2 DEF Done
<1>13. ASSUME NEW c \in Ciks, NEW d \in filed[c], d < today - RunDays,
              Done(db, c, d)
       PROVE  Done(db', c, d)
  <2>1. CASE c # k  BY <1>6, <1>13, <2>1 DEF Done
  <2>2. CASE c = k /\ g.kind = "facts"  BY <1>12, <1>13, <2>2
  <2>3. CASE c = k /\ g.kind = "known"
    BY <1>6, <1>13, <2>3 DEF Done
  <2>4. CASE c = k /\ g.kind \in {"no facts", "no company"}
    BY <1>6, <1>7, <2>4 DEF Done
  <2> QED  BY <1>4, <2>1, <2>2, <2>3, <2>4
<1>14. ASSUME NEW c \in Ciks, NEW d \in Owing(filed, floor, passed', c),
              d < today - RunDays
       PROVE  d \in Owing(filed, floor, passed, c) \/ Done(db', c, d)
  <2>1. d \in filed[c] /\ d >= floor /\ c \notin passed'
    BY DEF Owing
  <2>2. CASE c \in passed
    <3>1. g.kind = "facts" /\ c = k  BY <1>1, <2>1, <2>2
    <3> QED  BY <1>12, <1>14, <2>1, <3>1
  <2>3. CASE c \notin passed  BY <2>1, <2>3 DEF Owing
  <2> QED  BY <2>2, <2>3
<1>15. Held(db')
  <2> SUFFICES ASSUME NEW c \in Ciks, NEW d \in Known(db'.acc[c])
               PROVE  Done(db', c, d)
    BY DEF Held
  <2>1. ASSUME NEW b \in Ciks, NEW e \in Known(db.acc[b]) PROVE Done(db, b, e)
    BY DEF SyncInv, Held
  <2>2. CASE c # k
    <3>1. Done(db, c, d)  BY <1>6, <2>1, <2>2
    <3> QED  BY <1>6, <2>2, <3>1 DEF Done
  <2>3. CASE c = k /\ g.kind = "facts"
    BY <1>5, <1>6, <2>3 DEF Done, Known
  <2>4. CASE c = k /\ g.kind = "known"
    <3>1. CASE db'.acc[k] = db.acc[k]
      <4>1. Done(db, c, d)  BY <2>1, <2>4, <3>1
      <4> QED  BY <1>6, <2>4, <4>1 DEF Done
    <3>2. CASE db'.acc[k] # db.acc[k]
      <4>1. first /\ db'.acc[k] = g.acc  BY <1>6, <2>4, <3>2
      <4> QED  BY <1>5, <1>6, <2>4, <4>1 DEF Done, Known
    <3> QED  BY <3>1, <3>2
  <2>5. CASE c = k /\ g.kind \in {"no facts", "no company"}
    BY <1>6, <1>7, <2>5 DEF Done
  <2> QED  BY <1>4, <2>2, <2>3, <2>4, <2>5
<1>16. Stock(db', filed)
  <2> SUFFICES ASSUME NEW c \in Ciks
               PROVE  db'.facts[c] \subseteq filed[c] /\ Known(db'.acc[c]) \subseteq filed[c]
    BY DEF Stock
  <2>1. db.facts[c] \subseteq filed[c] /\ Known(db.acc[c]) \subseteq filed[c]
    BY <1>2 DEF Stock
  <2>2. CASE c # k  BY <1>6, <2>1, <2>2
  <2>3. CASE c = k
    <3>1. db'.facts[c] \subseteq filed[c]  BY <1>5, <1>6, <2>1, <2>3
    <3>2. Known(g.acc) \subseteq filed[c]  BY <1>5, <2>3 DEF Known
    <3> QED  BY <1>6, <2>1, <2>3, <3>1, <3>2
  <2> QED  BY <2>2, <2>3
<1>17. LeftBehind(db', filed, floor, passed')
  <2> SUFFICES ASSUME db.cursor # None, NEW c \in Ciks,
                      NEW d \in Owing(filed, floor, passed', c),
                      d < db.cursor - Overlap
               PROVE  Done(db', c, d)
    BY <1>6 DEF LeftBehind
  <2>1. d \in filed[c] /\ d \in Int  BY <1>11 DEF Owing
  <2>2. db.cursor \in Int /\ db.cursor <= today  BY Shared
  <2>3. d < today - RunDays  BY <1>2, <2>1, <2>2, Numbers
  <2>4. CASE d \in Owing(filed, floor, passed, c)
    <3>1. Done(db, c, d)  BY <2>4 DEF SyncInv, LeftBehind
    <3> QED  BY <1>13, <2>1, <2>3, <3>1
  <2> QED  BY <1>14, <2>3, <2>4
<1>18. n \in Locals /\ Cutoff(n) = Cutoff(r) /\ n.cover = r.cover
  BY <1>2 DEF n, Locals, Cutoff
<1>19. /\ n.at = r.at /\ n.full = r.full /\ n.since = r.since /\ n.acc = r.acc
       /\ n.from = r.from /\ n.to = r.to /\ n.found = r.found
       /\ n.errors = r.errors /\ n.got = None /\ n.todo = r.todo
  BY <1>2 DEF n, Locals
<1>20. ASSUME NEW q \in Procs
       PROVE  ProcInv(run'[q], db', filed, today, floor, passed')
  <2> DEFINE s == run[q]
             m == run'[q]
  <2>1. s \in Locals /\ ProcInv(s, db, filed, today, floor, passed)
    BY Shared DEF SyncInv
  <2>2. /\ Cutoff(m) = Cutoff(s) /\ m.cover = s.cover
        /\ m.at = s.at /\ m.full = s.full /\ m.since = s.since /\ m.acc = s.acc
        /\ m.from = s.from /\ m.to = s.to /\ m.found = s.found
        /\ m.errors = s.errors /\ m.todo = s.todo
        /\ m.got = s.got \/ m.got = None
        /\ q # p => m.got = s.got
    <3>1. CASE q = p  BY <1>1, <1>18, <1>19, <3>1, Shared
    <3>2. CASE q # p
      <4>1. m = s  BY <1>1, <3>2, Shared
      <4> QED  BY <4>1
    <3> QED  BY <3>1, <3>2
  <2> HIDE DEF m
  <2>3. /\ s.at # "idle" => Cutoff(s) <= today - RunDays
        /\ s.at = "companies" /\ ~s.full => s.from <= today - RunDays
    BY <1>2, <2>1, CutoffPast DEF ProcInv
  <2>4. Cutoff(s) \in Int /\ s.from \in Int /\ s.cover \subseteq Ciks
    BY <2>1, Fields
  <2>5. Times(m, today) /\ Reads(m, filed)
    BY <2>1, <2>2 DEF ProcInv, Times, Reads
  <2>6. Answered(m, db', filed)
    <3>1. s.got # None => s.got \in Answers /\ s.got.cik \in Ciks
      BY <2>1, Fields, AnswerFields
    <3> QED  BY <1>8, <2>1, <2>2, <3>1 DEF ProcInv, Answered
  <2>7. OldReads(m, db')
    <3> SUFFICES ASSUME s.at # "idle", NEW c \in Ciks, NEW d \in Known(s.acc[c]),
                        d < Cutoff(s)
                 PROVE  Done(db', c, d)
      BY <2>2 DEF OldReads
    <3>1. d \in filed[c] /\ d \in Int  BY <1>11, <2>1 DEF ProcInv, Reads
    <3>2. Done(db, c, d)  BY <2>1 DEF ProcInv, OldReads
    <3>3. d < today - RunDays  BY <1>10, <2>3, <2>4, <3>1
    <3> QED  BY <1>13, <3>1, <3>2, <3>3
  <2>8. Behind(m, db', filed, floor, passed')
    <3> SUFFICES ASSUME s.at = "companies", ~s.full, NEW c \in Ciks,
                        NEW d \in Owing(filed, floor, passed', c), d < s.from,
                        db.cursor # None
                 PROVE  Done(db', c, d)
      BY <1>6, <2>2 DEF Behind
    <3>1. d \in filed[c] /\ d \in Int  BY <1>11 DEF Owing
    <3>2. d < today - RunDays  BY <1>10, <2>3, <2>4, <3>1
    <3>3. CASE d \in Owing(filed, floor, passed, c)
      <4>1. Done(db, c, d)  BY <2>1, <3>3 DEF ProcInv, Behind
      <4> QED  BY <1>13, <3>1, <3>2, <4>1
    <3> QED  BY <1>14, <3>2, <3>3
  <2>9. InHand(m, db', filed)
    <3> SUFFICES ASSUME s.at = "companies", ~s.full, NEW c \in s.cover,
                        NEW d \in filed[c], s.from <= d, d < Cutoff(s),
                        ~s.errors, c \notin s.todo
                 PROVE  Done(db', c, d) \/ Resolves(m, db', c, d)
      BY <2>2 DEF InHand
    <3>1. c \in Ciks /\ d \in Int  BY <1>11, <2>4
    <3>2. d < today - RunDays  BY <1>10, <2>3, <2>4, <3>1
    <3>3. Done(db, c, d) \/ Resolves(s, db, c, d)
      BY <2>1 DEF ProcInv, InHand
    <3>4. CASE Done(db, c, d)  BY <1>13, <3>1, <3>2, <3>4
    <3>5. CASE Resolves(s, db, c, d) /\ q # p
      BY <1>8, <2>2, <3>1, <3>5 DEF Resolves
    <3>6. CASE Resolves(s, db, c, d) /\ q = p
      <4>1. /\ c = k
            /\ g.kind = "facts" => d \in g.payload
            /\ g.kind = "known" => d \in db.facts[k]
        BY <3>6 DEF Resolves
      <4> QED  BY <1>4, <1>6, <1>7, <4>1 DEF Done
    <3> QED  BY <3>3, <3>4, <3>5, <3>6
  <2> QED  BY <2>5, <2>6, <2>7, <2>8, <2>9 DEF ProcInv, m
<1>21. TypeOK'
  <2>1. run' \in [Procs -> Locals]  BY <1>1, <1>18, Shared
  <2>2. passed' \subseteq Ciks  BY <1>1, <1>2
  <2> QED  BY <1>1, <1>6, <2>1, <2>2, Shared DEF TypeOK
<1> QED
  <2>1. /\ \A c \in Ciks : filed[c] \subseteq 0 .. today
        /\ Punctual(today, listed)
    BY DEF SyncInv
  <2>2. today' = today /\ filed' = filed /\ listed' = listed /\ floor' = floor
    BY <1>1
  <2> QED
    BY <1>15, <1>16, <1>17, <1>20, <1>21, <2>1, <2>2 DEF SyncInv

\* The cursor moves: over days whose indexes the run has read and whose filings
\* it has dealt with, company by company.
LEMMA FinishStep ==
    ASSUME SyncInv, NEW p \in Procs, Finish(p)
    PROVE  SyncInv'
<1> DEFINE r == run[p]
<1>1. /\ r.at = "companies" /\ r.todo = {} /\ r.got = None
      /\ run' = [run EXCEPT ![p] = Idle]
      /\ UNCHANGED <<today, filed, listed, mishaps>>
  BY DEF Finish
<1>2. /\ r \in Locals /\ filed \in [Ciks -> SUBSET Days] /\ db \in Database
      /\ today \in Int /\ passed \subseteq Ciks /\ floor \in Int
      /\ db.cursor # None => db.cursor \in Int
      /\ ProcInv(r, db, filed, today, floor, passed)
  BY Shared DEF SyncInv
<1>3. CASE ~Advances(r)
  <2>1. UNCHANGED <<today, filed, listed, db, floor, passed>>
    BY <1>1, <1>3 DEF Finish
  <2>2. ProcInv(Idle, db, filed, today, floor, passed)  BY IdleInv
  <2> QED  BY <1>1, <2>1, <2>2, IdleTypes, LocalStep
<1>4. CASE Advances(r)
  <2>1. /\ db' = [db EXCEPT !.cursor = r.to]
        /\ floor' = IF db.cursor = None THEN r.from ELSE floor
        /\ passed' = passed \cup (Ciks \ r.cover)
    BY <1>4 DEF Finish
  <2>2. /\ ~r.full /\ ~r.errors /\ r.to # None /\ r.to \in Days
        /\ r.to \in Int /\ r.to <= today /\ r.from \in Int
        /\ r.cover \subseteq Ciks /\ r.since \in Int
        /\ Cutoff(r) = r.since + RunDays - Overlap
    <3>1. ~r.full /\ ~r.errors /\ r.to # None  BY <1>4 DEF Advances
    <3>2. r.to \in Days /\ r.to \in Int /\ r.to <= today
      BY <1>2, <3>1, Fields, Numbers DEF ProcInv, Times
    <3> QED  BY <1>2, <3>1, <3>2, Fields
  <2>3. today <= r.since + RunDays  BY <1>1, <1>2 DEF ProcInv, Times
  <2>4. /\ db' \in Database /\ db'.cursor = r.to /\ db'.acc = db.acc
        /\ db'.facts = db.facts /\ db'.cf = db.cf /\ db'.sub = db.sub
    BY <1>2, <2>1, <2>2 DEF Database
  <2>5. \A c, d : Done(db', c, d) <=> Done(db, c, d)  BY <2>4 DEF Done
  <2>6. ASSUME NEW c \in Ciks, c \notin passed', NEW d \in filed[c],
               r.from <= d, d < Cutoff(r)
        PROVE  Done(db, c, d)
    <3>1. c \in r.cover  BY <2>1, <2>6
    <3>2. InHand(r, db, filed)  BY <1>2 DEF ProcInv
    <3> QED  BY <1>1, <2>2, <2>6, <3>1, <3>2 DEF InHand, Resolves
  <2>7. \A c \in Ciks : \A d \in filed[c] : d \in Int  BY <1>2, Numbers
  <2>8. floor' \in Int /\ passed' \subseteq Ciks  BY <1>2, <2>1, <2>2
  <2>9. LeftBehind(db', filed, floor', passed')
    <3> SUFFICES ASSUME NEW c \in Ciks,
                        NEW d \in Owing(filed, floor', passed', c),
                        d < r.to - Overlap
                 PROVE  Done(db, c, d)
      BY <2>4, <2>5 DEF LeftBehind
    <3>1. d \in filed[c] /\ d \in Int /\ d >= floor' /\ c \notin passed'
      BY <2>7 DEF Owing
    <3>2. d < Cutoff(r)  BY <1>2, <2>2, <2>3, <3>1, Numbers
    <3>3. CASE r.from <= d  BY <2>6, <3>1, <3>2, <3>3
    <3>4. CASE d < r.from
      <4>1. db.cursor # None  BY <2>1, <2>2, <3>1, <3>4
      <4>2. d \in Owing(filed, floor, passed, c)
        BY <2>1, <3>1, <4>1 DEF Owing
      <4> QED  BY <1>1, <1>2, <2>2, <3>4, <4>1, <4>2 DEF ProcInv, Behind
    <3> QED  BY <2>2, <3>1, <3>3, <3>4
  <2>10. ASSUME NEW q \in Procs
         PROVE  ProcInv(run'[q], db', filed, today, floor', passed')
    <3>1. CASE q = p
      <4>1. run'[q] = Idle  BY <1>1, <3>1, Shared
      <4> QED  BY <4>1, IdleInv
    <3>2. CASE q # p
      <4> DEFINE s == run[q]
      <4>1. run'[q] = s  BY <1>1, <3>2, Shared
      <4>2. s \in Locals /\ ProcInv(s, db, filed, today, floor, passed)
        BY Shared DEF SyncInv
      <4>3. Times(s, today) /\ Reads(s, filed)  BY <4>2 DEF ProcInv
      <4>4. Answered(s, db', filed)
        BY <2>4, <4>2 DEF ProcInv, Answered
      <4>5. OldReads(s, db')  BY <2>5, <4>2 DEF ProcInv, OldReads
      <4>6. InHand(s, db', filed)
        <5>1. \A c, d : Resolves(s, db', c, d) <=> Resolves(s, db, c, d)
          BY <2>4 DEF Resolves
        <5> QED  BY <2>5, <4>2, <5>1 DEF ProcInv, InHand
      <4>7. Behind(s, db', filed, floor', passed')
        <5> SUFFICES ASSUME s.at = "companies", ~s.full, NEW c \in Ciks,
                            NEW d \in Owing(filed, floor', passed', c),
                            d < s.from
                     PROVE  Done(db, c, d)
          BY <2>5 DEF Behind
        <5>1. d \in filed[c] /\ d \in Int /\ d >= floor' /\ c \notin passed'
          BY <2>7 DEF Owing
        <5>2. CASE db.cursor # None
          <6>1. d \in Owing(filed, floor, passed, c)
            BY <2>1, <5>1, <5>2 DEF Owing
          <6> QED  BY <4>2, <5>2, <6>1 DEF ProcInv, Behind
        <5>3. CASE db.cursor = None
          <6>1. s.from \in Int /\ s.from <= today - Overlap
            BY <4>2, Fields DEF ProcInv, Times
          <6>2. d < Cutoff(r)
            BY <1>2, <2>2, <2>3, <5>1, <6>1, Numbers
          <6>3. r.from <= d  BY <2>1, <2>2, <5>1, <5>3
          <6> QED  BY <2>6, <5>1, <6>2, <6>3
        <5> QED  BY <5>2, <5>3
      <4> HIDE DEF s
      <4> QED
        BY <4>1, <4>3, <4>4, <4>5, <4>6, <4>7 DEF ProcInv
    <3> QED  BY <3>1, <3>2
  <2>11. TypeOK'
    <3>1. run' \in [Procs -> Locals]  BY <1>1, IdleTypes, Shared
    <3> QED  BY <1>1, <2>2, <2>4, <2>8, <3>1, Shared DEF TypeOK
  <2>12. Stock(db', filed) /\ Held(db')
    <3>1. Stock(db, filed) /\ Held(db)  BY DEF SyncInv
    <3> QED  BY <2>4, <2>5, <3>1 DEF Stock, Held
  <2>13. /\ \A c \in Ciks : filed[c] \subseteq 0 .. today
         /\ Punctual(today, listed)
    BY DEF SyncInv
  <2>14. today' = today /\ filed' = filed /\ listed' = listed  BY <1>1
  <2> QED  BY <2>9, <2>10, <2>11, <2>12, <2>13, <2>14 DEF SyncInv
<1> QED  BY <1>3, <1>4

-----------------------------------------------------------------------------
\* A company files: too late for anything the invariant speaks of.
LEMMA FileStep ==
    ASSUME SyncInv, NEW c \in Ciks, File(c)
    PROVE  SyncInv'
<1>1. /\ filed' = [filed EXCEPT ![c] = @ \cup {today}]
      /\ UNCHANGED <<today, listed, db, run, floor, passed, mishaps>>
  BY DEF File
<1>2. /\ filed \in [Ciks -> SUBSET Days] /\ today \in Days /\ today \in Int
      /\ \A k \in Ciks : filed[k] \subseteq 0 .. today
      /\ db.cursor # None => db.cursor \in Int /\ db.cursor <= today
  BY Shared DEF SyncInv
<1>3. /\ filed' \in [Ciks -> SUBSET Days]
      /\ \A k \in Ciks : /\ filed[k] \subseteq filed'[k]
                         /\ filed'[k] \subseteq filed[k] \cup {today}
  BY <1>1, <1>2
<1> DEFINE f == filed'
<1> HIDE DEF f
<1>4. /\ f \in [Ciks -> SUBSET Days]
      /\ \A k \in Ciks : filed[k] \subseteq f[k]
      /\ \A k \in Ciks : \A d \in f[k] : d \in filed[k] \/ d = today
  BY <1>3 DEF f
<1>5. \A k \in Ciks : \A d \in Owing(f, floor, passed, k) :
          d \in Owing(filed, floor, passed, k) \/ d = today
  BY <1>4 DEF Owing
<1>6. TypeOK'  BY <1>1, <1>3, Shared DEF TypeOK
<1>7. \A k \in Ciks : f[k] \subseteq 0 .. today
  <2>1. today \in 0 .. today  BY <1>2, Numbers DEF Days
  <2> QED  BY <1>2, <1>4, <2>1
<1>8. Stock(db, f)
  <2>1. Stock(db, filed)  BY DEF SyncInv
  <2> QED  BY <1>4, <2>1 DEF Stock
<1>9. LeftBehind(db, f, floor, passed)
  <2> SUFFICES ASSUME db.cursor # None, NEW k \in Ciks,
                      NEW d \in Owing(f, floor, passed, k),
                      d < db.cursor - Overlap
               PROVE  Done(db, k, d)
    BY DEF LeftBehind
  <2>1. d # today  BY <1>2, Numbers
  <2>2. d \in Owing(filed, floor, passed, k)  BY <1>5, <2>1
  <2> QED  BY <2>2 DEF SyncInv, LeftBehind
<1>10. ASSUME NEW q \in Procs
       PROVE  ProcInv(run[q], db, f, today, floor, passed)
  <2> DEFINE s == run[q]
  <2>1. s \in Locals /\ ProcInv(s, db, filed, today, floor, passed)
    BY Shared DEF SyncInv
  <2> HIDE DEF s
  <2>2. Times(s, today) /\ OldReads(s, db)  BY <2>1 DEF ProcInv
  <2>3. /\ s.at # "idle" => Cutoff(s) <= today - RunDays /\ s.since <= today
        /\ s.at = "companies" /\ ~s.full => s.from <= today - RunDays
        /\ Cutoff(s) \in Int /\ s.from \in Int /\ s.since \in Int
        /\ s.cover \subseteq Ciks
        /\ s.got # None => s.at = "companies" /\ s.got.cik \in Ciks
    <3>1. s.got # None => s.got \in Answers  BY <2>1, Fields
    <3> QED  BY <1>2, <2>1, <2>2, <3>1, CutoffPast, Fields, AnswerFields DEF Times
  <2>4. Reads(s, f)
    BY <1>4, <2>1, <2>3 DEF ProcInv, Reads
  <2>5. Answered(s, db, f)
    <3> SUFFICES ASSUME s.got # None
                 PROVE  /\ s.got.kind = "facts" =>
                               /\ s.got.acc \subseteq s.got.payload
                               /\ \A d \in f[s.got.cik] :
                                      d < s.since => d \in s.got.payload
                        /\ s.got.kind = "known" =>
                               (s.acc[s.got.cik] = None =>
                                    s.got.acc \subseteq db.facts[s.got.cik])
      BY DEF Answered
    <3>1. s.at # "idle" /\ s.got.cik \in Ciks /\ s.since <= today
      BY <2>3
    <3>2. \A d \in f[s.got.cik] : d < s.since => d \in filed[s.got.cik]
      BY <1>2, <1>4, <2>3, <3>1
    <3> QED  BY <2>1, <3>2 DEF ProcInv, Answered
  <2>6. Behind(s, db, f, floor, passed)
    <3> SUFFICES ASSUME s.at = "companies", ~s.full, NEW k \in Ciks,
                        NEW d \in Owing(f, floor, passed, k), d < s.from
                 PROVE  db.cursor = None \/ Done(db, k, d)
      BY DEF Behind
    <3>1. d # today  BY <1>2, <2>3, Numbers
    <3>2. d \in Owing(filed, floor, passed, k)  BY <1>5, <3>1
    <3> QED  BY <2>1, <3>2 DEF ProcInv, Behind
  <2>7. InHand(s, db, f)
    <3> SUFFICES ASSUME s.at = "companies", ~s.full, NEW k \in s.cover,
                        NEW d \in f[k], s.from <= d, d < Cutoff(s)
                 PROVE  \/ s.errors \/ k \in s.todo \/ Done(db, k, d)
                        \/ Resolves(s, db, k, d)
      BY DEF InHand
    <3>1. d # today  BY <1>2, <2>3, Numbers
    <3>2. k \in Ciks /\ d \in filed[k]  BY <1>4, <2>3, <3>1
    <3> QED  BY <2>1, <3>2 DEF ProcInv, InHand
  <2>8. ProcInv(s, db, f, today, floor, passed)
    BY <2>2, <2>4, <2>5, <2>6, <2>7 DEF ProcInv
  <2> QED  BY <2>8 DEF s
<1>11. Punctual(today, listed) /\ Held(db)  BY DEF SyncInv
<1> QED
  BY <1>1, <1>6, <1>7, <1>8, <1>9, <1>10, <1>11 DEF SyncInv, f

\* An index appears.
LEMMA PublishStep ==
    ASSUME SyncInv, NEW d \in Days, Publish(d)
    PROVE  SyncInv'
<1>1. /\ listed' = listed \cup {d}
      /\ UNCHANGED <<today, filed, db, run, floor, passed, mishaps>>
  BY DEF Publish
<1>2. TypeOK'  BY <1>1, Shared DEF TypeOK
<1>3. Punctual(today, listed')
  <2>1. Punctual(today, listed)  BY DEF SyncInv
  <2> QED  BY <1>1, <2>1 DEF Punctual
<1> QED  BY <1>1, <1>2, <1>3 DEF SyncInv

\* A day passes.
LEMMA TickStep ==
    ASSUME SyncInv, Tick
    PROVE  SyncInv'
<1>1. /\ today < LastDay /\ today' = today + 1
      /\ \A d \in 0 .. today - Delay : d \in listed
      /\ \A p \in Procs : run[p].at # "idle" => today < run[p].since + RunDays
      /\ UNCHANGED <<filed, listed, db, run, floor, passed, mishaps>>
  BY DEF Tick
<1>2. today \in Int /\ today' \in Int /\ 0 <= today
  BY <1>1, Shared, Numbers DEF Days
<1>3. today' \in Days  BY <1>1, <1>2, Numbers DEF Days
<1>4. TypeOK'
  <2>1. db'.cursor # None => db'.cursor <= today'
    BY <1>1, <1>2, Shared
  <2> QED  BY <1>1, <1>3, <2>1, Shared DEF TypeOK
<1>5. \A c \in Ciks : filed[c] \subseteq 0 .. today'
  <2>1. \A c \in Ciks : filed[c] \subseteq 0 .. today  BY DEF SyncInv
  <2> QED  BY <1>1, <1>2, <2>1
<1>6. Punctual(today', listed)
  <2> SUFFICES ASSUME NEW d \in 0 .. today', d < today' - Delay
               PROVE  d \in listed
    BY DEF Punctual
  <2>1. d \in 0 .. today - Delay  BY <1>1, <1>2, Numbers
  <2> QED  BY <1>1, <2>1
<1>7. ASSUME NEW q \in Procs
      PROVE  ProcInv(run[q], db, filed, today', floor, passed)
  <2>1. run[q] \in Locals /\ ProcInv(run[q], db, filed, today, floor, passed)
    BY Shared DEF SyncInv
  <2> DEFINE s == run[q]
  <2>2. /\ s.since \in Int /\ s.from \in Int
        /\ s.to # None => s.to \in Int
        /\ s.at # "idle" => today < s.since + RunDays
    BY <1>1, <2>1, Fields, Numbers
  <2>3. Times(s, today)  BY <2>1 DEF ProcInv
  <2> HIDE DEF s
  <2>4. Times(s, today')
    <3>1. s.at # "idle" => s.since <= today' /\ today' <= s.since + RunDays
      BY <1>1, <1>2, <2>2, <2>3, Numbers DEF Times
    <3>2. s.to # None => s.to <= today'
      BY <1>1, <1>2, <2>2, <2>3 DEF Times
    <3>3. s.at = "companies" /\ ~s.full => s.from <= today' - Overlap
      BY <1>1, <1>2, <2>2, <2>3, Numbers DEF Times
    <3> QED  BY <2>3, <3>1, <3>2, <3>3 DEF Times
  <2> QED  BY <2>1, <2>4 DEF ProcInv, s
<1> QED
  BY <1>1, <1>4, <1>5, <1>6, <1>7 DEF SyncInv

-----------------------------------------------------------------------------
LEMMA NextInv ==
    ASSUME SyncInv, [Next]_vars
    PROVE  SyncInv'
<1>1. CASE UNCHANGED vars
  BY <1>1 DEF vars, SyncInv, TypeOK
<1>2. ASSUME NEW p \in Procs, Work(p) PROVE SyncInv'
  BY <1>2, DiscoverStep, FetchStep, CommitStep, FinishStep DEF Work
<1>3. CASE Next
  BY <1>2, <1>3, FileStep, PublishStep, TickStep, BeginStep, StopStep, FailStep
     DEF Next
<1> QED  BY <1>1, <1>3

(***************************************************************************)
(* The inductive invariant: no process holds an answer, an old read or a   *)
(* window of indexes that could make the database forget a filing.         *)
(***************************************************************************)
THEOREM SyncInvariant == Spec => []SyncInv
<1>1. SyncInv /\ [Next]_vars => SyncInv'  BY NextInv
<1> QED  BY InitInv, <1>1, PTL DEF Spec

(***************************************************************************)
(* The cursor never leaves a filing behind, whatever _sync_sec goes        *)
(* through: failed companies, deaths between the companies and the cursor, *)
(* runs that overlap and commit what they computed from old reads.         *)
(***************************************************************************)
THEOREM NothingLeftBehind == Spec => []CursorLeavesNothing
<1>1. SyncInv => CursorLeavesNothing
  BY DEF SyncInv, LeftBehind, CursorLeavesNothing, Owed, Owing, Done, Unavailable
<1> QED  BY SyncInvariant, <1>1, PTL

(***************************************************************************)
(* An accession noted is one whose facts are held, or whose company is     *)
(* asked for again, in every order in which overlapping runs of            *)
(* _sync_sec_company commit.                                               *)
(***************************************************************************)
THEOREM NotedIsHeld == Spec => []NotedMeansHeld
<1>1. SyncInv => NotedMeansHeld
  BY DEF SyncInv, Held, NotedMeansHeld, Done, Unavailable
<1> QED  BY SyncInvariant, <1>1, PTL

(***************************************************************************)
(* Types are kept, and the cursor of _sync_sec never lies in the future.   *)
(***************************************************************************)
THEOREM SyncTypeCorrect == Spec => []TypeOK
<1>1. SyncInv => TypeOK  BY DEF SyncInv
<1> QED  BY SyncInvariant, <1>1, PTL

=============================================================================
