------------------------ MODULE ShadowRunner_proofs ------------------------
(***************************************************************************)
(* Runner, engine, reducer and verifier agree, and the committed journal   *)
(* implements the abstract ledger, for any processes, clocks, calendars,   *)
(* fills, rankings, deployments and deaths.                                *)
(***************************************************************************)
EXTENDS ShadowRunner, ShadowCalendar_proofs

-----------------------------------------------------------------------------
\* Who is where: the lock is held from "locked" on, the transaction exists from
\* "admitted" on, and one process at most has created the file it is to fill.
Control ==
    /\ \A p \in Procs : lock = p <=> proc[p].at \in {"locked"} \cup SessionStages
    /\ \A p \in Procs : lock = p => (txn # None <=> proc[p].at \in SessionStages)
    /\ lock = None => txn = None
    /\ \A p \in Procs : At(p, "genesis") => file = "empty"
    /\ \A p, q \in Procs : At(p, "genesis") /\ At(q, "genesis") => p = q
    /\ file = "ready" <=> journal # None
    /\ \A p \in Procs : ~At(p, "idle") => /\ proc[p].now \in Clock
                                          /\ proc[p].code \in Identities

\* A ledger after the session of a day.  That no fee was paid is what makes the
\* engine's exit, which subtracts only the exit's, agree with the reducer's.
Book(b, day) ==
    /\ ValidState(b)
    /\ b.position # None =>
           /\ b.position.fee = 0
           /\ b.position.entry \in Official /\ b.position.entry <= day
           /\ b.position.holding = Cardinality(TradingSessions(b.position.entry, day))
           /\ b.position.holding < MaxHold
    /\ b.pending # None => b.pending.signal = day

\* A journal between sessions.
Rest(v) ==
    /\ v \in Verification /\ v.active = None
    /\ v.created \in Clock /\ v.boundary = LatestCompleted(v.created)
    /\ Anchor(v) \in Official /\ v.boundary <= Anchor(v)
    /\ \A s \in v.committed : s \in Official /\ v.boundary < s /\ s <= Anchor(v)
    /\ Book(v.state, Anchor(v))

-----------------------------------------------------------------------------
\* What has become, by a stage of session s, of the ledger b found: a.
Moved(b, a, s) ==
    \/ Kept(b, a) \/ Closed(b, a) \/ Bought(b, a, s)
    \/ RoundTrip(b, a, s) \/ Refused(b, a, s) \/ Idle(b, a)

Aged(b, a, s) ==
    a.position # None =>
        /\ a.position.fee = 0
        /\ IF b.position # None
           THEN /\ a.position.entry = b.position.entry
                /\ a.position.holding = b.position.holding + 1
           ELSE a.position.entry = s /\ a.position.holding = 1

Settled == {"bar", "screen", "close", "decide"}

Inner == {"aging", "open", "entry", "seal"} \cup Settled

Progress(b, a, s, at) ==
    /\ at = "aging" => a = b
    /\ at = "open" => Kept(b, a) /\ Aged(b, a, s)
    /\ at = "entry" => \/ a = b /\ b.position = None
                       \/ /\ Kept(b, a) \/ Closed(b, a)
                          /\ Aged(b, a, s) /\ a.pending = None
    /\ at \in Settled \cup {"seal"} => Moved(b, a, s) /\ Aged(b, a, s)
    /\ at \in Settled => a.pending = None
    /\ at = "seal" /\ a.pending # None => a.pending.signal = s
    /\ at \in {"decide", "seal"} /\ a.position # None => a.position.holding < MaxHold

\* What no event but a commit changes.
SameHeader(j, c) ==
    /\ c.identity = j.identity /\ c.created = j.created
    /\ c.boundary = j.boundary /\ c.last = j.last /\ c.committed = j.committed

\* The journal j with the events of a session that is being processed.
Underway(j, t, at) ==
    /\ t.check \in Verification /\ SameHeader(j, t.check)
    /\ t.check.active = t.session /\ t.check.preflight
    /\ t.check.screened <=> at \in {"close", "decide", "seal"}
    /\ t.check.decided <=> at = "seal"
    /\ at \in {"close", "decide"} =>
           t.check.screen = [complete |-> t.complete, top |-> t.top]
    /\ ValidState(t.state)
    /\ Progress(j.state, t.state, t.session, at)

\* The journal c with one more session than j.
Processed(j, c, s) ==
    /\ Rest(c) /\ c.last = s /\ c.boundary = j.boundary
    /\ Trades(j.state, c.state, s) /\ Ages(j.state, c.state, s)

Content(j, t, at, now) ==
    /\ t \in Transaction
    /\ t.session \in Official /\ Consecutive(Anchor(j), t.session)
    /\ now \in Clock /\ Close[t.session] <= now /\ j.created <= now
    /\ t.current = j.identity
    /\ t.check # None /\ t.check.state = t.state
    /\ at = "admitted" => t.check = j
    /\ at = "verify" => t.check = j \/ Processed(j, t.check, t.session)
    /\ at \in Inner => Underway(j, t, at)

RunnerInv ==
    /\ TypeOK /\ Control
    /\ journal # None => Rest(journal)
    /\ \A p \in Procs : lock = p /\ txn # None =>
           journal # None /\ Content(journal, txn, proc[p].at, proc[p].now)

-----------------------------------------------------------------------------
\* The calendar's next session follows.
LEMMA NextIsConsecutive ==
    ASSUME NEW a \in Official, NEW s, NextSession(a, s)
    PROVE  s \in Official /\ Consecutive(a, s)
  <1>1. Official \subseteq Int /\ Lookahead \in Nat
    BY CalendarAssumption
  <1>2. /\ s \in Official /\ a + 1 <= s /\ s <= a + Lookahead
        /\ \A r \in Official : a + 1 <= r /\ r <= a + Lookahead => s <= r
    BY DEF NextSession, TradingSessions
  <1>3. a < s
    BY <1>1, <1>2
  <1>4. ASSUME NEW r \in Official PROVE a <= r /\ r <= s <=> r = a \/ r = s
    BY <1>1, <1>2, <1>3
  <1>5. ASSUME NEW r PROVE r \in TradingSessions(a, s) <=> r \in {a, s}
    BY <1>2, <1>4 DEF TradingSessions
  <1> QED
    BY <1>2, <1>3, <1>5 DEF Consecutive

LEMMA CalendarTypes ==
    /\ \A s \in Official : s \in Days /\ s \in Nat /\ s \in Int /\ Close[s] \in Nat
    /\ \A d \in Days : d \in Nat /\ d \in Int
    /\ \A t \in Clock : t \in Nat /\ t \in Int
  <1>1. LastDay \in Nat /\ Official \subseteq 0 .. LastDay /\ Clock \subseteq Nat
    BY CalendarAssumption
  <1>2. Close \in [Official -> Nat]
    BY CalendarAssumption
  <1> QED
    BY <1>1, <1>2 DEF Days

LEMMA ConsecutiveDays ==
    ASSUME NEW a, NEW s, Consecutive(a, s)
    PROVE  /\ a \in Official /\ s \in Official /\ a < s
           /\ a \in Days /\ s \in Days /\ a \in Nat /\ s \in Nat
  <1>1. a \in Official /\ s \in Official /\ a < s
    BY DEF Consecutive, TradingSessions
  <1>2. Official \subseteq Days /\ LastDay \in Nat
    BY CalendarAssumption DEF Days
  <1> QED
    BY <1>1, <1>2 DEF Days

\* None is none of the values it is told apart from.
LEMMA NoneFacts ==
    /\ None \notin Days /\ None \notin Procs /\ None \notin State
    /\ None \notin Symbols /\ None \notin Verification /\ None \notin Transaction
    /\ None \notin Position /\ None \notin Pending /\ None \notin Screen
  BY StateAssumption, JournalAssumption, RunnerAssumption, TransactionAssumption,
     CalendarAssumption DEF Days

-----------------------------------------------------------------------------
\* A process that moves to a stage, and all the others that stay where they are.
LEMMA GoFacts ==
    ASSUME TypeOK, NEW p \in Procs, NEW step \in Stages, Go(p, step)
    PROVE  /\ proc' \in [Procs -> [at : Stages, now : Clock \cup {None},
                                   code : Identities \cup {None}]]
           /\ proc'[p].at = step /\ proc'[p].now = proc[p].now
           /\ proc'[p].code = proc[p].code
           /\ \A q \in Procs : q # p => proc'[q] = proc[q]
  BY DEF TypeOK, Go

\* A process that goes back to where it began.
LEMMA FinishFacts ==
    ASSUME TypeOK, NEW p \in Procs, Finish(p)
    PROVE  /\ proc' \in [Procs -> [at : Stages, now : Clock \cup {None},
                                   code : Identities \cup {None}]]
           /\ proc'[p].at = "idle"
           /\ \A q \in Procs : q # p => proc'[q] = proc[q]
  BY DEF TypeOK, Finish, Idle0, Stages

\* An invocation that ends leaves the committed journal and the others alone.
LEMMA FinishKeeps ==
    ASSUME RunnerInv, NEW p \in Procs, Finish(p), UNCHANGED <<file, journal, disk>>
    PROVE  RunnerInv'
  <1>1. TypeOK /\ Control
    BY DEF RunnerInv
  <1>2. /\ proc' \in [Procs -> [at : Stages, now : Clock \cup {None},
                                code : Identities \cup {None}]]
        /\ proc'[p].at = "idle"
        /\ \A q \in Procs : q # p => proc'[q] = proc[q]
    BY <1>1, FinishFacts
  <1>3. IF lock = p THEN lock' = None /\ txn' = None ELSE lock' = lock /\ txn' = txn
    BY DEF Finish
  <1>4. TypeOK'
    BY <1>1, <1>2, <1>3 DEF TypeOK
  <1>5. Control'
    BY <1>1, <1>2, <1>3, NoneFacts DEF Control, At, SessionStages
  <1>6. ASSUME NEW q \in Procs, lock' = q, txn' # None
        PROVE  journal # None /\ Content(journal, txn', proc'[q].at, proc'[q].now)
    <2>1. lock = q /\ q # p /\ txn' = txn /\ proc'[q] = proc[q]
      BY <1>2, <1>3, <1>6, NoneFacts
    <2> QED
      BY <1>6, <2>1 DEF RunnerInv
  <1> QED
    BY <1>4, <1>5, <1>6 DEF RunnerInv

\* A step of a session: what has to be seen to is the transaction it leaves.
LEMMA SessionKeeps ==
    ASSUME RunnerInv, NEW p \in Procs, NEW from \in SessionStages,
           NEW to \in SessionStages, NEW t, Session(p, from, t, to),
           Content(journal, t, to, proc[p].now)
    PROVE  RunnerInv'
  <1>1. TypeOK /\ Control /\ lock = p /\ txn # None /\ journal # None
    BY DEF RunnerInv, Session, At, Control
  <1>2. to \in Stages
    BY DEF Stages
  <1>3. /\ proc' \in [Procs -> [at : Stages, now : Clock \cup {None},
                                code : Identities \cup {None}]]
        /\ proc'[p].at = to /\ proc'[p].now = proc[p].now
        /\ proc'[p].code = proc[p].code
        /\ \A q \in Procs : q # p => proc'[q] = proc[q]
    BY <1>1, <1>2, GoFacts DEF Session
  <1>4. txn' = t /\ t \in Transaction /\ UNCHANGED <<file, journal, disk, lock>>
    BY DEF Session, Content
  <1>5. TypeOK'
    BY <1>1, <1>3, <1>4 DEF TypeOK
  <1>6. ~At(p, "idle") /\ ~At(p, "genesis")
    BY DEF Session, At, SessionStages
  <1>7. Control'
    <2>1. to # "genesis" /\ to # "idle"
      BY DEF SessionStages
    <2>2. \A q \in Procs : At(q, "genesis")' => At(q, "genesis") /\ q # p
      BY <1>3, <2>1 DEF At
    <2>3. t # None
      BY <1>4, NoneFacts
    <2> QED
      BY <1>1, <1>3, <1>4, <1>6, <2>1, <2>2, <2>3 DEF Control, At
  <1>8. \A q \in Procs : lock' = q => q = p
    BY <1>1, <1>4
  <1> QED
    BY <1>1, <1>3, <1>4, <1>5, <1>7, <1>8 DEF RunnerInv

-----------------------------------------------------------------------------
\* A process begins, or goes on, without a transaction: all that matters is
\* where it is and what it has read.
LEMMA OutsideKeeps ==
    ASSUME RunnerInv, NEW p \in Procs, lock # p, UNCHANGED <<file, journal, lock, txn>>,
           disk' \in Identities, NEW to \in Stages \ SessionStages,
           to \notin {"locked", "genesis"},
           proc' \in [Procs -> [at : Stages, now : Clock \cup {None},
                                code : Identities \cup {None}]],
           proc'[p].at = to,
           to # "idle" => proc'[p].now \in Clock /\ proc'[p].code \in Identities,
           \A q \in Procs : q # p => proc'[q] = proc[q]
    PROVE  RunnerInv'
  <1>1. TypeOK'
    BY DEF RunnerInv, TypeOK
  <1>2. Control'
    <2>1. Control
      BY DEF RunnerInv
    <2> QED
      BY <2>1 DEF Control, At
  <1>3. \A q \in Procs : lock' = q => q # p
    OBVIOUS
  <1> QED
    BY <1>1, <1>2, <1>3 DEF RunnerInv

LEMMA InitBeginKeeps ==
    ASSUME RunnerInv, NEW p \in Procs, NEW t \in Clock, InitBegin(p, t)
    PROVE  RunnerInv'
  <1>1. TypeOK /\ Control
    BY DEF RunnerInv
  <1>2. lock # p /\ UNCHANGED <<file, journal, disk, lock, txn>> /\ disk \in Identities
    BY <1>1 DEF InitBegin, Control, At, SessionStages, TypeOK
  <1>3. /\ proc' \in [Procs -> [at : Stages, now : Clock \cup {None},
                                code : Identities \cup {None}]]
        /\ proc'[p].at = "screening inputs" /\ proc'[p].now = t /\ proc'[p].code = disk
        /\ \A q \in Procs : q # p => proc'[q] = proc[q]
    BY <1>1 DEF InitBegin, TypeOK, Stages, InitStages
  <1>4. "screening inputs" \in Stages \ SessionStages
    BY DEF Stages, InitStages, SessionStages
  <1> QED
    BY <1>2, <1>3, <1>4, OutsideKeeps

LEMMA RunBeginKeeps ==
    ASSUME RunnerInv, NEW p \in Procs, NEW t \in Clock, RunBegin(p, t)
    PROVE  RunnerInv'
  <1>1. TypeOK /\ Control
    BY DEF RunnerInv
  <1>2. lock # p /\ UNCHANGED <<file, journal, disk, lock, txn>> /\ disk \in Identities
    BY <1>1 DEF RunBegin, Control, At, SessionStages, TypeOK
  <1>3. /\ proc' \in [Procs -> [at : Stages, now : Clock \cup {None},
                                code : Identities \cup {None}]]
        /\ proc'[p].at = "waiting" /\ proc'[p].now = t /\ proc'[p].code = disk
        /\ \A q \in Procs : q # p => proc'[q] = proc[q]
    BY <1>1 DEF RunBegin, TypeOK, Stages
  <1>4. "waiting" \in Stages \ SessionStages
    BY DEF Stages, SessionStages
  <1> QED
    BY <1>2, <1>3, <1>4, OutsideKeeps

LEMMA InitScreenedKeeps ==
    ASSUME RunnerInv, NEW p \in Procs, NEW t \in Clock, InitScreened(p, t)
    PROVE  RunnerInv'
  <1>1. TypeOK /\ Control
    BY DEF RunnerInv
  <1>2. lock # p /\ UNCHANGED <<file, journal, disk, lock, txn>> /\ disk \in Identities
        /\ proc[p].code \in Identities
    BY <1>1 DEF InitScreened, Control, At, SessionStages, TypeOK
  <1>3. /\ proc' \in [Procs -> [at : Stages, now : Clock \cup {None},
                                code : Identities \cup {None}]]
        /\ proc'[p].at = "creating" /\ proc'[p].now = t /\ proc'[p].code = proc[p].code
        /\ \A q \in Procs : q # p => proc'[q] = proc[q]
    BY <1>1 DEF InitScreened, TypeOK, Stages, InitStages
  <1>4. "creating" \in Stages \ SessionStages
    BY DEF Stages, InitStages, SessionStages
  <1> QED
    BY <1>2, <1>3, <1>4, OutsideKeeps

\* Only one process creates the file: it is absent only before that.
LEMMA InitCreateKeeps ==
    ASSUME RunnerInv, NEW p \in Procs, InitCreate(p)
    PROVE  RunnerInv'
  <1>1. TypeOK /\ Control
    BY DEF RunnerInv
  <1>2. lock # p /\ UNCHANGED <<journal, disk, lock, txn>> /\ file = "absent"
        /\ file' = "empty"
    BY <1>1 DEF InitCreate, Control, At, SessionStages
  <1>3. "genesis" \in Stages \ SessionStages
    BY DEF Stages, InitStages, SessionStages
  <1>4. /\ proc' \in [Procs -> [at : Stages, now : Clock \cup {None},
                                code : Identities \cup {None}]]
        /\ proc'[p].at = "genesis" /\ proc'[p].now = proc[p].now
        /\ proc'[p].code = proc[p].code
        /\ \A q \in Procs : q # p => proc'[q] = proc[q]
    BY <1>1, <1>3, GoFacts DEF InitCreate
  <1>5. TypeOK'
    BY <1>1, <1>2, <1>4 DEF TypeOK
  <1>6. \A q \in Procs : ~At(q, "genesis")
    BY <1>1, <1>2 DEF Control
  <1>7. proc[p].now \in Clock /\ proc[p].code \in Identities
    BY <1>1 DEF InitCreate, At, Control
  <1>8. Control'
    BY <1>1, <1>2, <1>3, <1>4, <1>6, <1>7 DEF Control, At
  <1> QED
    BY <1>2, <1>4, <1>5, <1>8 DEF RunnerInv

\* The inception is accepted, and a journal at rest.
LEMMA InitGenesisKeeps ==
    ASSUME RunnerInv, NEW p \in Procs, InitGenesis(p)
    PROVE  /\ RunnerInv' /\ journal = None /\ journal' # None
           /\ journal'.boundary \in Official /\ journal'.last = None
           /\ journal'.state = InitialState
  <1> DEFINE e == [kind |-> "SHADOW_INITIALIZED", at |-> proc[p].now,
                   identity |-> proc[p].code,
                   boundary |-> LatestCompleted(proc[p].now)]
             v == GenesisValue(e)
  <1>1. TypeOK /\ Control
    BY DEF RunnerInv
  <1>2. At(p, "genesis") /\ lock = None /\ file' = "ready" /\ Finish(p)
        /\ disk' = disk
    BY DEF InitGenesis
  <1>3. e.at \in Clock /\ e.identity \in Identities
    BY <1>1, <1>2 DEF Control, At
  <1>4. journal' = v
    BY <1>3 DEF InitGenesis, GenesisAccepted
  <1>5. /\ e.boundary \in Official /\ e.boundary \in Days /\ e.at \in Nat
        /\ e.boundary \in Int
    <2>1. e.boundary \in Official
      BY <1>3, LatestCompletedFacts
    <2>2. Official \subseteq Days /\ Days \subseteq Int /\ Clock \subseteq Nat
      BY CalendarAssumption DEF Days
    <2> HIDE DEF e
    <2> QED
      BY <1>3, <2>1, <2>2
  <1> HIDE DEF e
  <1>6. InitialState \in State /\ ValidState(InitialState)
    BY StateAssumption DEF InitialState, State, ValidState, CostBasis
  <1>7. v \in Verification
    BY <1>3, <1>5, <1>6 DEF GenesisValue, Verification
  <1>8. e.boundary = LatestCompleted(e.at)
    BY DEF e
  <1>9. Rest(v)
    <2>1. /\ v.active = None /\ v.created = e.at /\ v.boundary = e.boundary
          /\ v.last = None /\ v.committed = {} /\ v.state = InitialState
      BY DEF GenesisValue
    <2>2. Anchor(v) = e.boundary
      BY <2>1 DEF Anchor
    <2>3. Book(v.state, Anchor(v))
      BY <1>6, <2>1 DEF Book, InitialState
    <2> QED
      BY <1>3, <1>5, <1>7, <1>8, <2>1, <2>2, <2>3 DEF Rest
  <1>10. v # None
    BY <1>7, NoneFacts
  <1>11. txn = None /\ lock' = None /\ txn' = None
    BY <1>1, <1>2, NoneFacts DEF Control, Finish
  <1>12. /\ proc' \in [Procs -> [at : Stages, now : Clock \cup {None},
                                 code : Identities \cup {None}]]
         /\ proc'[p].at = "idle"
         /\ \A q \in Procs : q # p => proc'[q] = proc[q]
    BY <1>1, <1>2, FinishFacts
  <1>13. \A q \in Procs : q # p => ~At(q, "genesis")
    BY <1>1, <1>2 DEF Control
  <1>14. TypeOK'
    BY <1>1, <1>2, <1>4, <1>7, <1>11, <1>12 DEF TypeOK
  <1>15. Control'
    BY <1>1, <1>2, <1>4, <1>10, <1>11, <1>12, <1>13, NoneFacts DEF Control, At, SessionStages
  <1>16. journal = None
    BY <1>1, <1>2 DEF Control
  <1>17. v.boundary \in Official /\ v.last = None /\ v.state = InitialState
    BY <1>5 DEF GenesisValue
  <1> QED
    BY <1>4, <1>9, <1>10, <1>11, <1>14, <1>15, <1>16, <1>17 DEF RunnerInv

LEMMA RunLockKeeps ==
    ASSUME RunnerInv, NEW p \in Procs, RunLock(p)
    PROVE  RunnerInv'
  <1>1. TypeOK /\ Control
    BY DEF RunnerInv
  <1>2. /\ At(p, "waiting") /\ lock = None /\ lock' = p /\ Go(p, "locked")
        /\ UNCHANGED <<file, journal, disk, txn>>
    BY DEF RunLock
  <1>3. txn = None
    BY <1>1, <1>2 DEF Control
  <1>4. "locked" \in Stages \ SessionStages
    BY DEF Stages, SessionStages
  <1>5. /\ proc' \in [Procs -> [at : Stages, now : Clock \cup {None},
                                code : Identities \cup {None}]]
        /\ proc'[p].at = "locked" /\ proc'[p].now = proc[p].now
        /\ proc'[p].code = proc[p].code
        /\ \A q \in Procs : q # p => proc'[q] = proc[q]
    BY <1>1, <1>2, <1>4, GoFacts
  <1>6. TypeOK'
    BY <1>1, <1>2, <1>5 DEF TypeOK
  <1>7. Control'
    BY <1>1, <1>2, <1>3, <1>4, <1>5, NoneFacts DEF Control, At
  <1> QED
    BY <1>2, <1>3, <1>6, <1>7 DEF RunnerInv

LEMMA DeployKeeps ==
    ASSUME RunnerInv, NEW v \in Identities, Deploy(v)
    PROVE  RunnerInv'
  <1>1. TypeOK' /\ Control'
    BY DEF RunnerInv, Deploy, TypeOK, Control, At
  <1>2. UNCHANGED <<journal, lock, txn, proc>>
    BY DEF Deploy
  <1> QED
    BY <1>1, <1>2 DEF RunnerInv

\* A session after the boundary had not closed when the journal was made.
LEMMA ClosedLater ==
    ASSUME NEW v, Rest(v), NEW s \in Official, v.boundary < s
    PROVE  v.created < Close[s]
  <1>1. v.created \in Clock /\ v.boundary = LatestCompleted(v.created)
    BY DEF Rest
  <1>2. Close[s] <= v.created => s <= v.boundary
    BY <1>1, LatestCompletedFacts
  <1>3. v.boundary \in Official
    BY <1>1, LatestCompletedFacts
  <1>4. Close[s] \in Nat /\ v.created \in Nat /\ s \in Int /\ v.boundary \in Int
    BY <1>1, <1>3, CalendarTypes
  <1> QED
    BY <1>2, <1>4

LEMMA RunAdmittedKeeps ==
    ASSUME RunnerInv, NEW p \in Procs, NEW asked, RunAdmitted(p, asked)
    PROVE  RunnerInv'
  <1>1. TypeOK /\ Control
    BY DEF RunnerInv
  <1>2. journal # None /\ disk = journal.identity
    BY DEF RunAdmitted, Trusted
  <1>3. PICK s \in Official :
            /\ NextSession(Anchor(journal), s) /\ Admissible(p, asked, s)
            /\ txn' = [session |-> s, state |-> journal.state, check |-> journal,
                       current |-> disk, complete |-> FALSE, top |-> None]
    BY DEF RunAdmitted
  <1>4. /\ At(p, "locked") /\ Go(p, "admitted")
        /\ UNCHANGED <<file, journal, disk, lock>>
    BY DEF RunAdmitted
  <1>5. "admitted" \in SessionStages /\ "admitted" \in Stages
    BY DEF Stages, SessionStages
  <1>6. /\ proc' \in [Procs -> [at : Stages, now : Clock \cup {None},
                                code : Identities \cup {None}]]
        /\ proc'[p].at = "admitted" /\ proc'[p].now = proc[p].now
        /\ proc'[p].code = proc[p].code
        /\ \A q \in Procs : q # p => proc'[q] = proc[q]
    BY <1>1, <1>4, <1>5, GoFacts
  <1>7. Rest(journal) /\ journal \in Verification
    BY <1>1, <1>2 DEF RunnerInv, Rest
  <1>8. Anchor(journal) \in Official /\ Consecutive(Anchor(journal), s)
    BY <1>3, <1>7, NextIsConsecutive DEF Rest
  <1>9. txn' \in Transaction
    <2>1. s \in Days /\ journal.state \in State /\ disk \in Identities
      BY <1>1, <1>7, <1>8, ConsecutiveDays DEF Verification, TypeOK
    <2> QED
      BY <1>3, <1>7, <2>1 DEF Transaction
  <1>10. lock = p /\ lock' = p
    BY <1>1, <1>4 DEF Control, At
  <1>11. proc[p].now \in Clock /\ Close[s] <= proc[p].now /\ journal.boundary < s
    <2>1. proc[p].now \in Clock
      BY <1>1, <1>4 DEF Control, At
    <2>2. proc[p].now >= Close[s] /\ s > journal.boundary
      BY <1>3 DEF Admissible, Selected
    <2>3. Close[s] \in Nat /\ proc[p].now \in Nat /\ s \in Int
      BY <2>1, CalendarTypes
    <2> QED
      BY <2>1, <2>2, <2>3
  <1>12. journal.created <= proc[p].now
    <2>1. journal.created < Close[s]
      BY <1>7, <1>11, ClosedLater
    <2>2. Close[s] \in Nat /\ proc[p].now \in Nat /\ journal.created \in Nat
      BY <1>7, <1>11, CalendarTypes DEF Rest
    <2> QED
      BY <1>11, <2>1, <2>2
  <1>13. Content(journal, txn', "admitted", proc[p].now)
    BY <1>2, <1>3, <1>8, <1>9, <1>11, <1>12 DEF Content, Inner, Settled
  <1>14. TypeOK'
    BY <1>1, <1>4, <1>6, <1>9 DEF TypeOK
  <1>15. Control'
    <2>1. txn' # None
      BY <1>9, NoneFacts
    <2>2. lock' # None
      BY <1>10, NoneFacts
    <2> QED
      BY <1>1, <1>4, <1>5, <1>6, <1>10, <2>1, <2>2 DEF Control, At
  <1> QED
    BY <1>2, <1>4, <1>6, <1>7, <1>10, <1>13, <1>14, <1>15 DEF RunnerInv

-----------------------------------------------------------------------------
\* An event the verifier accepts after the events of the transaction.
LEMMA AppendFolds ==
    ASSUME NEW t \in Transaction, t.check # None, NEW e, Accepts(t.check, e),
           NEW v \in Verification, v = Fold(t.check, e)
    PROVE  /\ Append(t, e) = [t EXCEPT !.check = v]
           /\ Append(t, e) \in Transaction
  BY DEF Append, Transaction

\* The clock reading of a run is good for all its events.
LEMMA TimeAccepted ==
    ASSUME NEW j, Rest(j), NEW t, NEW at, NEW now, Content(j, t, at, now)
    PROVE  now \in Clock /\ now \in Nat /\ now >= j.created
  <1>1. now \in Clock /\ j.created \in Clock /\ j.created <= now
    BY DEF Content, Rest
  <1> QED
    BY <1>1, CalendarTypes

\* The stages after the screen, in which its outcome is known.
Late == {"close", "decide", "seal"}

\* A stage in which nothing happens.
LEMMA StageKeeps ==
    ASSUME NEW j, NEW t, NEW now, NEW at \in Inner \ {"seal"}, NEW to \in Inner \ {"seal"},
           Content(j, t, at, now), at \in Late <=> to \in Late,
           Progress(j.state, t.state, t.session, to)
    PROVE  Content(j, t, to, now)
  <1>1. Underway(j, t, at)
    BY DEF Content
  <1>2. Underway(j, t, to)
    BY <1>1 DEF Underway, Late, Inner, Settled
  <1> QED
    BY <1>2 DEF Content, Inner, Settled

Changes == {"ENTRY_INTENT_CREATED", "ENTRY_EXECUTED", "ENTRY_REJECTED",
            "POSITION_MANAGED", "EXIT_EXECUTED"}

\* A stage in which the ledger changes: the verifier sees the same ledger.
LEMMA TransitionKeeps ==
    ASSUME NEW j, Rest(j), NEW t, NEW now, NEW at \in Inner \ {"seal"}, NEW to \in Inner,
           Content(j, t, at, now), at \in Late <=> to \in Late,
           NEW e, e.at = now, e.session = t.session, ReduceTransition(t.state, e),
           \/ IntentAccepted(t.check, e) \/ SettlementAccepted(t.check, e)
           \/ ManagementAccepted(t.check, e),
           e.kind = "ENTRY_INTENT_CREATED" <=> to = "seal",
           Progress(j.state, e.after, t.session, to)
    PROVE  Content(j, Transition(t, e), to, now)
  <1> DEFINE c == t.check
             v == TransitionValue(c, e)
             new == Transition(t, e)
  <1>1. /\ Underway(j, t, at) /\ t \in Transaction /\ t.session \in Official
        /\ c # None /\ c \in Verification /\ c.state = t.state
    BY DEF Content, Underway
  <1>2. ValidState(e.after) /\ e.after \in State /\ e.kind \in Changes
    BY DEF ReduceTransition, ValidState, IntentReduces, ExecutionReduces,
           RejectionReduces, ExitReduces, ManagementReduces, Changes
  <1>3. /\ v \in Verification /\ v.state = e.after
        /\ v.decided = (e.kind = "ENTRY_INTENT_CREATED")
        /\ v.screen = c.screen /\ v.screened = c.screened /\ v.active = t.session
        /\ v.preflight /\ SameHeader(j, v)
    BY <1>1, <1>2 DEF TransitionValue, Verification, Underway, SameHeader
  <1>4. Accepts(c, e)
    <2>1. InSession(c, e)
      BY <1>1, NoneFacts, CalendarTypes DEF InSession, Underway
    <2>2. TransitionAccepted(c, e)
      BY <1>1, <2>1 DEF TransitionAccepted, Underway
    <2>3. e.at \in Clock /\ e.at >= c.created
      BY <1>1, TimeAccepted DEF Underway, SameHeader
    <2> QED
      BY <2>2, <2>3 DEF Accepts
  <1>5. v = Fold(c, e)
    BY <1>2 DEF Fold, Changes
  <1> HIDE DEF v, c
  <1>6. /\ Append(t, e) = [t EXCEPT !.check = v]
        /\ Append(t, e) \in Transaction
    BY <1>1, <1>3, <1>4, <1>5, AppendFolds DEF c
  <1>7. /\ new \in Transaction /\ new.check = v /\ new.state = e.after
        /\ new.session = t.session /\ new.current = t.current
        /\ new.complete = t.complete /\ new.top = t.top
    BY <1>1, <1>2, <1>6 DEF Transition, Transaction
  <1> HIDE DEF new
  <1>8. Underway(j, new, to)
    <2>1. v.screened <=> to \in Late
      BY <1>1, <1>3 DEF Underway, c, Late, Inner, Settled
    <2>2. to \in {"close", "decide"} => v.screen = [complete |-> new.complete,
                                                   top |-> new.top]
      BY <1>1, <1>3, <1>7 DEF Underway, c, Late, Inner, Settled
    <2> QED
      BY <1>2, <1>3, <1>7, <2>1, <2>2 DEF Underway, Late
  <1>9. v # None
    BY <1>3, NoneFacts
  <1>10. Content(j, new, to, now)
    BY <1>1, <1>3, <1>7, <1>8, <1>9 DEF Content, Inner, Settled
  <1> QED
    BY <1>10 DEF new

-----------------------------------------------------------------------------
\* What the stages of a session know of its ledger.
LEMMA LedgerFacts ==
    ASSUME NEW j, Rest(j), NEW t, NEW at \in Inner, NEW now, Content(j, t, at, now)
    PROVE  /\ t.state \in State /\ ValidState(t.state) /\ Progress(j.state, t.state, t.session, at)
           /\ j.state \in State /\ ValidState(j.state) /\ Book(j.state, Anchor(j))
           /\ t.session \in Days /\ t.session \in Official
           /\ t.check.state = t.state /\ t.check.decided = (at = "seal")
           /\ t.check.screened = (at \in Late)
  <1>1. /\ Underway(j, t, at) /\ t.session \in Official /\ t.check.state = t.state
        /\ t.check \in Verification
    BY DEF Content, Underway
  <1>2. t.check.decided \in BOOLEAN /\ t.check.screened \in BOOLEAN
    BY <1>1 DEF Verification
  <1>3. Book(j.state, Anchor(j))
    BY DEF Rest
  <1> QED
    BY <1>1, <1>2, <1>3, CalendarTypes DEF Underway, Book, ValidState, Late

\* The ledger with its position some days older.
Older(a, days) ==
    [a EXCEPT !.position = [a.position EXCEPT !.holding = a.position.holding + days]]

\* A position that is managed stays what it is, but for its age at the open.
LEMMA ManageReduces ==
    ASSUME NEW j, Rest(j), NEW t, NEW at \in {"aging", "bar", "close"}, NEW now,
           Content(j, t, at, now), t.state.position # None,
           NEW phase, NEW days \in {0, 1}, days = 1 <=> phase = "SESSION_OPEN",
           NEW p \in Procs, proc[p].now = now
    PROVE  \E e : /\ Manage(t, p, phase, days) = Transition(t, e)
                  /\ ReduceTransition(t.state, e) /\ ManagementAccepted(t.check, e)
                  /\ e.at = now /\ e.session = t.session /\ e.kind = "POSITION_MANAGED"
                  /\ e.after = Older(t.state, days)
  <1> DEFINE e == [Event(t, p, "POSITION_MANAGED") EXCEPT
                       !.after.position.holding = @ + days, !.phase = phase]
             held == t.state.position
             managed == [held EXCEPT !.holding = held.holding + days]
             after == [t.state EXCEPT !.position = managed]
  <1>1. /\ t.state \in State /\ ValidState(t.state) /\ ~t.check.decided
    BY LedgerFacts DEF Inner, Settled
  <1>2. held \in Position /\ held.holding \in Nat
    BY <1>1 DEF State, Position
  <1>3. /\ e.kind = "POSITION_MANAGED" /\ e.at = now /\ e.session = t.session
        /\ e.before = t.state /\ e.after = after /\ e.phase = phase
    BY DEF Event
  <1>4. managed \in Position /\ managed.holding = held.holding + days
        /\ managed.symbol = held.symbol /\ managed.value = held.value
        /\ managed.fee = held.fee
    BY <1>2 DEF Position
  <1>5. managed # None
    BY <1>4, NoneFacts
  <1>10. Manage(t, p, phase, days) = Transition(t, e)
    BY DEF Manage
  <1> HIDE DEF managed, held, e
  <1>6. after \in State /\ after.position = managed /\ after.cash = t.state.cash
        /\ after.realized = t.state.realized /\ after.pending = t.state.pending
    BY <1>1, <1>4 DEF State
  <1>7. ValidState(after)
    BY <1>1, <1>2, <1>4, <1>5, <1>6 DEF ValidState, CostBasis, held
  <1>8. ManagementReduces(t.state, e)
    BY <1>2, <1>3, <1>4, <1>5, <1>6 DEF ManagementReduces, held
  <1> HIDE DEF after
  <1>9. ReduceTransition(t.state, e) /\ ManagementAccepted(t.check, e)
    BY <1>1, <1>3, <1>7, <1>8 DEF ReduceTransition, ManagementAccepted
  <1> QED
    BY <1>3, <1>9, <1>10 DEF Older, after, managed, held

\* A position is sold: both accounts of it agree because no fee is paid.
LEMMA SaleReduces ==
    ASSUME NEW j, Rest(j), NEW t, NEW at \in {"open", "bar", "close"}, NEW now,
           Content(j, t, at, now), t.state.position # None,
           NEW proceeds \in Proceeds, NEW p \in Procs, proc[p].now = now
    PROVE  \E e : /\ Exit(t, p, proceeds) = Transition(t, e)
                  /\ ReduceTransition(t.state, e) /\ ManagementAccepted(t.check, e)
                  /\ e.at = now /\ e.session = t.session /\ e.kind = "EXIT_EXECUTED"
                  /\ e.after.position = None /\ e.after.pending = None
                  /\ e.after.sequence = t.state.sequence
  <1> DEFINE held == t.state.position
             fee == Commission(proceeds)
             pnl == proceeds - held.value - fee - held.fee
             after == [t.state EXCEPT !.position = None,
                                      !.cash     = @ + proceeds - fee,
                                      !.realized = @ + pnl]
             trade == [symbol |-> held.symbol, proceeds |-> proceeds,
                       fees |-> held.fee + fee, pnl |-> pnl]
             e == [Event(t, p, "EXIT_EXECUTED") EXCEPT !.after = after, !.trade = trade]
  <1>1. /\ t.state \in State /\ ValidState(t.state) /\ ~t.check.decided
        /\ Progress(j.state, t.state, t.session, at)
    BY LedgerFacts DEF Inner, Settled
  <1>2. held \in Position /\ held.value \in Int /\ held.fee \in Int
    BY <1>1 DEF State, Position
  <1>3. held.fee = 0
    BY <1>1 DEF Progress, Aged, Settled
  <1>4. proceeds \in Nat /\ fee = 0
    <2>1. proceeds \in Nat
      BY RunnerAssumption
    <2> QED
      BY <2>1 DEF Commission, CommissionBps
  <1>5. pnl = proceeds - held.value /\ pnl \in Int
    BY <1>2, <1>3, <1>4
  <1>6. /\ e.kind = "EXIT_EXECUTED" /\ e.at = now /\ e.session = t.session
        /\ e.before = t.state /\ e.after = after /\ e.trade = trade
    BY DEF Event
  <1>7. Exit(t, p, proceeds) = Transition(t, e)
    BY DEF Exit
  <1>8. /\ trade.symbol = held.symbol /\ trade.proceeds = proceeds
        /\ trade.fees = 0 /\ trade.pnl = pnl
    BY <1>2, <1>3, <1>4
  <1> HIDE DEF trade, fee, pnl, e
  <1>9. t.state.cash \in Nat /\ t.state.realized \in Int
    BY <1>1 DEF State
  <1>10. /\ after \in State /\ after.position = None
         /\ after.cash = t.state.cash + proceeds
         /\ after.realized = t.state.realized + pnl
         /\ after.pending = t.state.pending /\ after.sequence = t.state.sequence
    <2> DEFINE cash == t.state.cash + proceeds - fee
               realized == t.state.realized + pnl
    <2>1. cash \in Nat /\ cash = t.state.cash + proceeds /\ realized \in Int
      BY <1>4, <1>5, <1>9
    <2> HIDE DEF cash, realized
    <2>2. after = [t.state EXCEPT !.position = None, !.cash = cash, !.realized = realized]
      BY DEF cash, realized
    <2> HIDE DEF after
    <2>3. /\ after \in State /\ after.position = None /\ after.cash = cash
          /\ after.realized = realized
          /\ after.pending = t.state.pending /\ after.sequence = t.state.sequence
      BY <1>1, <2>1, <2>2 DEF State
    <2> QED
      BY <2>1, <2>3 DEF realized
  <1>11. after.pending = None
    BY <1>1, <1>10 DEF ValidState
  <1>12. ValidState(after)
    <2>1. t.state.cash + (held.value + held.fee) = Capital + t.state.realized
      BY <1>1 DEF ValidState, CostBasis
    <2>2. Capital \in Nat
      BY StateAssumption
    <2>3. after.cash = Capital + after.realized
      BY <1>2, <1>3, <1>4, <1>5, <1>9, <1>10, <2>1, <2>2
    <2> HIDE DEF after
    <2>4. CostBasis(after) = 0 /\ after.cash \in Int
      BY <1>10 DEF CostBasis, State
    <2> QED
      BY <1>10, <1>11, <2>3, <2>4 DEF ValidState
  <1>13. ExitReduces(t.state, e)
    BY <1>4, <1>6, <1>8, <1>9 DEF ExitReduces
  <1> HIDE DEF after
  <1>14. ReduceTransition(t.state, e) /\ ManagementAccepted(t.check, e)
    BY <1>1, <1>6, <1>12, <1>13 DEF ReduceTransition, ManagementAccepted
  <1> QED
    BY <1>6, <1>7, <1>10, <1>11, <1>14

-----------------------------------------------------------------------------
\* A process in a session has the transaction.
LEMMA Inside ==
    ASSUME RunnerInv, NEW p \in Procs, NEW at \in SessionStages, At(p, at)
    PROVE  /\ lock = p /\ txn # None /\ journal # None /\ Rest(journal)
           /\ Content(journal, txn, at, proc[p].now)
  BY DEF RunnerInv, Control, At

LEMMA StagesOfSession ==
    \A at \in Inner \cup {"admitted", "verify"} : at \in SessionStages
  BY DEF Inner, Settled, SessionStages

\* A stage whose loop over the positions has nothing to do.
LEMMA FlatKeeps ==
    ASSUME RunnerInv, NEW p \in Procs,
           NEW from \in Inner \ {"seal"}, NEW to \in Inner \ {"seal"},
           from \in Late <=> to \in Late, Session(p, from, txn, to),
           Progress(journal.state, txn.state, txn.session, to)
    PROVE  RunnerInv'
  <1>1. from \in SessionStages /\ to \in SessionStages
    BY StagesOfSession
  <1>2. Rest(journal) /\ Content(journal, txn, from, proc[p].now)
    BY <1>1, Inside DEF Session
  <1>3. Content(journal, txn, to, proc[p].now)
    BY <1>2, StageKeeps
  <1> QED
    BY <1>1, <1>3, SessionKeeps

\* The position found gets a session older before anything happens to it.
LEMMA AgeKeeps ==
    ASSUME RunnerInv, NEW p \in Procs, Age(p)
    PROVE  RunnerInv'
  <1> DEFINE b == journal.state
  <1>1. At(p, "aging")
    BY DEF Age, Flat
  <1>2. Rest(journal) /\ Content(journal, txn, "aging", proc[p].now)
    BY <1>1, Inside DEF SessionStages
  <1>3. /\ txn.state = b /\ txn.state \in State /\ ValidState(b)
        /\ Book(b, Anchor(journal))
    BY <1>2, LedgerFacts DEF Inner, Progress
  <1>4. CASE Flat(p, "aging", "entry")
    <2>1. Progress(b, txn.state, txn.session, "entry")
      BY <1>3, <1>4 DEF Flat, Holds, Progress, Settled
    <2> QED
      BY <1>4, <2>1, FlatKeeps DEF Flat, Inner, Settled, Late
  <1>5. CASE Holds /\ Session(p, "aging", Manage(txn, p, "SESSION_OPEN", 1), "open")
    <2>1. PICK e : /\ Manage(txn, p, "SESSION_OPEN", 1) = Transition(txn, e)
                   /\ ReduceTransition(txn.state, e) /\ ManagementAccepted(txn.check, e)
                   /\ e.at = proc[p].now /\ e.session = txn.session
                   /\ e.kind = "POSITION_MANAGED"
                   /\ e.after = Older(txn.state, 1)
      <3>1. txn.state.position # None
        BY <1>5 DEF Holds
      <3> QED
        BY <1>2, <3>1, ManageReduces
    <2>3. Progress(b, e.after, txn.session, "open")
      <3>1. txn.state.position \in Position /\ txn.state.position.fee = 0
        BY <1>3, <1>5 DEF State, Holds, Book
      <3>2. Kept(b, e.after)
        BY <1>3, <1>5, <2>1, <3>1, NoneFacts DEF Older, Kept, CostBasis, SameMoney, State, Position, Holds
      <3>3. Aged(b, e.after, txn.session)
        BY <1>3, <1>5, <2>1, <3>1 DEF Older, Aged, State, Position, Holds
      <3> QED
        BY <3>2, <3>3 DEF Progress, Settled
    <2>4. Content(journal, Transition(txn, e), "open", proc[p].now)
      BY <1>2, <2>1, <2>3, TransitionKeeps DEF Inner, Settled, Late
    <2> QED
      BY <1>5, <2>1, <2>4, SessionKeeps DEF SessionStages
  <1> QED
    BY <1>4, <1>5 DEF Age

\* A sale ends the position found, or makes a round trip of the one bought.
LEMMA SaleMoves ==
    ASSUME NEW b, NEW a, NEW after, NEW s, Moved(b, a, s), a.position # None,
           after.position = None, after.sequence = a.sequence
    PROVE  Moved(b, after, s) /\ Aged(b, after, s)
  BY DEF Moved, Kept, Closed, Bought, RoundTrip, Refused, Idle, Aged

LEMMA SaleKeeps ==
    ASSUME RunnerInv, NEW p \in Procs, NEW x \in Proceeds, txn.state.position # None,
           NEW from, NEW to,
           <<from, to>> \in {<<"open", "entry">>, <<"bar", "screen">>,
                             <<"close", "decide">>},
           Session(p, from, Exit(txn, p, x), to)
    PROVE  RunnerInv'
  <1> DEFINE b == journal.state
  <1>1. /\ from \in {"open", "bar", "close"} /\ from \in Inner \ {"seal"}
        /\ to \in Inner \ {"seal"} /\ from \in SessionStages /\ to \in SessionStages
        /\ from \in Late <=> to \in Late
    BY DEF Inner, Settled, SessionStages, Late
  <1>2. Rest(journal) /\ Content(journal, txn, from, proc[p].now)
    BY <1>1, Inside DEF Session
  <1>3. PICK e : /\ Exit(txn, p, x) = Transition(txn, e)
                 /\ ReduceTransition(txn.state, e) /\ ManagementAccepted(txn.check, e)
                 /\ e.at = proc[p].now /\ e.session = txn.session
                 /\ e.kind = "EXIT_EXECUTED"
                 /\ e.after.position = None /\ e.after.pending = None
                 /\ e.after.sequence = txn.state.sequence
    BY <1>1, <1>2, SaleReduces
  <1>4. Progress(b, txn.state, txn.session, from)
    BY <1>1, <1>2, LedgerFacts
  <1>5. Progress(b, e.after, txn.session, to)
    <2>1. CASE from = "open"
      <3>1. Closed(b, e.after) /\ Aged(b, e.after, txn.session)
        BY <1>3, <1>4, <2>1 DEF Progress, Kept, Closed, Aged
      <3> QED
        BY <1>3, <2>1, <3>1 DEF Progress, Settled
    <2>2. CASE from # "open"
      <3>1. Moved(b, txn.state, txn.session)
        BY <1>4, <2>2 DEF Progress, Settled
      <3>2. Moved(b, e.after, txn.session) /\ Aged(b, e.after, txn.session)
        BY <1>3, <3>1, SaleMoves
      <3> QED
        BY <1>3, <2>2, <3>2 DEF Progress, Settled
    <2> QED
      BY <2>1, <2>2
  <1>6. Content(journal, Transition(txn, e), to, proc[p].now)
    BY <1>1, <1>2, <1>3, <1>5, TransitionKeeps
  <1> QED
    BY <1>1, <1>3, <1>6, SessionKeeps

\* Management that does not age a position changes nothing in the ledger.
LEMMA ManageKeeps ==
    ASSUME RunnerInv, NEW p \in Procs, txn.state.position # None, NEW phase, NEW from, NEW to,
           phase # "SESSION_OPEN",
           <<from, to>> \in {<<"bar", "screen">>, <<"close", "decide">>},
           to = "decide" => txn.state.position.holding < MaxHold,
           Session(p, from, Manage(txn, p, phase, 0), to)
    PROVE  RunnerInv'
  <1> DEFINE b == journal.state
  <1>1. /\ from \in {"aging", "bar", "close"} /\ from \in Inner \ {"seal"}
        /\ to \in Inner \ {"seal"} /\ from \in SessionStages /\ to \in SessionStages
        /\ from \in Late <=> to \in Late
    BY DEF Inner, Settled, SessionStages, Late
  <1>2. Rest(journal) /\ Content(journal, txn, from, proc[p].now)
    BY <1>1, Inside DEF Session
  <1>3. PICK e : /\ Manage(txn, p, phase, 0) = Transition(txn, e)
                 /\ ReduceTransition(txn.state, e) /\ ManagementAccepted(txn.check, e)
                 /\ e.at = proc[p].now /\ e.session = txn.session
                 /\ e.kind = "POSITION_MANAGED"
                 /\ e.after = Older(txn.state, 0)
    <2>1. 0 \in {0, 1} /\ (0 = 1 <=> phase = "SESSION_OPEN")
      OBVIOUS
    <2>2. Rest(journal) /\ Content(journal, txn, from, proc[p].now)
          /\ from \in {"aging", "bar", "close"}
      BY <1>1, <1>2
    <2>3. ASSUME NEW days \in {0, 1}, days = 1 <=> phase = "SESSION_OPEN"
          PROVE  \E e : /\ Manage(txn, p, phase, days) = Transition(txn, e)
                        /\ ReduceTransition(txn.state, e) /\ ManagementAccepted(txn.check, e)
                        /\ e.at = proc[p].now /\ e.session = txn.session
                        /\ e.kind = "POSITION_MANAGED"
                        /\ e.after = Older(txn.state, days)
      <3>1. txn.state.position # None
        OBVIOUS
      <3> QED
        BY ONLY <2>2, <2>3, <3>1, p \in Procs, ManageReduces
    <2> QED
      BY <2>1, <2>3
  <1>5. /\ Progress(b, txn.state, txn.session, from) /\ txn.state \in State
    BY <1>1, <1>2, LedgerFacts
  <1>6. e.after = txn.state
    <2>1. txn.state.position \in Position
      BY <1>5 DEF State
    <2>2. txn.state.position.holding + 0 = txn.state.position.holding
      BY <2>1 DEF Position
    <2>3. [txn.state.position EXCEPT !.holding = txn.state.position.holding]
              = txn.state.position
      BY <2>1 DEF Position
    <2>4. [txn.state EXCEPT !.position = txn.state.position] = txn.state
      BY <1>5 DEF State
    <2> QED
      BY <1>3, <2>2, <2>3, <2>4 DEF Older
  <1>7. Progress(b, e.after, txn.session, to)
    BY <1>5, <1>6 DEF Progress, Settled
  <1>8. Content(journal, Transition(txn, e), to, proc[p].now)
    BY <1>1, <1>2, <1>3, <1>7, TransitionKeeps
  <1> QED
    BY <1>1, <1>3, <1>8, SessionKeeps

LEMMA OpenKeeps ==
    ASSUME RunnerInv, NEW p \in Procs, Open(p)
    PROVE  RunnerInv'
  <1>1. At(p, "open")
    BY DEF Open, Session
  <1>2. /\ Progress(journal.state, txn.state, txn.session, "open")
        /\ ValidState(txn.state)
    BY <1>1, Inside, LedgerFacts DEF SessionStages, Inner
  <1>3. txn.state.position # None /\ txn.state.pending = None
    BY <1>2 DEF Progress, Kept, ValidState
  <1>4. CASE Session(p, "open", txn, "entry")
    <2>1. Progress(journal.state, txn.state, txn.session, "entry")
      BY <1>2, <1>3 DEF Progress, Settled
    <2> QED
      BY <1>4, <2>1, FlatKeeps DEF Inner, Settled, Late
  <1>5. CASE \E x \in Proceeds : Session(p, "open", Exit(txn, p, x), "entry")
    BY <1>3, <1>5, SaleKeeps
  <1> QED
    BY <1>4, <1>5 DEF Open

LEMMA BarKeeps ==
    ASSUME RunnerInv, NEW p \in Procs, Bar(p)
    PROVE  RunnerInv'
  <1>1. At(p, "bar")
    BY DEF Bar, Flat
  <1>2. Progress(journal.state, txn.state, txn.session, "bar")
    BY <1>1, Inside, LedgerFacts DEF SessionStages, Inner, Settled
  <1>3. CASE Flat(p, "bar", "screen")
    <2>1. Progress(journal.state, txn.state, txn.session, "screen")
      BY <1>2 DEF Progress, Settled
    <2> QED
      BY <1>3, <2>1, FlatKeeps DEF Flat, Inner, Settled, Late
  <1>4. CASE Holds /\ Session(p, "bar", Manage(txn, p, "BAR_COMPLETED", 0), "screen")
    <2>1. /\ <<"bar", "screen">> \in {<<"bar", "screen">>, <<"close", "decide">>}
          /\ "BAR_COMPLETED" # "SESSION_OPEN" /\ "screen" # "decide"
      OBVIOUS
    <2> QED
      BY <1>4, <2>1, ManageKeeps, Zenon DEF Holds
  <1>5. CASE \E x \in Proceeds : Holds /\ Session(p, "bar", Exit(txn, p, x), "screen")
    BY <1>5, SaleKeeps DEF Holds
  <1> QED
    BY <1>3, <1>4, <1>5 DEF Bar

LEMMA CloseBarKeeps ==
    ASSUME RunnerInv, NEW p \in Procs, CloseBar(p)
    PROVE  RunnerInv'
  <1>1. At(p, "close")
    BY DEF CloseBar, Flat
  <1>2. /\ Progress(journal.state, txn.state, txn.session, "close")
        /\ txn.state \in State
    BY <1>1, Inside, LedgerFacts DEF SessionStages, Inner, Settled
  <1>3. CASE Flat(p, "close", "decide")
    <2>1. Progress(journal.state, txn.state, txn.session, "decide")
      BY <1>2, <1>3 DEF Progress, Settled, Flat, Holds
    <2> QED
      BY <1>3, <2>1, FlatKeeps DEF Flat, Inner, Settled, Late
  <1>4. CASE /\ Holds /\ ~MaxHoldReached(txn)
             /\ Session(p, "close", Manage(txn, p, "SESSION_CLOSE", 0), "decide")
    <2>1. txn.state.position.holding \in Nat /\ MaxHold \in Nat
      BY <1>2, <1>4, HoldAssumption DEF State, Position, Holds
    <2>2. txn.state.position.holding < MaxHold
      BY <1>4, <2>1 DEF MaxHoldReached
    <2> QED
      BY <1>4, <2>2, ManageKeeps DEF Holds
  <1>5. CASE /\ Holds
             /\ \E x \in Proceeds : Session(p, "close", Exit(txn, p, x), "decide")
    BY <1>5, SaleKeeps DEF Holds
  <1> QED
    BY <1>3, <1>4, <1>5 DEF CloseBar
-----------------------------------------------------------------------------
\* Evidence is appended: neither the ledger nor the session changes.
LEMMA EvidenceKeeps ==
    ASSUME NEW j, Rest(j), NEW t \in Transaction, NEW t2 \in Transaction, NEW now,
           NEW at \in Inner \ {"seal"}, NEW to \in Inner, Content(j, t, at, now),
           t2.check = t.check, t2.state = t.state, t2.session = t.session,
           t2.current = t.current,
           NEW e, NEW v \in Verification, Accepts(t.check, e), v = Fold(t.check, e),
           SameHeader(t.check, v), v.active = t.check.active, v.preflight,
           v.state = t.state,
           v.screened <=> to \in Late, v.decided <=> to = "seal",
           to \in {"close", "decide"} =>
               v.screen = [complete |-> t2.complete, top |-> t2.top],
           Progress(j.state, t.state, t.session, to)
    PROVE  Content(j, Append(t2, e), to, now)
  <1> DEFINE new == Append(t2, e)
  <1>1. t2.check # None /\ Underway(j, t, at)
    BY DEF Content
  <1>2. new = [t2 EXCEPT !.check = v] /\ new \in Transaction
    BY <1>1, AppendFolds
  <1>3. /\ new.check = v /\ new.state = t.state /\ new.session = t.session
        /\ new.current = t.current /\ new.complete = t2.complete /\ new.top = t2.top
    BY <1>2 DEF Transaction
  <1> HIDE DEF new
  <1>4. Underway(j, new, to)
    BY <1>1, <1>3 DEF Underway, SameHeader, Late
  <1>5. v # None
    BY NoneFacts
  <1>6. Content(j, new, to, now)
    BY <1>2, <1>3, <1>4, <1>5 DEF Content, Inner, Settled
  <1> QED
    BY <1>6 DEF new

\* The screen is noted by the session and by the verifier alike.
LEMMA ScreenEvaluatedKeeps ==
    ASSUME RunnerInv, NEW p \in Procs, ScreenEvaluated(p)
    PROVE  RunnerInv'
  <1>1. At(p, "screen")
    BY DEF ScreenEvaluated
  <1>2. Rest(journal) /\ Content(journal, txn, "screen", proc[p].now)
    BY <1>1, Inside DEF SessionStages
  <1>3. PICK scr \in Screen :
            LET t == [txn EXCEPT !.complete = scr.complete, !.top = scr.top]
            IN  Session(p, "screen",
                        Append(t, [Event(t, p, "SCREEN_EVALUATED") EXCEPT !.screen = scr]),
                        "close")
    BY DEF ScreenEvaluated
  <1> DEFINE t == [txn EXCEPT !.complete = scr.complete, !.top = scr.top]
             e == [Event(t, p, "SCREEN_EVALUATED") EXCEPT !.screen = scr]
             c == txn.check
             v == [c EXCEPT !.screened = TRUE, !.screen = scr]
  <1>4. /\ Underway(journal, txn, "screen") /\ txn \in Transaction
        /\ c \in Verification /\ c.state = txn.state /\ txn.session \in Days
        /\ c.active = txn.session /\ c.preflight /\ ~c.screened /\ ~c.decided
        /\ SameHeader(journal, c) /\ c # None
    BY <1>2, CalendarTypes DEF Content, Underway, Inner, Settled
  <1>5. /\ t \in Transaction /\ t.check = c /\ t.state = txn.state
        /\ t.session = txn.session /\ t.current = txn.current
        /\ t.complete = scr.complete /\ t.top = scr.top
    BY <1>4 DEF Transaction, Screen
  <1> HIDE DEF t
  <1>6. /\ e.kind = "SCREEN_EVALUATED" /\ e.at = proc[p].now /\ e.session = txn.session
        /\ e.screen = scr
    BY <1>5 DEF Event
  <1> HIDE DEF e, c
  <1>7. /\ v \in Verification /\ SameHeader(c, v) /\ v.active = c.active
        /\ v.preflight = c.preflight /\ v.state = c.state /\ v.screened
        /\ v.decided = c.decided /\ v.screen = scr
    BY <1>4 DEF Verification, SameHeader
  <1>8. Accepts(c, e)
    <2>1. ScreenAccepted(c, e)
      BY <1>4, <1>6, NoneFacts DEF ScreenAccepted, InSession
    <2>2. e.at \in Clock /\ e.at >= c.created
      BY <1>2, <1>4, <1>6, TimeAccepted DEF SameHeader
    <2> QED
      BY <2>1, <2>2 DEF Accepts
  <1>9. v = Fold(c, e)
    BY <1>6 DEF Fold
  <1>10. scr = [complete |-> t.complete, top |-> t.top]
    BY <1>5 DEF Screen
  <1>11. Progress(journal.state, txn.state, txn.session, "close")
    BY <1>4 DEF Underway, Progress, Settled
  <1> HIDE DEF v
  <1>12. Content(journal, Append(t, e), "close", proc[p].now)
    BY <1>2, <1>4, <1>5, <1>7, <1>8, <1>9, <1>10, <1>11, EvidenceKeeps
       DEF c, Inner, Settled, Late
  <1> QED
    BY <1>3, <1>12, SessionKeeps DEF SessionStages, t, e

\* The reason the engine gives is the one the verifier recomputes.
LEMMA DecideNoTradeKeeps ==
    ASSUME RunnerInv, NEW p \in Procs, DecideNoTrade(p)
    PROVE  RunnerInv'
  <1> DEFINE e == [Event(txn, p, "DECISION_NO_TRADE") EXCEPT !.reason = Reason(txn)]
             c == txn.check
             v == [c EXCEPT !.decided = TRUE]
  <1>1. At(p, "decide")
    BY DEF DecideNoTrade
  <1>2. Rest(journal) /\ Content(journal, txn, "decide", proc[p].now)
    BY <1>1, Inside DEF SessionStages
  <1>4. /\ Underway(journal, txn, "decide") /\ txn \in Transaction
        /\ c \in Verification /\ c.state = txn.state /\ txn.session \in Days
        /\ c.active = txn.session /\ c.preflight /\ c.screened /\ ~c.decided
        /\ c.screen = [complete |-> txn.complete, top |-> txn.top]
        /\ SameHeader(journal, c) /\ c # None
    BY <1>2, CalendarTypes DEF Content, Underway, Inner, Settled
  <1>5. /\ e.kind = "DECISION_NO_TRADE" /\ e.at = proc[p].now /\ e.session = txn.session
        /\ e.after = txn.state /\ e.reason = Reason(txn)
    BY DEF Event
  <1>6. Reason(txn) = NoTradeReason(c)
    <2>1. c.screen.complete = txn.complete /\ c.screen.top = txn.top
      BY <1>4
    <2>2. txn.complete \in BOOLEAN
      BY <1>4 DEF Transaction
    <2> HIDE DEF c
    <2> QED
      BY <1>4, <2>1, <2>2 DEF Reason, NoTradeReason
  <1> HIDE DEF e, c
  <1>7. /\ v \in Verification /\ SameHeader(c, v) /\ v.active = c.active
        /\ v.preflight = c.preflight /\ v.state = c.state /\ v.decided
        /\ v.screened = c.screened
    BY <1>4 DEF Verification, SameHeader
  <1>8. Accepts(c, e)
    <2>1. NoTradeAccepted(c, e)
      BY <1>4, <1>5, <1>6, NoneFacts DEF NoTradeAccepted, InSession
    <2>2. e.at \in Clock /\ e.at >= c.created
      BY <1>2, <1>4, <1>5, TimeAccepted DEF SameHeader
    <2> QED
      BY <2>1, <2>2 DEF Accepts
  <1>9. v = Fold(c, e)
    BY <1>5 DEF Fold
  <1>11. Progress(journal.state, txn.state, txn.session, "seal")
    BY <1>4, NoneFacts DEF Underway, Progress, Settled
  <1> HIDE DEF v
  <1>12. Content(journal, Append(txn, e), "seal", proc[p].now)
    BY <1>2, <1>4, <1>7, <1>8, <1>9, <1>11, EvidenceKeeps DEF c, Inner, Settled, Late
  <1> QED
    BY <1>12, SessionKeeps DEF SessionStages, e, DecideNoTrade

\* An intent changes nothing else: the ledger has moved as it had.
LEMMA IntentMoves ==
    ASSUME NEW b, NEW a, NEW after, NEW s, Moved(b, a, s), a.position = None,
           after.position = None, after.sequence = a.sequence, SameMoney(a, after)
    PROVE  Moved(b, after, s) /\ Aged(b, after, s)
  BY DEF Moved, Kept, Closed, Bought, RoundTrip, Refused, Idle, Aged, SameMoney

\* The next session found by the calendar search is the intent's execution.
LEMMA DecideIntentKeeps ==
    ASSUME RunnerInv, NEW p \in Procs, DecideIntent(p)
    PROVE  RunnerInv'
  <1>1. At(p, "decide") /\ Reason(txn) = "ENTRY_REJECTED_BY_CHAMPION"
    BY DEF DecideIntent
  <1>2. Rest(journal) /\ Content(journal, txn, "decide", proc[p].now)
    BY <1>1, Inside DEF SessionStages
  <1>3. PICK n \in Official :
            /\ NextSession(txn.session, n)
            /\ LET intent == [symbol |-> txn.top, signal |-> txn.session,
                              execution |-> n]
               IN  Session(p, "decide",
                           Transition(txn, [Event(txn, p, "ENTRY_INTENT_CREATED")
                               EXCEPT !.after.pending = intent]),
                           "seal")
    BY DEF DecideIntent
  <1> DEFINE intent == [symbol |-> txn.top, signal |-> txn.session, execution |-> n]
             e == [Event(txn, p, "ENTRY_INTENT_CREATED") EXCEPT !.after.pending = intent]
             after == [txn.state EXCEPT !.pending = intent]
             c == txn.check
  <1>4. /\ Underway(journal, txn, "decide") /\ txn \in Transaction
        /\ c.state = txn.state /\ txn.session \in Days /\ txn.session \in Official
        /\ c.screened /\ ~c.decided
        /\ c.screen = [complete |-> txn.complete, top |-> txn.top]
    BY <1>2, CalendarTypes DEF Content, Underway, Inner, Settled
  <1>5. txn.state \in State /\ ValidState(txn.state)
        /\ Progress(journal.state, txn.state, txn.session, "decide")
    BY <1>2, LedgerFacts DEF Inner, Settled
  <1>6. /\ txn.complete /\ txn.state.position = None /\ txn.state.pending = None
        /\ txn.top # None
    BY <1>1 DEF Reason
  <1>7. Consecutive(txn.session, n) /\ n \in Days
    BY <1>3, <1>4, NextIsConsecutive, CalendarTypes
  <1>8. intent \in Pending /\ intent.symbol = txn.top /\ intent.signal = txn.session
        /\ intent.execution = n
    BY <1>4, <1>6, <1>7 DEF Pending, Transaction
  <1>9. intent # None
    BY <1>8, NoneFacts
  <1> HIDE DEF intent
  <1>10. /\ e.kind = "ENTRY_INTENT_CREATED" /\ e.at = proc[p].now
         /\ e.session = txn.session /\ e.before = txn.state /\ e.after = after
    BY DEF Event
  <1> HIDE DEF e, c
  <1>11. /\ after \in State /\ after.pending = intent /\ after.position = None
         /\ after.cash = txn.state.cash /\ after.realized = txn.state.realized
         /\ after.sequence = txn.state.sequence
    BY <1>5, <1>6, <1>8 DEF State
  <1>12. ValidState(after)
    BY <1>5, <1>6, <1>7, <1>8, <1>11 DEF ValidState, CostBasis
  <1>13. IntentReduces(txn.state, e)
    BY <1>6, <1>9, <1>10, <1>11 DEF IntentReduces
  <1> HIDE DEF after
  <1>14. ReduceTransition(txn.state, e)
    BY <1>10, <1>12, <1>13 DEF ReduceTransition
  <1>15. IntentAccepted(c, e)
    BY <1>4, <1>6, <1>8, <1>10, <1>11 DEF IntentAccepted
  <1>16. Progress(journal.state, e.after, txn.session, "seal")
    <2>1. Moved(journal.state, txn.state, txn.session)
      BY <1>5 DEF Progress, Settled
    <2>2. SameMoney(txn.state, after)
      BY <1>11 DEF SameMoney
    <2>3. Moved(journal.state, after, txn.session) /\ Aged(journal.state, after, txn.session)
      BY <1>6, <1>11, <2>1, <2>2, IntentMoves
    <2> QED
      BY <1>8, <1>10, <1>11, <2>3 DEF Progress, Settled
  <1>17. Content(journal, Transition(txn, e), "seal", proc[p].now)
    BY <1>2, <1>10, <1>14, <1>15, <1>16, TransitionKeeps DEF c, Inner, Settled, Late
  <1> QED
    BY <1>3, <1>17, SessionKeeps DEF SessionStages, e, intent

-----------------------------------------------------------------------------
\* An intent waits only for the session that is being processed.
LEMMA IntentIsForNow ==
    ASSUME NEW j, Rest(j), NEW t, NEW now, Content(j, t, "entry", now),
           t.state.pending # None
    PROVE  /\ t.state = j.state /\ t.state.position = None
           /\ t.state.pending.execution = t.session
  <1>1. /\ t.state \in State /\ ValidState(t.state) /\ t.session \in Days
        /\ Progress(j.state, t.state, t.session, "entry") /\ Book(j.state, Anchor(j))
    BY LedgerFacts DEF Inner
  <1>2. t.state = j.state /\ t.state.position = None
    BY <1>1 DEF Progress, Settled
  <1>3. Consecutive(Anchor(j), t.state.pending.execution)
    BY <1>1, <1>2 DEF Book, ValidState
  <1>4. Consecutive(Anchor(j), t.session)
    BY DEF Content
  <1>5. Anchor(j) \in Days /\ t.state.pending.execution \in Days
    BY <1>3, ConsecutiveDays
  <1> QED
    BY <1>1, <1>2, <1>3, <1>4, <1>5, ConsecutiveUnique

\* Buying: the cash covers the cost, and the position is of this session.
LEMMA EnterKeeps ==
    ASSUME RunnerInv, NEW p \in Procs, At(p, "entry"), txn.state.pending # None,
           NEW value \in Fills, Affordable(txn, value)
    PROVE  Content(journal, Transition(txn, [Event(txn, p, "ENTRY_EXECUTED") EXCEPT
               !.after = [txn.state EXCEPT
                             !.pending  = None,
                             !.cash     = @ - value - Commission(value),
                             !.sequence = @ + 1,
                             !.position = [symbol |-> txn.state.pending.symbol,
                                           entry |-> txn.session, holding |-> 1,
                                           value |-> value, fee |-> Commission(value)]]]),
                   "bar", proc[p].now)
  <1> DEFINE fee == Commission(value)
             bought == [symbol |-> txn.state.pending.symbol, entry |-> txn.session,
                        holding |-> 1, value |-> value, fee |-> fee]
             after == [txn.state EXCEPT !.pending  = None,
                                        !.cash     = @ - value - fee,
                                        !.sequence = @ + 1,
                                        !.position = bought]
             e == [Event(txn, p, "ENTRY_EXECUTED") EXCEPT !.after = after]
             b == journal.state
  <1>1. Rest(journal) /\ Content(journal, txn, "entry", proc[p].now)
    BY Inside DEF SessionStages
  <1>2. /\ txn.state = b /\ txn.state.position = None
        /\ txn.state.pending.execution = txn.session
    BY <1>1, IntentIsForNow
  <1>3. /\ txn.state \in State /\ ValidState(txn.state) /\ txn.session \in Days
        /\ txn.check.state = txn.state /\ ~txn.check.decided /\ ~txn.check.screened
    <2>1. "entry" \in Inner /\ "entry" \notin Late /\ "entry" # "seal"
      BY DEF Inner, Late
    <2> QED
      BY <1>1, <2>1, LedgerFacts
  <1>4. value \in Nat /\ value \in Int /\ fee = 0
    <2>1. value \in Nat
      BY RunnerAssumption
    <2> QED
      BY <2>1 DEF Commission, CommissionBps
  <1>5. txn.state.cash \in Nat /\ value <= txn.state.cash
    BY <1>3, <1>4 DEF State, Affordable
  <1>6. txn.state.pending \in Pending
    BY <1>3 DEF State
  <1>7. /\ bought \in Position /\ bought.symbol = txn.state.pending.symbol
        /\ bought.entry = txn.session /\ bought.holding = 1 /\ bought.value = value
        /\ bought.fee = 0
    BY <1>3, <1>4, <1>6 DEF Position, Pending
  <1>8. bought # None
    BY <1>7, NoneFacts
  <1> HIDE DEF bought, fee
  <1>9. /\ e.kind = "ENTRY_EXECUTED" /\ e.at = proc[p].now /\ e.session = txn.session
        /\ e.before = txn.state /\ e.after = after
    BY DEF Event
  <1> HIDE DEF e
  <1>10. /\ after \in State /\ after.position = bought /\ after.pending = None
         /\ after.cash = txn.state.cash - value
         /\ after.realized = txn.state.realized
         /\ after.sequence = txn.state.sequence + 1
    <2> DEFINE cash == txn.state.cash - value - fee
               sequence == txn.state.sequence + 1
    <2>1. /\ cash \in Nat /\ cash = txn.state.cash - value
      BY <1>4, <1>5
    <2>2. sequence \in Nat
      BY <1>3 DEF State
    <2>3. after = [txn.state EXCEPT !.pending = None, !.cash = cash,
                                    !.sequence = sequence, !.position = bought]
      OBVIOUS
    <2> HIDE DEF cash, sequence, after
    <2>4. /\ after \in State /\ after.position = bought /\ after.pending = None
          /\ after.cash = cash /\ after.realized = txn.state.realized
          /\ after.sequence = sequence
      BY <1>3, <1>7, <2>1, <2>2, <2>3 DEF State
    <2> QED
      BY <2>1, <2>4 DEF sequence
  <1>11. /\ CostBasis(txn.state) = 0 /\ CostBasis(after) = value
    BY <1>2, <1>4, <1>7, <1>8, <1>10 DEF CostBasis
  <1>12. ValidState(after)
    <2>1. txn.state.cash + 0 = Capital + txn.state.realized
      BY <1>3, <1>11 DEF ValidState
    <2>2. after.cash + value = Capital + after.realized
      BY <1>4, <1>5, <1>10, <2>1
    <2> QED
      BY <1>7, <1>8, <1>10, <1>11, <2>2 DEF ValidState
  <1>13. after = [txn.state EXCEPT !.pending  = None,
                                   !.position = bought,
                                   !.cash     = @ - bought.value - bought.fee,
                                   !.sequence = @ + 1]
    <2>1. txn.state.cash - value - fee = txn.state.cash - bought.value - bought.fee
      BY <1>4, <1>7
    <2> QED
      BY <1>3, <2>1 DEF State
  <1> HIDE DEF after
  <1>14. ExecutionReduces(txn.state, e)
    BY <1>2, <1>7, <1>8, <1>9, <1>10, <1>13 DEF ExecutionReduces
  <1>15. ReduceTransition(txn.state, e) /\ SettlementAccepted(txn.check, e)
    BY <1>2, <1>3, <1>9, <1>12, <1>14 DEF ReduceTransition, SettlementAccepted
  <1>16. Progress(b, after, txn.session, "bar")
    <2>1. Bought(b, after, txn.session)
      BY <1>2, <1>7, <1>8, <1>10, <1>11 DEF Bought
    <2>2. Aged(b, after, txn.session)
      BY <1>2, <1>7, <1>10 DEF Aged
    <2> QED
      BY <1>10, <2>1, <2>2 DEF Progress, Settled, Moved
  <1>17. Content(journal, Transition(txn, e), "bar", proc[p].now)
    BY <1>1, <1>9, <1>15, <1>16, TransitionKeeps DEF Inner, Settled, Late
  <1> QED
    BY <1>17 DEF e, after, bought, fee

LEMMA RejectKeeps ==
    ASSUME RunnerInv, NEW p \in Procs, At(p, "entry"), txn.state.pending # None
    PROVE  Content(journal, Reject(txn, p), "bar", proc[p].now)
  <1> DEFINE after == [txn.state EXCEPT !.pending = None]
             e == [Event(txn, p, "ENTRY_REJECTED") EXCEPT !.after.pending = None]
             b == journal.state
  <1>1. Rest(journal) /\ Content(journal, txn, "entry", proc[p].now)
    BY Inside DEF SessionStages
  <1>2. /\ txn.state = b /\ txn.state.position = None
        /\ txn.state.pending.execution = txn.session
    BY <1>1, IntentIsForNow
  <1>3. /\ txn.state \in State /\ ValidState(txn.state)
        /\ txn.check.state = txn.state /\ ~txn.check.decided /\ ~txn.check.screened
    <2>1. "entry" \in Inner /\ "entry" \notin Late /\ "entry" # "seal"
      BY DEF Inner, Late
    <2> QED
      BY <1>1, <2>1, LedgerFacts
  <1>4. /\ e.kind = "ENTRY_REJECTED" /\ e.at = proc[p].now /\ e.session = txn.session
        /\ e.before = txn.state /\ e.after = after
    BY DEF Event
  <1>5. Reject(txn, p) = Transition(txn, e)
    BY DEF Reject
  <1> HIDE DEF e
  <1>6. /\ after \in State /\ after.position = None /\ after.pending = None
        /\ after.cash = txn.state.cash /\ after.realized = txn.state.realized
        /\ after.sequence = txn.state.sequence
    BY <1>2, <1>3 DEF State
  <1>7. ValidState(after)
    BY <1>2, <1>3, <1>6 DEF ValidState, CostBasis
  <1>8. ReduceTransition(txn.state, e) /\ SettlementAccepted(txn.check, e)
    BY <1>2, <1>3, <1>4, <1>7 DEF ReduceTransition, RejectionReduces, SettlementAccepted
  <1> HIDE DEF after
  <1>9. Progress(b, after, txn.session, "bar")
    <2>1. Refused(b, after, txn.session)
      BY <1>2, <1>6 DEF Refused, SameMoney
    <2> QED
      BY <1>6, <2>1 DEF Progress, Settled, Moved, Aged
  <1>10. Content(journal, Transition(txn, e), "bar", proc[p].now)
    BY <1>1, <1>4, <1>8, <1>9, TransitionKeeps DEF Inner, Settled, Late
  <1> QED
    BY <1>5, <1>10

LEMMA EntryKeeps ==
    ASSUME RunnerInv, NEW p \in Procs, Entry(p)
    PROVE  RunnerInv'
  <1>1. At(p, "entry")
    BY DEF Entry
  <1>2. Progress(journal.state, txn.state, txn.session, "entry")
    BY <1>1, Inside, LedgerFacts DEF SessionStages, Inner
  <1>3. "entry" \in SessionStages /\ "bar" \in SessionStages
    BY DEF SessionStages
  <1>4. CASE txn.state.pending = None /\ Session(p, "entry", txn, "bar")
    <2>1. Progress(journal.state, txn.state, txn.session, "bar")
      BY <1>2, <1>4 DEF Progress, Settled, Moved, Idle, Aged, SameMoney
    <2> QED
      BY <1>4, <2>1, FlatKeeps DEF Inner, Settled, Late
  <1>5. CASE /\ txn.state.pending # None
             /\ \E v \in Fills : /\ ~Holds /\ Affordable(txn, v)
                                 /\ Session(p, "entry", Enter(txn, p, v), "bar")
    <2>1. PICK v \in Fills : /\ Affordable(txn, v)
                             /\ Session(p, "entry", Enter(txn, p, v), "bar")
      BY <1>5
    <2>2. Content(journal, Enter(txn, p, v), "bar", proc[p].now)
      BY <1>1, <1>5, <2>1, EnterKeeps DEF Enter
    <2> QED
      BY <1>3, <2>1, <2>2, SessionKeeps
  <1>6. CASE txn.state.pending # None /\ Session(p, "entry", Reject(txn, p), "bar")
    BY <1>1, <1>3, <1>6, RejectKeeps, SessionKeeps
  <1> QED
    BY <1>4, <1>5, <1>6 DEF Entry

-----------------------------------------------------------------------------
\* Evidence of a failed preflight: the journal verifies to what it did.
LEMMA PreflightFailsKeeps ==
    ASSUME RunnerInv, NEW p \in Procs, PreflightFails(p)
    PROVE  RunnerInv'
  <1> DEFINE e == Event(txn, p, "DATA_PREFLIGHT_FAILED")
  <1>1. At(p, "admitted") /\ Session(p, "admitted", Append(txn, e), "verify")
    BY DEF PreflightFails
  <1>2. Rest(journal) /\ Content(journal, txn, "admitted", proc[p].now)
    BY <1>1, Inside DEF SessionStages
  <1>3. /\ txn \in Transaction /\ txn.check = journal /\ txn.check # None
        /\ txn.state = journal.state /\ journal \in Verification
        /\ txn.current = journal.identity
        /\ Consecutive(Anchor(journal), txn.session) /\ journal.active = None
    BY <1>2 DEF Content, Rest
  <1>4. /\ e.kind = "DATA_PREFLIGHT_FAILED" /\ e.at = proc[p].now
        /\ e.session = txn.session /\ e.after = txn.state /\ e.identity = txn.current
    BY DEF Event
  <1> HIDE DEF e
  <1>5. Accepts(journal, e)
    <2>1. FailureAccepted(journal, e)
      BY <1>3, <1>4 DEF FailureAccepted
    <2> QED
      BY <1>2, <1>4, <2>1, TimeAccepted DEF Accepts
  <1>6. journal = Fold(journal, e)
    BY <1>4 DEF Fold
  <1>7. /\ Append(txn, e) = [txn EXCEPT !.check = journal]
        /\ Append(txn, e) \in Transaction
    BY <1>3, <1>5, <1>6, AppendFolds
  <1>8. Append(txn, e) = txn
    BY <1>3, <1>7 DEF Transaction
  <1>9. Content(journal, txn, "verify", proc[p].now)
    BY <1>2 DEF Content, Inner, Settled
  <1> QED
    BY <1>1, <1>8, <1>9, SessionKeeps DEF SessionStages

\* The session is started and its inputs are pinned, in two events.
LEMMA PreflightPassesKeeps ==
    ASSUME RunnerInv, NEW p \in Procs, PreflightPasses(p)
    PROVE  RunnerInv'
  <1> DEFINE e == Event(txn, p, "SESSION_STARTED")
             f == Event(txn, p, "DATA_PREFLIGHT_PASSED")
             v == StartValue(journal, e)
             w == [v EXCEPT !.preflight = TRUE]
             started == Append(txn, e)
             new == Append(started, f)
  <1>1. At(p, "admitted") /\ Session(p, "admitted", new, "aging")
    BY DEF PreflightPasses
  <1>2. Rest(journal) /\ Content(journal, txn, "admitted", proc[p].now)
    BY <1>1, Inside DEF SessionStages
  <1>3. /\ txn \in Transaction /\ txn.check = journal /\ txn.check # None
        /\ txn.state = journal.state /\ journal \in Verification
        /\ txn.current = journal.identity /\ Close[txn.session] <= proc[p].now
        /\ Consecutive(Anchor(journal), txn.session) /\ journal.active = None
        /\ txn.session \in Official
    BY <1>2 DEF Content, Rest
  <1>4. /\ e.kind = "SESSION_STARTED" /\ e.at = proc[p].now /\ e.session = txn.session
        /\ e.before = txn.state /\ e.identity = txn.current
        /\ f.kind = "DATA_PREFLIGHT_PASSED" /\ f.at = proc[p].now
        /\ f.session = txn.session
    BY DEF Event
  <1> HIDE DEF e, f
  <1>5. txn.session \in Days /\ txn.session # None /\ txn.session \notin journal.committed
    <2>1. /\ Anchor(journal) < txn.session /\ txn.session \in Days
          /\ Anchor(journal) \in Nat /\ txn.session \in Nat
      BY <1>3, ConsecutiveDays
    <2>2. txn.session \in journal.committed => txn.session <= Anchor(journal)
      BY <1>2 DEF Rest
    <2> QED
      BY <2>1, <2>2, NoneFacts
  <1>6. /\ v \in Verification /\ v.active = txn.session /\ v.state = journal.state
        /\ ~v.preflight /\ ~v.screened /\ ~v.decided /\ SameHeader(journal, v)
    BY <1>3, <1>4, <1>5 DEF StartValue, Verification, SameHeader
  <1>7. Accepts(journal, e)
    <2>1. proc[p].now >= Close[txn.session]
      BY <1>2, <1>3, TimeAccepted, CalendarTypes
    <2>2. StartAccepted(journal, e)
      BY <1>3, <1>4, <1>5, <2>1 DEF StartAccepted
    <2> QED
      BY <1>2, <1>4, <2>2, TimeAccepted DEF Accepts
  <1>8. v = Fold(journal, e)
    BY <1>4 DEF Fold
  <1> HIDE DEF v
  <1>9. started = [txn EXCEPT !.check = v] /\ started \in Transaction
    BY <1>3, <1>6, <1>7, <1>8, AppendFolds
  <1>10. /\ started.check = v /\ started.state = txn.state
         /\ started.session = txn.session /\ started.current = txn.current
    BY <1>3, <1>9 DEF Transaction
  <1>11. /\ w \in Verification /\ w.active = txn.session /\ w.state = journal.state
         /\ w.preflight /\ ~w.screened /\ ~w.decided /\ SameHeader(journal, w)
    BY <1>6 DEF Verification, SameHeader
  <1>12. Accepts(v, f)
    <2>1. PreflightAccepted(v, f)
      BY <1>4, <1>5, <1>6 DEF PreflightAccepted, InSession
    <2> QED
      BY <1>2, <1>4, <1>6, <2>1, TimeAccepted DEF Accepts, SameHeader
  <1>13. w = Fold(v, f)
    BY <1>4 DEF Fold
  <1> HIDE DEF w, started
  <1>14. v # None /\ w # None
    BY <1>6, <1>11, NoneFacts
  <1>15. new = [started EXCEPT !.check = w] /\ new \in Transaction
    BY <1>9, <1>10, <1>11, <1>12, <1>13, <1>14, AppendFolds
  <1>16. /\ new.check = w /\ new.state = txn.state
         /\ new.session = txn.session /\ new.current = txn.current
    BY <1>9, <1>10, <1>15 DEF Transaction
  <1> HIDE DEF new
  <1>17. Underway(journal, new, "aging")
    <2>1. Progress(journal.state, new.state, new.session, "aging")
      BY <1>3, <1>16 DEF Progress, Settled
    <2>2. ValidState(journal.state)
      BY <1>2 DEF Rest, Book
    <2> QED
      BY <1>3, <1>11, <1>16, <2>1, <2>2 DEF Underway
  <1>18. Content(journal, new, "aging", proc[p].now)
    BY <1>2, <1>3, <1>11, <1>14, <1>15, <1>16, <1>17 DEF Content
  <1> QED
    BY <1>1, <1>18, SessionKeeps DEF SessionStages

\* At the end of a session the holding counter is the number of official
\* sessions since the entry: it was so before, and one session was added.
LEMMA HoldingCounts ==
    ASSUME NEW j, Rest(j), NEW t, NEW now, Content(j, t, "seal", now),
           t.state.position # None
    PROVE  /\ t.state.position.entry \in Official
           /\ t.state.position.entry <= t.session
           /\ t.state.position.holding =
                  Cardinality(TradingSessions(t.state.position.entry, t.session))
  <1> DEFINE b == j.state
             held == t.state.position
  <1>1. /\ Progress(b, t.state, t.session, "seal") /\ Book(b, Anchor(j))
        /\ t.session \in Official
    BY LedgerFacts DEF Inner
  <1>2. Aged(b, t.state, t.session)
    BY <1>1 DEF Progress
  <1>3. Consecutive(Anchor(j), t.session)
    BY DEF Content
  <1>4. /\ Anchor(j) \in Days /\ t.session \in Days
        /\ Anchor(j) \in Nat /\ t.session \in Nat /\ Anchor(j) < t.session
    BY <1>3, ConsecutiveDays
  <1>5. CASE b.position # None
    <2>1. /\ held.entry = b.position.entry /\ held.holding = b.position.holding + 1
      BY <1>2, <1>5 DEF Aged
    <2>2. /\ held.entry \in Official /\ held.entry <= Anchor(j)
          /\ b.position.holding = Cardinality(TradingSessions(held.entry, Anchor(j)))
      BY <1>1, <1>5, <2>1 DEF Book
    <2>3. held.entry \in Int
      BY <2>2, CalendarTypes
    <2>4. held.entry <= t.session
      BY <1>4, <2>2, <2>3
    <2>5. Cardinality(TradingSessions(held.entry, t.session)) =
              Cardinality(TradingSessions(held.entry, Anchor(j))) + 1
      BY <1>3, <1>4, <2>3, <2>4, CountToNext
    <2> QED
      BY <2>1, <2>2, <2>4, <2>5
  <1>6. CASE b.position = None
    <2>1. held.entry = t.session /\ held.holding = 1
      BY <1>2, <1>6 DEF Aged
    <2> QED
      BY <1>1, <1>4, <2>1, CountOfOne
  <1> QED
    BY <1>5, <1>6

\* The commit event: what it leaves is a journal at rest, one session longer.
LEMMA SealKeeps ==
    ASSUME RunnerInv, NEW p \in Procs, Seal(p)
    PROVE  RunnerInv'
  <1> DEFINE e == Event(txn, p, "SESSION_COMMITTED")
             c == txn.check
             v == CommitValue(c, e)
             s == txn.session
             new == Append(txn, e)
  <1>1. At(p, "seal") /\ Session(p, "seal", new, "verify")
    BY DEF Seal
  <1>2. Rest(journal) /\ Content(journal, txn, "seal", proc[p].now)
    BY <1>1, Inside DEF SessionStages
  <1>3. /\ Underway(journal, txn, "seal") /\ txn \in Transaction
        /\ c \in Verification /\ c.state = txn.state /\ s \in Official
        /\ c.active = s /\ c.preflight /\ c.screened /\ c.decided
        /\ SameHeader(journal, c) /\ c # None /\ journal \in Verification
        /\ Consecutive(Anchor(journal), s)
    BY <1>2 DEF Content, Underway, Inner, Rest
  <1>4. /\ e.kind = "SESSION_COMMITTED" /\ e.at = proc[p].now /\ e.session = s
        /\ e.after = txn.state
    BY DEF Event
  <1>5. /\ s \in Days /\ s # None /\ s \in Nat /\ Anchor(journal) < s
        /\ Anchor(journal) \in Nat
    BY <1>3, ConsecutiveDays, NoneFacts
  <1>6. /\ ValidState(txn.state) /\ txn.state \in State
        /\ Progress(journal.state, txn.state, s, "seal")
    BY <1>2, LedgerFacts DEF Inner
  <1>7. /\ Moved(journal.state, txn.state, s) /\ Aged(journal.state, txn.state, s)
        /\ txn.state.pending # None => txn.state.pending.signal = s
        /\ txn.state.position # None => txn.state.position.holding < MaxHold
    BY <1>6 DEF Progress, Settled
  <1> HIDE DEF e, c
  <1>8. /\ v \in Verification /\ v.active = None /\ v.last = s /\ v.state = txn.state
        /\ v.created = journal.created /\ v.boundary = journal.boundary
        /\ v.committed = journal.committed \cup {s}
    BY <1>3, <1>4, <1>5 DEF CommitValue, Verification, SameHeader
  <1>9. Accepts(c, e)
    <2>1. CommitAccepted(c, e)
      <3>1. InSession(c, e)
        BY <1>3, <1>4, <1>5 DEF InSession
      <3>2. c.state.position # None =>
               c.state.position.holding =
                   Cardinality(TradingSessions(c.state.position.entry, e.session))
        BY <1>2, <1>3, <1>4, HoldingCounts
      <3> QED
        BY <1>3, <1>4, <1>6, <1>7, <3>1, <3>2 DEF CommitAccepted
    <2>2. e.at \in Clock /\ e.at >= c.created
      BY <1>2, <1>3, <1>4, TimeAccepted DEF SameHeader
    <2> QED
      BY <2>1, <2>2 DEF Accepts
  <1>10. v = Fold(c, e)
    BY <1>4 DEF Fold
  <1> HIDE DEF v
  <1>11. new = [txn EXCEPT !.check = v] /\ new \in Transaction
    BY <1>3, <1>8, <1>9, <1>10, AppendFolds DEF c
  <1>12. /\ new.check = v /\ new.state = txn.state /\ new.session = s
         /\ new.current = txn.current
    BY <1>3, <1>11 DEF Transaction
  <1>13. Rest(v)
    <2>1. Anchor(v) = s
      BY <1>5, <1>8 DEF Anchor
    <2>2. Book(v.state, s)
      <3>1. txn.state.position # None => txn.state.position.fee = 0
        BY <1>7 DEF Aged
      <3>2. txn.state.position # None =>
                /\ txn.state.position.entry \in Official
                /\ txn.state.position.entry <= s
                /\ txn.state.position.holding =
                       Cardinality(TradingSessions(txn.state.position.entry, s))
        BY <1>2, HoldingCounts
      <3> QED
        BY <1>6, <1>7, <1>8, <3>1, <3>2 DEF Book
    <2>3. /\ journal.created \in Clock
          /\ journal.boundary = LatestCompleted(journal.created)
          /\ journal.boundary <= Anchor(journal) /\ journal.boundary \in Official
          /\ journal.boundary \in Int
      BY <1>2, LatestCompletedFacts, CalendarTypes DEF Rest
    <2>4. journal.boundary < s /\ journal.boundary <= s
      BY <1>5, <2>3
    <2>5. ASSUME NEW r \in v.committed
          PROVE  r \in Official /\ v.boundary < r /\ r <= s
      <3>1. CASE r \in journal.committed
        <4>1. r \in Official /\ journal.boundary < r /\ r <= Anchor(journal)
          BY <1>2, <3>1 DEF Rest
        <4>2. r \in Int
          BY <4>1, CalendarTypes
        <4>3. r <= s
          BY <1>5, <4>1, <4>2
        <4> QED
          BY <1>8, <4>1, <4>3
      <3>2. CASE r = s
        BY <1>3, <1>5, <1>8, <2>4, <3>2
      <3> QED
        BY <1>8, <3>1, <3>2
    <2> QED
      BY <1>3, <1>8, <2>1, <2>2, <2>3, <2>4, <2>5 DEF Rest
  <1> HIDE DEF new
  <1>14. Processed(journal, v, s)
    <2>1. Trades(journal.state, v.state, s)
      BY <1>6, <1>7, <1>8 DEF Trades, Moved
    <2>2. Ages(journal.state, v.state, s)
      BY <1>7, <1>8 DEF Ages, Aged
    <2> QED
      BY <1>8, <1>13, <2>1, <2>2 DEF Processed
  <1>15. v # None
    BY <1>8, NoneFacts
  <1>16. Content(journal, new, "verify", proc[p].now)
    BY <1>2, <1>8, <1>11, <1>12, <1>14, <1>15 DEF Content, Inner, Settled
  <1> QED
    BY <1>1, <1>16, SessionKeeps DEF SessionStages

\* COMMIT leaves the journal as it was, or one session longer.
LEMMA CommitKeeps ==
    ASSUME RunnerInv, NEW p \in Procs, Commit(p)
    PROVE  /\ RunnerInv'
           /\ journal # None /\ journal' # None /\ Rest(journal)
           /\ \/ journal' = journal
              \/ \E s \in Official : /\ Consecutive(Anchor(journal), s)
                                     /\ Processed(journal, journal', s)
  <1>1. At(p, "verify") /\ Finish(p) /\ UNCHANGED <<file, disk>>
    BY DEF Commit
  <1>2. /\ lock = p /\ txn # None /\ journal # None /\ Rest(journal)
        /\ Content(journal, txn, "verify", proc[p].now)
    BY <1>1, Inside DEF SessionStages
  <1>3. \/ journal' = journal
        \/ journal' = txn.check /\ Processed(journal, txn.check, txn.session)
    BY <1>2 DEF Commit, Content
  <1>4. Rest(journal') /\ journal' \in Verification /\ journal' # None
    BY <1>2, <1>3, NoneFacts DEF Processed, Rest
  <1>5. lock' = None /\ txn' = None
    BY <1>1, <1>2 DEF Finish
  <1>6. TypeOK /\ Control
    BY DEF RunnerInv
  <1>7. /\ proc' \in [Procs -> [at : Stages, now : Clock \cup {None},
                                code : Identities \cup {None}]]
        /\ proc'[p].at = "idle"
        /\ \A q \in Procs : q # p => proc'[q] = proc[q]
    BY <1>1, <1>6, FinishFacts
  <1>8. TypeOK'
    BY <1>1, <1>4, <1>5, <1>6, <1>7 DEF TypeOK
  <1>9. Control'
    BY <1>1, <1>2, <1>4, <1>5, <1>6, <1>7, NoneFacts DEF Control, At, SessionStages
  <1>10. txn.session \in Official /\ Consecutive(Anchor(journal), txn.session)
    BY <1>2 DEF Content
  <1> QED
    BY <1>2, <1>3, <1>4, <1>5, <1>8, <1>9, <1>10 DEF RunnerInv

-----------------------------------------------------------------------------
LEMMA InitEstablishes == Init => RunnerInv
  <1> SUFFICES ASSUME Init PROVE RunnerInv
    OBVIOUS
  <1>1. TypeOK
    BY DEF Init, TypeOK, Idle0, Stages
  <1>2. Control
    BY NoneFacts DEF Init, Control, At, Idle0, SessionStages
  <1> QED
    BY <1>1, <1>2 DEF Init, RunnerInv

\* What a step may do to the committed journal: make it, add one official
\* session to it, or leave it alone.
JournalStep ==
    \/ journal' = journal
    \/ /\ journal = None /\ journal' # None
       /\ journal'.boundary \in Official /\ journal'.last = None
       /\ journal'.state = InitialState
    \/ /\ journal # None /\ journal' # None
       /\ \E s \in Official : /\ Consecutive(Anchor(journal), s)
                              /\ Processed(journal, journal', s)

LEMMA NextKeeps ==
    ASSUME RunnerInv, Next
    PROVE  RunnerInv' /\ JournalStep
  <1>1. ASSUME NEW p \in Procs, NEW t \in Clock, InitBegin(p, t) \/ RunBegin(p, t)
        PROVE  RunnerInv' /\ JournalStep
    <2>1. journal' = journal
      BY <1>1 DEF InitBegin, RunBegin
    <2> QED
      BY <1>1, <2>1, InitBeginKeeps, RunBeginKeeps DEF JournalStep
  <1>2. ASSUME NEW p \in Procs, Crash(p)
        PROVE  RunnerInv' /\ JournalStep
    BY <1>2, FinishKeeps DEF Crash, JournalStep
  <1>3. ASSUME NEW v \in Identities, Deploy(v)
        PROVE  RunnerInv' /\ JournalStep
    BY <1>3, DeployKeeps DEF Deploy, JournalStep
  <1>4. ASSUME NEW p \in Procs, InitStep(p)
        PROVE  RunnerInv' /\ JournalStep
    <2>1. CASE InitRefused(p) \/ InitExists(p) \/ InitBusy(p)
      BY <2>1, FinishKeeps DEF InitRefused, InitExists, InitBusy, JournalStep
    <2>2. CASE InitCreate(p)
      BY <2>2, InitCreateKeeps DEF InitCreate, JournalStep
    <2>3. CASE InitGenesis(p)
      BY <2>3, InitGenesisKeeps DEF JournalStep
    <2>4. CASE \E t \in Clock : InitScreened(p, t)
      BY <2>4, InitScreenedKeeps DEF InitScreened, JournalStep
    <2> QED
      BY <1>4, <2>1, <2>2, <2>3, <2>4 DEF InitStep
  <1>5. ASSUME NEW p \in Procs, SessionStep(p)
        PROVE  RunnerInv' /\ JournalStep
    <2>1. CASE SessionAborts(p)
      BY <2>1, FinishKeeps DEF SessionAborts, JournalStep
    <2>2. CASE Commit(p)
      BY <2>2, CommitKeeps DEF JournalStep
    <2>3. CASE PreflightFails(p) \/ PreflightPasses(p)
      <3>1. journal' = journal
        BY <2>3 DEF PreflightFails, PreflightPasses, Session
      <3> QED
        BY <2>3, <3>1, PreflightFailsKeeps, PreflightPassesKeeps DEF JournalStep
    <2>4. CASE Age(p) \/ Open(p) \/ Bar(p) \/ CloseBar(p)
      <3>1. journal' = journal
        BY <2>4 DEF Age, Open, Bar, CloseBar, Flat, Session
      <3> QED
        BY <2>4, <3>1, AgeKeeps, OpenKeeps, BarKeeps, CloseBarKeeps DEF JournalStep
    <2>5. CASE Entry(p) \/ ScreenEvaluated(p)
      <3>1. journal' = journal
        BY <2>5 DEF Entry, ScreenEvaluated, Session
      <3> QED
        BY <2>5, <3>1, EntryKeeps, ScreenEvaluatedKeeps DEF JournalStep
    <2>6. CASE DecideNoTrade(p) \/ DecideIntent(p) \/ Seal(p)
      <3>1. journal' = journal
        BY <2>6 DEF DecideNoTrade, DecideIntent, Seal, Session
      <3> QED
        BY <2>6, <3>1, DecideNoTradeKeeps, DecideIntentKeeps, SealKeeps DEF JournalStep
    <2> QED
      BY <1>5, <2>1, <2>2, <2>3, <2>4, <2>5, <2>6 DEF SessionStep
  <1>6. ASSUME NEW p \in Procs, RunStep(p)
        PROVE  RunnerInv' /\ JournalStep
    <2>1. CASE RunTurnedAway(p)
      BY <2>1, FinishKeeps DEF RunTurnedAway, JournalStep
    <2>2. CASE RunLock(p)
      BY <2>2, RunLockKeeps DEF RunLock, JournalStep
    <2>3. ASSUME NEW a \in Asks, RunRefused(p, a)
          PROVE  RunnerInv' /\ JournalStep
      BY <2>3, FinishKeeps DEF RunRefused, JournalStep
    <2>4. ASSUME NEW a \in Asks, RunAdmitted(p, a)
          PROVE  RunnerInv' /\ JournalStep
      BY <2>4, RunAdmittedKeeps DEF RunAdmitted, JournalStep
    <2> QED
      BY <1>5, <1>6, <2>1, <2>2, <2>3, <2>4 DEF RunStep
  <1> QED
    BY <1>1, <1>2, <1>3, <1>4, <1>6 DEF Next, Step

LEMMA StutterKeeps ==
    ASSUME RunnerInv, UNCHANGED vars
    PROVE  RunnerInv' /\ JournalStep
  BY DEF RunnerInv, vars, TypeOK, Control, At, JournalStep

\* Where every process is, and what the open transaction and the committed
\* journal hold, in every reachable state.
THEOREM RunnerInvariant == Spec => []RunnerInv
  <1>1. Init => RunnerInv
    BY InitEstablishes
  <1>2. RunnerInv /\ [Next]_vars => RunnerInv'
    BY NextKeeps, StutterKeeps
  <1> QED
    BY <1>1, <1>2, PTL DEF Spec

\* Every variable keeps its type, the ledger of an open session included.
THEOREM RunnerTypes == Spec => []TypeOK
  <1>1. RunnerInv => TypeOK
    BY DEF RunnerInv
  <1> QED
    BY <1>1, RunnerInvariant, PTL

\* Whatever the runner appends verifies: the engine that trades, the reducer
\* that recomputes and the verifier that reads the journal back agree at every
\* event, so INTEGRITY_FAILURE is never the runner's doing (runner.py's _run,
\* Journal._verify).
THEOREM RunnerVerifies == Spec => []AppendsVerify
  <1>1. RunnerInv => AppendsVerify
    <2> SUFFICES ASSUME RunnerInv PROVE AppendsVerify
      OBVIOUS
    <2>1. file = "ready" => journal # None
      BY DEF RunnerInv, Control
    <2>2. ASSUME txn # None
          PROVE  txn.check # None /\ txn.check.state = txn.state
      <3>1. lock # None /\ lock \in Procs
        BY <2>2 DEF RunnerInv, Control, TypeOK
      <3>2. Content(journal, txn, proc[lock].at, proc[lock].now)
        BY <2>2, <3>1 DEF RunnerInv
      <3> QED
        BY <3>2 DEF Content
    <2> QED
      BY <2>1, <2>2 DEF AppendsVerify
  <1> QED
    BY <1>1, RunnerInvariant, PTL

\* No session that had closed at the inception is ever committed, however often
\* clocks ran backwards ("never backfills").
THEOREM NeverBackfills == Spec => []ForwardOnly
  <1>1. RunnerInv => ForwardOnly
    <2> SUFFICES ASSUME RunnerInv, journal # None, NEW s \in journal.committed
                 PROVE  Close[s] > journal.created
      BY DEF ForwardOnly
    <2>1. Rest(journal)
      BY DEF RunnerInv
    <2>2. s \in Official /\ journal.boundary < s
      BY <2>1 DEF Rest
    <2>3. journal.created < Close[s]
      BY <2>1, <2>2, ClosedLater
    <2>4. journal.created \in Nat /\ Close[s] \in Nat
      BY <2>1, <2>2, CalendarTypes DEF Rest
    <2> QED
      BY <2>3, <2>4
  <1> QED
    BY <1>1, RunnerInvariant, PTL

-----------------------------------------------------------------------------
\* The abstract ledger's vocabulary is the runner's.
LEMMA SameVocabulary ==
    /\ Ledger!State = State
    /\ Ledger!InitialState = InitialState
    /\ \A a, b : Ledger!Consecutive(a, b) <=> Consecutive(a, b)
    /\ \A b, a, s : Ledger!Trades(b, a, s) <=> Trades(b, a, s)
    /\ \A b, a, s : Ledger!Ages(b, a, s) <=> Ages(b, a, s)
  <1>1. Ledger!State = State /\ Ledger!InitialState = InitialState
    BY DEF Ledger!State, State, Ledger!Position, Position, Ledger!Pending, Pending,
           Ledger!Days, Days, Ledger!InitialState, InitialState
  <1>2. \A a, b : Ledger!Consecutive(a, b) <=> Consecutive(a, b)
    BY DEF Ledger!Consecutive, Consecutive, Ledger!TradingSessions, TradingSessions
  <1>3. \A a : Ledger!CostBasis(a) = CostBasis(a)
    BY DEF Ledger!CostBasis, CostBasis
  <1>4. \A a : Ledger!ValidState(a) <=> ValidState(a)
    BY <1>1, <1>2, <1>3 DEF Ledger!ValidState, ValidState
  <1>5. \A b, a, s : Ledger!Trades(b, a, s) <=> Trades(b, a, s)
    BY <1>3, <1>4 DEF Ledger!Trades, Trades, Ledger!Kept, Kept, Ledger!Closed, Closed,
           Ledger!Bought, Bought, Ledger!RoundTrip, RoundTrip, Ledger!Refused, Refused,
           Ledger!Idle, Idle, Ledger!SameMoney, SameMoney
  <1>6. \A b, a, s : Ledger!Ages(b, a, s) <=> Ages(b, a, s)
    BY DEF Ledger!Ages, Ages
  <1> QED
    BY <1>1, <1>2, <1>5, <1>6

LEMMA JournalStepIsLedgerStep ==
    ASSUME RunnerInv, RunnerInv', JournalStep
    PROVE  [Ledger!LedgerNext]_(Ledger!ledgerVars)
  <1>1. CASE journal' = journal
    BY <1>1 DEF Ledger!ledgerVars
  <1>2. CASE /\ journal = None /\ journal' # None
             /\ journal'.boundary \in Official /\ journal'.last = None
             /\ journal'.state = InitialState
    <2>1. Ledger!Open
      BY <1>2, SameVocabulary DEF Ledger!Open
    <2> QED
      BY <2>1 DEF Ledger!LedgerNext
  <1>3. ASSUME journal # None, journal' # None, NEW s \in Official,
               Consecutive(Anchor(journal), s), Processed(journal, journal', s)
        PROVE  [Ledger!LedgerNext]_(Ledger!ledgerVars)
    <2>1. /\ Rest(journal) /\ journal \in Verification /\ journal'.state \in State
          /\ journal.state # None
      BY <1>3, NoneFacts DEF RunnerInv, Rest, Processed, Verification
    <2>2. /\ journal'.last = s /\ journal'.boundary = journal.boundary
          /\ Trades(journal.state, journal'.state, s)
          /\ Ages(journal.state, journal'.state, s)
      BY <1>3 DEF Processed
    <2>3. Consecutive(IF journal.last = None THEN journal.boundary ELSE journal.last, s)
      BY <1>3 DEF Anchor
    <2>4. Ledger!Session(s)
      BY <1>3, <2>1, <2>2, <2>3, SameVocabulary DEF Ledger!Session
    <2> QED
      BY <2>4 DEF Ledger!LedgerNext
  <1> QED
    BY <1>1, <1>2, <1>3 DEF JournalStep

\* The committed journal is the abstract ledger, seen through its sessions and
\* its state: an inception, then one official session at a time, all of it or
\* nothing, whatever processes race, die or are deployed to meanwhile.
THEOREM RunnerImplementsLedger == Spec => ImplementsLedger
  <1>1. Init => Ledger!LedgerInit
    BY DEF Init, Ledger!LedgerInit
  <1>2. RunnerInv /\ RunnerInv' /\ [Next]_vars => [Ledger!LedgerNext]_(Ledger!ledgerVars)
    BY NextKeeps, StutterKeeps, JournalStepIsLedgerStep
  <1> QED
    BY <1>1, <1>2, RunnerInvariant, PTL DEF Spec, ImplementsLedger, Ledger!LedgerSpec

=============================================================================
