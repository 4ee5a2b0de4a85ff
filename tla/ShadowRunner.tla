---------------------------- MODULE ShadowRunner ----------------------------
(***************************************************************************)
(* Processes running shadow-f-init and shadow-f-run against one journal    *)
(* file (shadow/runner.py, shadow/execution.py, Journal.connection).  A    *)
(* run holds the SQLite writer lock from BEGIN IMMEDIATE to COMMIT or      *)
(* ROLLBACK; what it appends is checked by the verifier of ShadowJournal.  *)
(* Market data, engine prices and rankings are choices: the runner must be *)
(* right for all of them.  A process may die between any two steps, and    *)
(* the code on disk may change under it.                                   *)
(***************************************************************************)
EXTENDS ShadowJournal, ShadowSession

CONSTANTS
    Procs,      \* processes
    Asks,       \* sessions a run may be asked for; None is "the next one"
    Fills,      \* notionals an entry may be sized to
    Proceeds    \* proceeds an exit may fetch

ASSUME RunnerAssumption ==
    /\ Asks \subseteq Days \cup {None}
    /\ Fills \subseteq Nat \ {0} /\ Proceeds \subseteq Nat
    /\ None \notin Procs

VARIABLES
    file,       \* the journal file: "absent", "empty" or "ready"
    journal,    \* what the committed events verify to, None if they do not
    disk,       \* the code and configuration on disk
    lock,       \* the process in a write transaction, or None
    txn,        \* that transaction: the session being processed, or None
    proc        \* the processes

vars == <<file, journal, disk, lock, txn, proc>>

InitStages == {"screening inputs", "creating", "genesis"}
SessionStages == {"admitted", "aging", "open", "entry", "bar", "screen",
                 "close", "decide", "seal", "verify"}
Stages == {"idle", "waiting", "locked"} \cup InitStages \cup SessionStages

\* A session in its transaction: ChampionSession's ledger, and what the journal
\* with the events appended so far verifies to (None once it does not).
Transaction ==
    [session : Days, state : State, check : Verification \cup {None},
     current : Identities, complete : BOOLEAN, top : Symbols \cup {None}]

ASSUME TransactionAssumption == None \notin Transaction

TypeOK ==
    /\ file \in {"absent", "empty", "ready"}
    /\ journal \in Verification \cup {None}
    /\ disk \in Identities
    /\ lock \in Procs \cup {None}
    /\ txn \in Transaction \cup {None}
    /\ proc \in [Procs -> [at : Stages, now : Clock \cup {None},
                           code : Identities \cup {None}]]

Idle0 == [at |-> "idle", now |-> None, code |-> None]

Init ==
    /\ file = "absent" /\ journal = None
    /\ disk \in Identities
    /\ lock = None /\ txn = None
    /\ proc = [p \in Procs |-> Idle0]

At(p, step) == proc[p].at = step
Go(p, step) == proc' = [proc EXCEPT ![p].at = step]

\* The invocation returns or raises; rollback and close release the lock.
Finish(p) ==
    /\ proc' = [proc EXCEPT ![p] = Idle0]
    /\ lock' = IF lock = p THEN None ELSE lock
    /\ txn' = IF lock = p THEN None ELSE txn

-----------------------------------------------------------------------------
\* shadow-f-init.  The process takes its fingerprints and its first clock
\* reading only when no file exists.
InitBegin(p, t) ==
    /\ At(p, "idle") /\ file = "absent"
    /\ proc' = [proc EXCEPT ![p] =
                    [at |-> "screening inputs", now |-> t, code |-> disk]]
    /\ UNCHANGED <<file, journal, disk, lock, txn>>

\* The readiness screen is over at t: not ready, or an official close passed
\* during it (SESSION_CHANGED_RETRY), or the clock ran backwards.
InitRefused(p) ==
    /\ At(p, "screening inputs")
    /\ Finish(p)
    /\ UNCHANGED <<file, journal, disk>>

InitScreened(p, t) ==
    /\ At(p, "screening inputs")
    /\ LatestCompleted(t) = LatestCompleted(proc[p].now)
    /\ t >= proc[p].now
    /\ proc' = [proc EXCEPT ![p].at = "creating", ![p].now = t]
    /\ UNCHANGED <<file, journal, disk, lock, txn>>

\* open("xb"): exclusive creation, ALREADY_INITIALIZED if the file is there.
InitCreate(p) ==
    /\ At(p, "creating") /\ file = "absent"
    /\ file' = "empty"
    /\ Go(p, "genesis")
    /\ UNCHANGED <<journal, disk, lock, txn>>

InitExists(p) ==
    /\ At(p, "creating") /\ file # "absent"
    /\ Finish(p)
    /\ UNCHANGED <<file, journal, disk>>

\* Schema and genesis in one transaction; it is not verified here.
InitGenesis(p) ==
    LET e == [kind |-> "SHADOW_INITIALIZED", at |-> proc[p].now,
              identity |-> proc[p].code,
              boundary |-> LatestCompleted(proc[p].now)]
    IN  /\ At(p, "genesis") /\ lock = None
        /\ file' = "ready"
        /\ journal' = IF GenesisAccepted(e) THEN GenesisValue(e) ELSE None
        /\ Finish(p)
        /\ UNCHANGED disk

\* A run has the lock on the empty file for longer than the default timeout:
\* the failed file is kept and never overwritten.
InitBusy(p) ==
    /\ At(p, "genesis") /\ lock # None
    /\ Finish(p)
    /\ UNCHANGED <<file, journal, disk>>

-----------------------------------------------------------------------------
\* shadow-f-run reads its clock before it asks for the lock.
RunBegin(p, t) ==
    /\ At(p, "idle")
    /\ proc' = [proc EXCEPT ![p] = [at |-> "waiting", now |-> t, code |-> disk]]
    /\ UNCHANGED <<file, journal, disk, lock, txn>>

\* Mutant: the lock is polled with no timeout, of a missing journal too.
RunWaits(p) == At(p, "waiting") /\ (file = "absent" \/ lock # None) /\ UNCHANGED vars

\* SHADOW_NOT_INITIALIZED, or SHADOW_JOURNAL_BUSY after the lock timeout.
RunTurnedAway(p) ==
    /\ At(p, "waiting")
    /\ file = "absent" \/ lock # None
    /\ Finish(p)
    /\ UNCHANGED <<file, journal, disk>>

RunLock(p) ==
    /\ At(p, "waiting")
    /\ file # "absent" /\ lock = None
    /\ lock' = p
    /\ Go(p, "locked")
    /\ UNCHANGED <<file, journal, disk, txn>>

-----------------------------------------------------------------------------
\* The session a run is about: the one asked for, else the expected one.
Selected(asked, expected) == IF asked = None THEN expected ELSE asked

\* The committed journal verifies and nothing on disk has changed since.
Trusted == journal # None /\ disk = journal.identity

\* Mutant: a default run waits for the session after the expected one.
AdmissibleLate(p, asked, expected) ==
    LET s == Selected(asked, expected)
    IN  /\ s > journal.boundary
        /\ s \notin journal.committed
        /\ asked = None => s < LatestCompleted(proc[p].now)
        /\ s \in Official /\ proc[p].now >= Close[s]
        /\ s = expected

\* The expected session is selected and complete under the run's clock.
Admissible(p, asked, expected) ==
    LET s == Selected(asked, expected)
    IN  /\ s > journal.boundary
        /\ s \notin journal.committed
        /\ asked = None => s <= LatestCompleted(proc[p].now)
        /\ s \in Official /\ proc[p].now >= Close[s]
        /\ s = expected

\* INTEGRITY_FAILURE, CONFIGURATION_DRIFT, CALENDAR_UNAVAILABLE,
\* BEFORE_INCEPTION, ALREADY_PROCESSED, NO_COMPLETED_SESSION,
\* SESSION_NOT_OFFICIAL, SESSION_NOT_COMPLETE or SESSION_GAP: no event.
RunRefused(p, asked) ==
    /\ At(p, "locked")
    /\ ~ \E s \in Official :
             /\ Trusted
             /\ NextSession(Anchor(journal), s)
             /\ Admissible(p, asked, s)
    /\ Finish(p)
    /\ UNCHANGED <<file, journal, disk>>

RunAdmitted(p, asked) ==
    /\ At(p, "locked")
    /\ Trusted
    /\ \E s \in Official :
           /\ NextSession(Anchor(journal), s)
           /\ Admissible(p, asked, s)
           /\ txn' = [session |-> s, state |-> journal.state, check |-> journal,
                      current |-> disk, complete |-> FALSE, top |-> None]
    /\ Go(p, "admitted")
    /\ UNCHANGED <<file, journal, disk, lock>>

-----------------------------------------------------------------------------
\* An event of the session, before it says what it changes.
Event(t, p, kind) ==
    [kind |-> kind, at |-> proc[p].now, session |-> t.session,
     identity |-> t.current, before |-> t.state, after |-> t.state,
     phase |-> None, screen |-> None, reason |-> None, trade |-> None]

\* append(): what the verifier, had it run now, would make of the journal.
Append(t, e) ==
    [t EXCEPT !.check = IF @ # None /\ Accepts(@, e) THEN Fold(@, e) ELSE None]

\* transition() of ChampionSession.process: the event and the new ledger.
Transition(t, e) == [Append(t, e) EXCEPT !.state = e.after]

\* A step of the session: the transaction becomes t, the process goes on.
Session(p, from, t, to) ==
    /\ At(p, from)
    /\ txn' = t
    /\ Go(p, to)
    /\ UNCHANGED <<file, journal, disk, lock>>

\* The market snapshot, the readiness screen or the search for the session
\* after this one raises: everything is rolled back.
SessionAborts(p) ==
    /\ At(p, "admitted")
    /\ Finish(p)
    /\ UNCHANGED <<file, journal, disk>>

\* The calendar part of the preflight: the session follows the one processed
\* before, the position is not from the future, the intent is for it.
Chronological(t) ==
    /\ Consecutive(Anchor(journal), t.session)
    /\ t.state.position # None =>
           /\ t.state.position.entry <= t.session
           /\ t.state.position.entry \in Official
    /\ t.state.pending # None => Consecutive(t.state.pending.signal, t.session)

\* So it is not, or a bar of the held or awaited symbol is missing, stale or
\* invalid: evidence only.
PreflightFails(p) ==
    /\ At(p, "admitted")
    /\ \/ ~Chronological(txn)
       \/ txn.state.position # None \/ txn.state.pending # None
    /\ Session(p, "admitted", Append(txn, Event(txn, p, "DATA_PREFLIGHT_FAILED")),
               "verify")

PreflightPasses(p) ==
    /\ At(p, "admitted")
    /\ Chronological(txn)
    /\ \E n \in Official : NextSession(txn.session, n)
    /\ LET started == Append(txn, Event(txn, p, "SESSION_STARTED"))
       IN  Session(p, "admitted",
                   Append(started, Event(txn, p, "DATA_PREFLIGHT_PASSED")),
                   "aging")

-----------------------------------------------------------------------------
\* The frozen champion trades without commission.
CommissionBps == 0

\* Mutant: a flat commission on each side of a trade.
FlatCommission(amount) == 1

Commission(amount) == (amount * CommissionBps) \div 10000

\* _execute_decision: sell the whole position.
Exit(t, p, proceeds) ==
    LET held == t.state.position
        fee  == Commission(proceeds)
        pnl  == proceeds - held.value - fee - held.fee
    IN  Transition(t, [Event(t, p, "EXIT_EXECUTED") EXCEPT
               !.after = [t.state EXCEPT !.position = None,
                                         !.cash     = @ + proceeds - fee,
                                         !.realized = @ + pnl],
               !.trade = [symbol |-> held.symbol, proceeds |-> proceeds,
                          fees |-> held.fee + fee, pnl |-> pnl]])

Manage(t, p, phase, days) ==
    Transition(t, [Event(t, p, "POSITION_MANAGED") EXCEPT
        !.after.position.holding = @ + days, !.phase = phase])

\* _open_position: buy what the cash covers, entered in this session.
Enter(t, p, value) ==
    LET fee == Commission(value)
    IN  Transition(t, [Event(t, p, "ENTRY_EXECUTED") EXCEPT
               !.after = [t.state EXCEPT
                             !.pending  = None,
                             !.cash     = @ - value - fee,
                             !.sequence = @ + 1,
                             !.position = [symbol |-> t.state.pending.symbol,
                                           entry |-> t.session, holding |-> 1,
                                           value |-> value, fee |-> fee]]])

Reject(t, p) ==
    Transition(t, [Event(t, p, "ENTRY_REJECTED") EXCEPT !.after.pending = None])

\* Mutant: the cost is not compared with the cash.
Unlimited(t, value) == TRUE

Affordable(t, value) == value + Commission(value) <= t.state.cash

-----------------------------------------------------------------------------
Holds == txn.state.position # None

\* A step whose loop over the positions finds none.
Flat(p, from, to) == At(p, from) /\ ~Holds /\ Session(p, from, txn, to)

Age(p) ==
    \/ Flat(p, "aging", "entry")
    \/ At(p, "aging") /\ Holds
       /\ Session(p, "aging", Manage(txn, p, "SESSION_OPEN", 1), "open")

\* evaluate_open: a gap through stop or target sells at the open.
Open(p) ==
    \/ Session(p, "open", txn, "entry")
    \/ \E x \in Proceeds : At(p, "open")
           /\ Session(p, "open", Exit(txn, p, x), "entry")

Entry(p) ==
    /\ At(p, "entry")
    /\ \/ /\ txn.state.pending = None
          /\ Session(p, "entry", txn, "bar")
       \/ /\ txn.state.pending # None
          /\ \E v \in Fills :
                 /\ ~Holds /\ Affordable(txn, v)
                 /\ Session(p, "entry", Enter(txn, p, v), "bar")
       \/ /\ txn.state.pending # None
          /\ Session(p, "entry", Reject(txn, p), "bar")

\* evaluate_intrabar: stop or target in the bar, else the bar is absorbed.
Bar(p) ==
    \/ Flat(p, "bar", "screen")
    \/ At(p, "bar") /\ Holds
       /\ Session(p, "bar", Manage(txn, p, "BAR_COMPLETED", 0), "screen")
    \/ \E x \in Proceeds : At(p, "bar") /\ Holds
           /\ Session(p, "bar", Exit(txn, p, x), "screen")

ScreenEvaluated(p) ==
    /\ At(p, "screen")
    /\ \E scr \in Screen :
           LET t == [txn EXCEPT !.complete = scr.complete, !.top = scr.top]
           IN  Session(p, "screen",
                       Append(t, [Event(t, p, "SCREEN_EVALUATED")
                                      EXCEPT !.screen = scr]),
                       "close")

\* Mutant: one session too long.
MaxHoldExceeded(t) == t.state.position.holding > MaxHold

\* The hard max hold: the tenth session of a position is its last.
MaxHoldReached(t) == t.state.position.holding >= MaxHold

\* evaluate_close: the frozen champion's hard max hold, nothing else.
CloseBar(p) ==
    \/ Flat(p, "close", "decide")
    \/ /\ At(p, "close") /\ Holds
       /\ ~MaxHoldReached(txn)
       /\ Session(p, "close", Manage(txn, p, "SESSION_CLOSE", 0), "decide")
    \/ /\ At(p, "close") /\ Holds
       /\ MaxHoldReached(txn)
       /\ \E x \in Proceeds : Session(p, "close", Exit(txn, p, x), "decide")

\* The reason process() gives for making no intent.
Reason(t) ==
    IF ~t.complete THEN "NO_TRADE_DATA_INCOMPLETE"
    ELSE IF t.state.position # None \/ t.state.pending # None
         THEN "CAPACITY_FULL"
         ELSE IF t.top = None THEN "NO_ELIGIBLE_CANDIDATES"
              ELSE "ENTRY_REJECTED_BY_CHAMPION"

DecideNoTrade(p) ==
    /\ At(p, "decide")
    /\ Session(p, "decide",
               Append(txn, [Event(txn, p, "DECISION_NO_TRADE")
                                EXCEPT !.reason = Reason(txn)]),
               "seal")

DecideIntent(p) ==
    /\ At(p, "decide")
    /\ Reason(txn) = "ENTRY_REJECTED_BY_CHAMPION"
    /\ \E n \in Official :
           /\ NextSession(txn.session, n)
           /\ LET intent == [symbol |-> txn.top, signal |-> txn.session,
                             execution |-> n]
              IN  Session(p, "decide",
                          Transition(txn, [Event(txn, p, "ENTRY_INTENT_CREATED")
                              EXCEPT !.after.pending = intent]),
                          "seal")

Seal(p) ==
    /\ At(p, "seal")
    /\ Session(p, "seal", Append(txn, Event(txn, p, "SESSION_COMMITTED")),
               "verify")

\* The whole journal is verified inside the transaction, then COMMIT; if it
\* does not verify, ROLLBACK.
Commit(p) ==
    /\ At(p, "verify")
    /\ journal' = IF txn.check # None /\ Complete(txn.check)
                  THEN txn.check ELSE journal
    /\ Finish(p)
    /\ UNCHANGED <<file, disk>>

-----------------------------------------------------------------------------
\* The process dies: SQLite rolls an open transaction back.
Crash(p) ==
    /\ ~At(p, "idle")
    /\ Finish(p)
    /\ UNCHANGED <<file, journal, disk>>

\* Someone edits, checks out or upgrades what the fingerprints cover.
Deploy(v) ==
    /\ disk # v
    /\ disk' = v
    /\ UNCHANGED <<file, journal, lock, txn, proc>>

InitStep(p) ==
    \/ InitRefused(p) \/ InitCreate(p) \/ InitExists(p)
    \/ InitGenesis(p) \/ InitBusy(p)
    \/ \E t \in Clock : InitScreened(p, t)

SessionStep(p) ==
    \/ SessionAborts(p) \/ PreflightFails(p) \/ PreflightPasses(p)
    \/ Age(p) \/ Open(p) \/ Entry(p) \/ Bar(p) \/ ScreenEvaluated(p)
    \/ CloseBar(p) \/ DecideNoTrade(p) \/ DecideIntent(p) \/ Seal(p)
    \/ Commit(p)

RunStep(p) ==
    \/ RunTurnedAway(p) \/ RunLock(p)
    \/ \E a \in Asks : RunRefused(p, a) \/ RunAdmitted(p, a)
    \/ SessionStep(p)

Step(p) == InitStep(p) \/ RunStep(p)

Next ==
    \/ \E p \in Procs :
           \/ \E t \in Clock : InitBegin(p, t) \/ RunBegin(p, t)
           \/ Step(p)
           \/ Crash(p)
    \/ \E v \in Identities : Deploy(v)

Spec == Init /\ [][Next]_vars

\* A process that has begun goes on until it returns, raises or dies; nobody
\* has to begin, to die or to deploy.
FairSpec == Spec /\ \A p \in Procs : WF_vars(Step(p))

-----------------------------------------------------------------------------
\* What a run appends always verifies: runner, engine, reducer and verifier,
\* written apart, agree at every event of a session and on the ledger reached,
\* whatever clock, bars, fills and rankings the run saw and whatever processes
\* raced or died before it.  INTEGRITY_FAILURE is thus never the runner's doing.
AppendsVerify ==
    /\ file = "ready" => journal # None
    /\ txn # None => txn.check # None /\ txn.check.state = txn.state

\* Forward only: no session that had closed when the journal was made is ever
\* in it, however often clocks ran backwards ("never backfills").
ForwardOnly ==
    journal # None => \A s \in journal.committed : Close[s] > journal.created

\* The committed journal, seen through its sessions and its ledger, is the
\* abstract ledger: one official session at a time, all of it or nothing, with
\* the intent settled in its session and no position beyond its max hold.
Ledger == INSTANCE ShadowLedger WITH
    boundary <- IF journal = None THEN None ELSE journal.boundary,
    last     <- IF journal = None THEN None ELSE journal.last,
    book     <- IF journal = None THEN None ELSE journal.state

ImplementsLedger == Ledger!LedgerSpec

\* Every invocation that began comes to an end: nobody waits on the lock of the
\* other for ever, and no session is stuck between two stages.
InvocationsEnd == \A p \in Procs : ~At(p, "idle") ~> At(p, "idle")

\* The code a session is processed with is the code of the inception (engine
\* changes "raise SHADOW_CONFIGURATION_DRIFT").
RunsInceptionCode ==
    \A p \in Procs :
        lock = p /\ txn # None => proc[p].code = journal.identity

=============================================================================
