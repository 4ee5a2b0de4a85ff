--------------------------- MODULE ShadowJournal ---------------------------
(***************************************************************************)
(* The journal verifier (shadow/journal.py, Journal._verify) as a fold:    *)
(* the value reached after a prefix of the events, the condition under     *)
(* which the next event is accepted and the value reached with it.  The    *)
(* append-only table, its sequence numbers and its hash chain are the      *)
(* order of the fold; a digest stands for the value it digests.  What the  *)
(* code checks of encodings, schema text and ranking order is left out.    *)
(***************************************************************************)
EXTENDS ShadowState

CONSTANT Identities     \* fingerprints of code, configuration and runtime

\* SCREEN_EVALUATED: whether the inputs were complete, and the symbol ranked
\* first (None when no candidate is eligible).
Screen == [complete : BOOLEAN, top : Symbols \cup {None}]

Verification ==
    [identity  : Identities,
     created   : Nat,                     \* created_at_utc of the inception
     boundary  : Days,                    \* latest completed session then
     last      : Days \cup {None},        \* last committed session
     committed : SUBSET Days,
     state     : State,
     active    : Days \cup {None},        \* the session being journaled
     preflight : BOOLEAN,
     screened  : BOOLEAN,
     decided   : BOOLEAN,
     screen    : Screen \cup {None}]

ASSUME JournalAssumption == None \notin Screen /\ None \notin Verification

\* The session the next one must follow.
Anchor(v) == IF v.last = None THEN v.boundary ELSE v.last

-----------------------------------------------------------------------------
\* Genesis (event 1): the boundary is the session complete at its timestamp.
GenesisAccepted(e) ==
    /\ e.kind = "SHADOW_INITIALIZED"
    /\ e.identity \in Identities
    /\ e.at \in Clock
    /\ e.boundary = LatestCompleted(e.at)

GenesisValue(e) ==
    [identity |-> e.identity, created |-> e.at, boundary |-> e.boundary,
     last |-> None, committed |-> {}, state |-> InitialState, active |-> None,
     preflight |-> FALSE, screened |-> FALSE, decided |-> FALSE,
     screen |-> None]

\* DATA_PREFLIGHT_FAILED: evidence about the next session, nothing changes.
FailureAccepted(v, e) ==
    /\ e.kind = "DATA_PREFLIGHT_FAILED"
    /\ v.active = None
    /\ e.after = v.state
    /\ Consecutive(Anchor(v), e.session)
    /\ e.identity = v.identity

StartAccepted(v, e) ==
    /\ e.kind = "SESSION_STARTED"
    /\ v.active = None
    /\ Consecutive(Anchor(v), e.session)
    /\ e.session \notin v.committed
    /\ e.at >= Close[e.session]
    /\ e.before = v.state
    /\ e.identity = v.identity

StartValue(v, e) ==
    [v EXCEPT !.active = e.session, !.preflight = FALSE, !.screened = FALSE,
              !.decided = FALSE, !.screen = None]

\* Mutant: no session need be open.
InAnySession(v, e) == v.active = None \/ e.session = v.active

InSession(v, e) == v.active # None /\ e.session = v.active

\* "not preflight and not session_events": the first event of a session.
PreflightAccepted(v, e) ==
    /\ e.kind = "DATA_PREFLIGHT_PASSED"
    /\ InSession(v, e)
    /\ ~v.preflight

ScreenAccepted(v, e) ==
    /\ e.kind = "SCREEN_EVALUATED"
    /\ InSession(v, e)
    /\ v.preflight /\ ~v.screened
    /\ e.screen \in Screen

\* An intent for the symbol ranked first by this session's complete screen.
IntentAccepted(v, e) ==
    /\ e.kind = "ENTRY_INTENT_CREATED"
    /\ v.screened /\ ~v.decided
    /\ v.screen.complete /\ v.screen.top # None
    /\ e.after.pending.symbol = v.screen.top
    /\ e.after.pending.signal = e.session

\* A pending entry is settled before the screen of its execution session.
SettlementAccepted(v, e) ==
    /\ e.kind \in {"ENTRY_EXECUTED", "ENTRY_REJECTED"}
    /\ ~v.screened /\ ~v.decided
    /\ v.state.pending # None
    /\ v.state.pending.execution = e.session

ManagementAccepted(v, e) ==
    /\ e.kind \in {"POSITION_MANAGED", "EXIT_EXECUTED"}
    /\ ~v.decided

TransitionAccepted(v, e) ==
    /\ InSession(v, e)
    /\ v.preflight
    /\ \/ IntentAccepted(v, e)
       \/ SettlementAccepted(v, e)
       \/ ManagementAccepted(v, e)
    /\ ReduceTransition(v.state, e)

TransitionValue(v, e) ==
    [v EXCEPT !.state = e.after,
              !.decided = @ \/ e.kind = "ENTRY_INTENT_CREATED"]

\* The one reason that explains why a session creates no intent.
NoTradeReason(v) ==
    CASE ~v.screen.complete -> "NO_TRADE_DATA_INCOMPLETE"
      [] v.screen.complete /\ (v.state.position # None \/ v.state.pending # None)
           -> "CAPACITY_FULL"
      [] v.screen.complete /\ v.state.position = None /\ v.state.pending = None
           -> IF v.screen.top = None THEN "NO_ELIGIBLE_CANDIDATES"
              ELSE "ENTRY_REJECTED_BY_CHAMPION"

NoTradeAccepted(v, e) ==
    /\ e.kind = "DECISION_NO_TRADE"
    /\ InSession(v, e)
    /\ v.preflight /\ v.screened /\ ~v.decided
    /\ e.after = v.state
    /\ e.reason = NoTradeReason(v)

\* Mutant: an intent may be left pending over its session.
CommitDeferring(v, e) ==
    /\ e.kind = "SESSION_COMMITTED"
    /\ InSession(v, e)
    /\ v.preflight /\ v.screened /\ v.decided
    /\ e.after = v.state
    /\ ValidState(v.state)
    /\ v.state.position # None =>
           v.state.position.holding =
               Cardinality(TradingSessions(v.state.position.entry, e.session))

\* SESSION_COMMITTED: the ledger is valid, the holding counter is the number
\* of official sessions since entry, and no older intent was left pending.
CommitAccepted(v, e) ==
    /\ e.kind = "SESSION_COMMITTED"
    /\ InSession(v, e)
    /\ v.preflight /\ v.screened /\ v.decided
    /\ e.after = v.state
    /\ ValidState(v.state)
    /\ v.state.position # None =>
           v.state.position.holding =
               Cardinality(TradingSessions(v.state.position.entry, e.session))
    /\ v.state.pending # None => v.state.pending.signal = e.session

\* The screen is only read by later events of its own session; it is dropped.
CommitValue(v, e) ==
    [v EXCEPT !.last = e.session, !.committed = @ \cup {e.session},
              !.active = None, !.screen = None]

-----------------------------------------------------------------------------
\* One iteration of the verification loop, for any event after genesis.
Accepts(v, e) ==
    /\ e.at \in Clock /\ e.at >= v.created
    /\ \/ FailureAccepted(v, e)
       \/ StartAccepted(v, e)
       \/ PreflightAccepted(v, e)
       \/ ScreenAccepted(v, e)
       \/ TransitionAccepted(v, e)
       \/ NoTradeAccepted(v, e)
       \/ CommitAccepted(v, e)

Fold(v, e) ==
    CASE e.kind = "DATA_PREFLIGHT_FAILED" -> v
      [] e.kind = "SESSION_STARTED"       -> StartValue(v, e)
      [] e.kind = "DATA_PREFLIGHT_PASSED" -> [v EXCEPT !.preflight = TRUE]
      [] e.kind = "SCREEN_EVALUATED"      ->
             [v EXCEPT !.screened = TRUE, !.screen = e.screen]
      [] e.kind = "DECISION_NO_TRADE"     -> [v EXCEPT !.decided = TRUE]
      [] e.kind = "SESSION_COMMITTED"     -> CommitValue(v, e)
      [] OTHER                            -> TransitionValue(v, e)

\* verify() of a whole journal also requires that no session is left open.
Complete(v) == v.active = None

=============================================================================
