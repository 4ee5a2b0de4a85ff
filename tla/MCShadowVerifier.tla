-------------------------- MODULE MCShadowVerifier --------------------------
(***************************************************************************)
(* A small calendar with a closed day, and a writer that offers correct    *)
(* and faulty events.                                                      *)
(***************************************************************************)
EXTENDS ShadowVerifier

MCClose == [s \in Official |-> 2 * s + 1]

MCClock == 1..(2 * LastDay + 1)

MCInceptions ==
    [kind : {"SHADOW_INITIALIZED"}, at : {1, 3}, identity : Identities,
     boundary : Official]

\* Right successors and the same with a coin too many.
MCFaulty(states) == states \cup {[s EXCEPT !.cash = @ + 1] : s \in states}

MCAfters(kind, v) ==
    LET s == v.state
    IN  CASE kind = "ENTRY_INTENT_CREATED" ->
               {[s EXCEPT !.pending = p] :
                   p \in [symbol : Symbols, signal : Days, execution : Days]}
          [] kind = "ENTRY_EXECUTED" ->
               {[s EXCEPT !.pending = None, !.position = p,
                          !.cash = @ - p.value - p.fee, !.sequence = @ + 1] :
                   p \in [symbol : Symbols, entry : Days, holding : 1..2,
                          value : {-1, 1}, fee : {0, 1}]}
          [] kind = "ENTRY_REJECTED" -> {[s EXCEPT !.pending = None]}
          [] kind = "POSITION_MANAGED" ->
               {[s EXCEPT !.position = p] :
                   p \in [symbol : Symbols, entry : Days, holding : 1..3,
                          value : {1, 2}, fee : {0, 1}]}
          [] OTHER -> {s}

MCTrades ==
    [symbol : Symbols, proceeds : {0, 2}, fees : {0, 1}, pnl : -1..1]

MCOffers(v) ==
    IF v = None THEN {}
    ELSE
      LET ses  == IF v.active = None THEN Days ELSE {v.active}
          when == {1, 2 * LastDay + 1}
          moved(k) == [kind : {k}, session : ses, at : when, before : {v.state},
                       after : MCFaulty(MCAfters(k, v)), phase : {"NONE"}]
          managed == [kind : {"POSITION_MANAGED"}, session : ses, at : when,
                      before : {v.state}, after : MCAfters("POSITION_MANAGED", v),
                      phase : {"SESSION_OPEN", "BAR_COMPLETED"}]
      IN  [kind : {"DATA_PREFLIGHT_FAILED"}, session : ses, at : when,
           after : MCFaulty({v.state}), identity : Identities]
          \cup [kind : {"SESSION_STARTED"}, session : ses, at : when,
                before : MCFaulty({v.state}), identity : Identities]
          \cup [kind : {"DATA_PREFLIGHT_PASSED"}, session : ses, at : when]
          \cup [kind : {"SCREEN_EVALUATED"}, session : ses, at : when,
                screen : Screen]
          \cup UNION {moved(k) : k \in {"ENTRY_INTENT_CREATED",
                  "ENTRY_EXECUTED", "ENTRY_REJECTED"}}
          \cup managed
          \cup {[kind |-> "EXIT_EXECUTED", session |-> d, at |-> t,
                 before |-> v.state, trade |-> x,
                 after |-> [v.state EXCEPT !.position = None,
                                !.cash = @ + x.proceeds - x.fees,
                                !.realized = @ + x.pnl]] :
                   d \in ses, t \in when, x \in MCTrades}
          \cup [kind : {"DECISION_NO_TRADE"}, session : ses, at : when,
                after : MCFaulty({v.state}),
                reason : {"NO_TRADE_DATA_INCOMPLETE", "CAPACITY_FULL",
                          "NO_ELIGIBLE_CANDIDATES",
                          "ENTRY_REJECTED_BY_CHAMPION"}]
          \cup [kind : {"SESSION_COMMITTED"}, session : ses, at : when,
                after : MCFaulty({v.state})]

=============================================================================
