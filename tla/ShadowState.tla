---------------------------- MODULE ShadowState ----------------------------
(***************************************************************************)
(* The Shadow ledger (shadow/state.py): its state, validate_state and the  *)
(* event reducer reduce_transition.  Amounts are integers, so the floating *)
(* point tolerances of the code become equalities.  A digest is modelled   *)
(* by the value it digests.  Prices, stops, marks and the score snapshot a *)
(* pending order carries are left out: the reducer does not relate them to *)
(* cash, sessions or capacity.  So is last_exits, which the reducer copies *)
(* and which, with a re-entry cooldown of zero, decides nothing.           *)
(***************************************************************************)
EXTENDS ShadowCalendar

CONSTANTS
    Symbols,    \* the securities a journal may name
    Capital,    \* initial_capital of the inception
    None        \* Python's None

Position ==
    [symbol  : Symbols,
     entry   : Days,      \* entry_date
     holding : Nat,       \* holding_days
     value   : Int,       \* position_value, quantity * entry_price
     fee     : Int]       \* entry_commission

Pending ==
    [symbol    : Symbols,
     signal    : Days,    \* order.signal_date
     execution : Days]    \* expected_execution_session

State ==
    [cash     : Nat,
     realized : Int,      \* realized_pnl
     sequence : Nat,      \* position_sequence
     position : Position \cup {None},
     pending  : Pending \cup {None}]

ASSUME StateAssumption ==
    /\ Capital \in Nat \ {0}
    /\ None \notin Nat
    /\ None \notin Symbols
    /\ None \notin Position
    /\ None \notin Pending
    /\ None \notin State

InitialState ==
    [cash |-> Capital, realized |-> 0, sequence |-> 0,
     position |-> None, pending |-> None]

-----------------------------------------------------------------------------
\* What an open position has tied up: cost basis and entry commission.
CostBasis(s) ==
    IF s.position = None THEN 0 ELSE s.position.value + s.position.fee

\* validate_state: schema, C1 capacity, the execution boundary of a pending
\* intent, and ledger conservation.  It does not ask for a positive price.
ValidState(s) ==
    /\ s \in State
    /\ ~(s.position # None /\ s.pending # None)
    /\ s.position # None => s.position.holding >= 1
    /\ s.pending # None => Consecutive(s.pending.signal, s.pending.execution)
    /\ s.cash + CostBasis(s) = Capital + s.realized

-----------------------------------------------------------------------------
\* reduce_transition, one operator per kind: the successor the event claims
\* (e.after) is the state recomputed from the predecessor s.

IntentReduces(s, e) ==
    /\ e.kind = "ENTRY_INTENT_CREATED"
    /\ s.position = None /\ s.pending = None
    /\ e.after.pending # None
    /\ e.after = [s EXCEPT !.pending = e.after.pending]

\* Mutant: the security bought is not compared with the one intended.
ExecutionOfAnySymbol(s, e) ==
    LET bought == e.after.position
    IN  /\ e.kind = "ENTRY_EXECUTED"
        /\ s.pending # None /\ s.position = None
        /\ bought # None
        /\ bought.entry = s.pending.execution
        /\ bought.holding = 1
        /\ e.after = [s EXCEPT !.pending  = None,
                               !.position = bought,
                               !.cash     = @ - bought.value - bought.fee,
                               !.sequence = @ + 1]

ExecutionReduces(s, e) ==
    LET bought == e.after.position
    IN  /\ e.kind = "ENTRY_EXECUTED"
        /\ s.pending # None /\ s.position = None
        /\ bought # None
        /\ bought.symbol = s.pending.symbol
        /\ bought.entry = s.pending.execution
        /\ bought.holding = 1
        /\ e.after = [s EXCEPT !.pending  = None,
                               !.position = bought,
                               !.cash     = @ - bought.value - bought.fee,
                               !.sequence = @ + 1]

RejectionReduces(s, e) ==
    /\ e.kind = "ENTRY_REJECTED"
    /\ s.pending # None /\ s.position = None
    /\ e.after = [s EXCEPT !.pending = None]

\* The trade names the position; fees are entry and exit commission together.
ExitReduces(s, e) ==
    /\ e.kind = "EXIT_EXECUTED"
    /\ s.position # None
    /\ e.trade.symbol = s.position.symbol
    /\ e.after = [s EXCEPT !.position = None,
                           !.cash     = @ + e.trade.proceeds - e.trade.fees,
                           !.realized = @ + e.trade.pnl]

\* Management keeps symbol, quantity and prices, hence the position value; the
\* reducer does not name entry_date or entry_commission among what it keeps.
ManagementReduces(s, e) ==
    LET managed == e.after.position
    IN  /\ e.kind = "POSITION_MANAGED"
        /\ s.position # None /\ managed # None
        /\ managed.symbol = s.position.symbol
        /\ managed.value = s.position.value
        /\ managed.holding =
               s.position.holding + (IF e.phase = "SESSION_OPEN" THEN 1 ELSE 0)
        /\ e.after = [s EXCEPT !.position = managed]

\* Mutant: the successor is not validated.
ReduceUnvalidated(s, e) ==
    /\ e.before = s
    /\ \/ IntentReduces(s, e)
       \/ ExecutionReduces(s, e)
       \/ RejectionReduces(s, e)
       \/ ExitReduces(s, e)
       \/ ManagementReduces(s, e)

ReduceTransition(s, e) ==
    /\ e.before = s
    /\ ValidState(e.after)
    /\ \/ IntentReduces(s, e)
       \/ ExecutionReduces(s, e)
       \/ RejectionReduces(s, e)
       \/ ExitReduces(s, e)
       \/ ManagementReduces(s, e)

=============================================================================
