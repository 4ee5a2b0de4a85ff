--------------------------- MODULE ShadowCalendar ---------------------------
(***************************************************************************)
(* The official XNYS calendar the Shadow journal is bound to               *)
(* (data/market_sessions.py, BacktestEngine._next_xnys_session).  A day is *)
(* a number, a session is an official day, and Close[s] is the instant at  *)
(* which the regular session s ends, early closes included.  Clock is the  *)
(* set of instants a process may read from its clock: nothing relates two  *)
(* readings, so a clock may stand still or run backwards.                  *)
(***************************************************************************)
EXTENDS Integers, FiniteSets

CONSTANTS
    LastDay,    \* the last day the calendar covers
    Official,   \* the days that are official sessions
    Close,      \* the instant each official session closes
    Clock,      \* the instants a clock reading may return
    Lookahead   \* how many days ahead the next session is searched for (10)

\* Sessions close in calendar order, and the calendar reaches back far enough
\* for every clock reading to have a last closed session.
ASSUME CalendarAssumption ==
    /\ LastDay \in Nat
    /\ Lookahead \in Nat \ {0}
    /\ Official \subseteq 0..LastDay
    /\ Close \in [Official -> Nat]
    /\ \A r, s \in Official : r < s => Close[r] < Close[s]
    /\ Clock \subseteq Nat
    /\ \A t \in Clock : \E s \in Official :
           Close[s] <= t /\ \A r \in Official : Close[r] <= t => r <= s

Days == 0..LastDay

-----------------------------------------------------------------------------
\* trading_sessions_between: the official sessions of an inclusive interval.
TradingSessions(a, b) == {s \in Official : a <= s /\ s <= b}

\* Mutant: a later official session, whatever lies between.
LaterSession(a, b) == a < b /\ b \in Official

\* b is the official session right after the official session a:
\* trading_sessions_between(a, b) == [a, b].
Consecutive(a, b) == a < b /\ TradingSessions(a, b) = {a, b}

\* s is the session the next-session search returns for day d; when the
\* search window holds no session, no s is (SHADOW_CALENDAR_UNAVAILABLE).
NextSession(d, s) ==
    LET window == TradingSessions(d + 1, d + Lookahead)
    IN  s \in window /\ \A r \in window : s <= r

\* Mutant: some closed session, not the last one.
SomeCompleted(t) == CHOOSE s \in Official : Close[s] <= t

\* latest_completed_trading_session: the last session closed at instant t.
LatestCompleted(t) ==
    CHOOSE s \in Official :
        Close[s] <= t /\ \A r \in Official : Close[r] <= t => r <= s

=============================================================================
