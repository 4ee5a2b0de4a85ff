---------------------------- MODULE ShadowLedger ----------------------------
(***************************************************************************)
(* What the forward Shadow promises, without journal, processes or events: *)
(* one inception fixes a boundary; then official sessions are added to a   *)
(* ledger one at a time, in order, each in one step.  A session ages the   *)
(* position it finds or closes it, settles the intent made at the close of *)
(* the session before, and may leave one new intent for the next session.  *)
(***************************************************************************)
EXTENDS ShadowSession

VARIABLES boundary, last, book

ledgerVars == <<boundary, last, book>>

LedgerInit == boundary = None /\ last = None /\ book = None

\* The inception: a boundary session and the initial capital.
Open ==
    /\ book = None
    /\ boundary' \in Official
    /\ last' = None
    /\ book' = InitialState

-----------------------------------------------------------------------------
Session(s) ==
    /\ book # None
    /\ Consecutive(IF last = None THEN boundary ELSE last, s)
    /\ book' \in State
    /\ Trades(book, book', s)
    /\ Ages(book, book', s)
    /\ last' = s
    /\ boundary' = boundary

LedgerNext == Open \/ \E s \in Official : Session(s)

LedgerSpec == LedgerInit /\ [][LedgerNext]_ledgerVars

=============================================================================
