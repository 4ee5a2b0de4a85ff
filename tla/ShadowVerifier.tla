--------------------------- MODULE ShadowVerifier ---------------------------
(***************************************************************************)
(* Every journal the verifier accepts, event by event.  Offers(v) is what  *)
(* a writer may try to append after the prefix that verified to v: nothing *)
(* is assumed of it, an event the verifier rejects is simply no step.  The *)
(* book is the ledger of the last commit, what a reader of the journal     *)
(* sees: a session still open is not part of it.                           *)
(***************************************************************************)
EXTENDS ShadowJournal, ShadowSession

CONSTANTS
    Inceptions,     \* genesis events a writer may try
    Offers(_)       \* later events a writer may try

VARIABLES
    ver,    \* the verification of the prefix, None before genesis
    book    \* the ledger at the last commit (at genesis, the initial one)

vars == <<ver, book>>

TypeOK ==
    /\ ver \in Verification \cup {None}
    /\ book \in State \cup {None}

Init == ver = None /\ book = None

Genesis(e) ==
    /\ ver = None
    /\ GenesisAccepted(e)
    /\ ver' = GenesisValue(e)
    /\ book' = InitialState

AppendEvent(e) ==
    /\ ver # None
    /\ Accepts(ver, e)
    /\ ver' = Fold(ver, e)
    /\ book' = IF e.kind = "SESSION_COMMITTED" THEN ver.state ELSE book

Next ==
    \/ \E e \in Inceptions : Genesis(e)
    \/ \E e \in Offers(ver) : AppendEvent(e)

Spec == Init /\ [][Next]_vars

-----------------------------------------------------------------------------
\* The committed sessions are exactly the official sessions after the boundary
\* up to the last commit: no session is skipped, repeated or invented, however
\* long the journal and whatever is offered to it (the "session sequence",
\* "duplicate session commit" and "nested session" checks together).
CommittedContiguous ==
    ver # None =>
        /\ ver.boundary \in Official
        /\ ver.committed = {s \in Official : ver.boundary < s /\ s <= Anchor(ver)}
        /\ ver.active # None => Consecutive(Anchor(ver), ver.active)

\* Between sessions the reconstructed state is the book of the last commit:
\* failure evidence and everything else outside a session changes nothing.
AtRestIsBook == ver # None /\ ver.active = None => ver.state = book

\* At rest the holding counter is the number of official sessions since entry,
\* a pending intent was made by the last session, and its execution is the
\* very next session, the only one the journal can start.
RestingBook ==
    ver # None /\ ver.active = None =>
        /\ ValidState(book)
        /\ book.position # None =>
               book.position.holding =
                   Cardinality(TradingSessions(book.position.entry, Anchor(ver)))
        /\ book.pending # None =>
               /\ book.pending.signal = Anchor(ver)
               /\ \A s \in Days : Consecutive(Anchor(ver), s) =>
                                     s = book.pending.execution

\* Whatever events a session is made of, from one commit to the next money
\* and intents move only as the ledger allows: an intent is executed or
\* rejected in exactly the session it was made for, at most one entry and one
\* exit happen, and a position that stays keeps its security and its cost.
SessionsTrade ==
    [][ver # None /\ ver'.last # ver.last =>
           Trades(book, book', ver.active)]_vars

=============================================================================
