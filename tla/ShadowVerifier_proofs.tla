----------------------- MODULE ShadowVerifier_proofs -----------------------
(***************************************************************************)
(* Every journal the verifier accepts is a legal ledger: for every         *)
(* calendar, every set of symbols and identities, and whatever events are  *)
(* offered.  The inductive invariant SessionInv adds what holds while a    *)
(* session is open: its ledger is already related to the book of the last  *)
(* commit as a finished session's would be, or the old intent still waits. *)
(***************************************************************************)
EXTENDS ShadowVerifier, ShadowCalendar_proofs

\* The intent of the session before has not been settled yet.
Waiting(b, a) ==
    /\ b.pending # None /\ a.pending = b.pending
    /\ a.position = None
    /\ a.sequence = b.sequence
    /\ SameMoney(b, a)

\* The open session s has led from the book b to the ledger a.
Progress(b, a, s) ==
    \/ Waiting(b, a)
    \/ Trades(b, a, s)

\* The book and its last session agree (the part of RestingBook that also
\* holds while the next session is open).
SettledBook ==
    /\ ValidState(book)
    /\ book.position # None =>
           book.position.holding =
               Cardinality(TradingSessions(book.position.entry, Anchor(ver)))
    /\ book.pending # None => book.pending.signal = Anchor(ver)

SessionInv ==
    /\ TypeOK
    /\ ver = None <=> book = None
    /\ ver # None =>
           /\ ver.boundary \in Official /\ ver.boundary <= Anchor(ver)
           /\ ver.committed =
                  {s \in Official : ver.boundary < s /\ s <= Anchor(ver)}
           /\ SettledBook
           /\ ver.active = None => ver.state = book
           /\ ver.active # None =>
                  /\ Consecutive(Anchor(ver), ver.active)
                  /\ ValidState(ver.state)
                  /\ Progress(book, ver.state, ver.active)

-----------------------------------------------------------------------------
LEMMA InitialStateValid == InitialState \in State /\ ValidState(InitialState)
BY StateAssumption DEF InitialState, State, ValidState, CostBasis

LEMMA NoneIsNoDay == None \notin Days
BY StateAssumption, CalendarAssumption DEF Days

\* The anchor of a verification is a day, and the boundary until a commit.
LEMMA AnchorIsDay ==
    ASSUME NEW v \in Verification
    PROVE  Anchor(v) \in Days
BY NoneIsNoDay DEF Anchor, Verification

LEMMA GenesisKeepsInv ==
    ASSUME SessionInv, NEW e, Genesis(e)
    PROVE  SessionInv'
<1>1. LatestCompleted(e.at) \in Official
  BY LatestCompletedFacts DEF Genesis, GenesisAccepted
<1>2. Official \subseteq Days /\ Clock \subseteq Nat
  BY CalendarAssumption DEF Days
<1>3. /\ ver' = GenesisValue(e) /\ book' = InitialState
      /\ e.identity \in Identities /\ e.at \in Nat /\ e.boundary \in Official
  BY <1>1, <1>2 DEF Genesis, GenesisAccepted
<1>4. ver' \in Verification
  BY <1>2, <1>3, InitialStateValid DEF GenesisValue, Verification
<1>5. /\ Anchor(ver') = e.boundary /\ ver'.boundary = e.boundary
      /\ ver'.active = None /\ ver'.screened = FALSE
      /\ ver'.state = InitialState /\ ver'.committed = {}
  BY <1>3 DEF GenesisValue, Anchor
<1>6. {s \in Official : ver'.boundary < s /\ s <= Anchor(ver')} = {}
  BY <1>3, <1>5, SessionsAfterSelf
<1>7. ver' # None /\ book' # None
  BY <1>4, <1>3, InitialStateValid, JournalAssumption, StateAssumption
<1>8. SettledBook'
  BY <1>3, InitialStateValid DEF SettledBook, InitialState
<1>9. TypeOK'
  BY <1>3, <1>4, InitialStateValid DEF TypeOK
<1>10. e.boundary <= e.boundary
  BY <1>3, SessionsAfterSelf
<1> QED
  BY <1>3, <1>5, <1>6, <1>7, <1>8, <1>9, <1>10 DEF SessionInv

-----------------------------------------------------------------------------
\* Every transition the reducer accepts carries Progress on, provided intents
\* are made by the open session and entries settled in the session they await.
LEMMA TransitionProgress ==
    ASSUME NEW b \in State, NEW st \in State, NEW s \in Days, NEW e,
           ValidState(b), ValidState(st), Progress(b, st, s),
           ReduceTransition(st, e),
           e.kind = "ENTRY_INTENT_CREATED" => e.after.pending.signal = s,
           e.kind \in {"ENTRY_EXECUTED", "ENTRY_REJECTED"} =>
               st.pending.execution = s
    PROVE  ValidState(e.after) /\ Progress(b, e.after, s)
<1> DEFINE af == e.after
<1>1. ValidState(af) /\ af \in State
  BY DEF ReduceTransition, ValidState
<1>2. CASE IntentReduces(st, e)
  <2>1. /\ st.position = None /\ st.pending = None
        /\ af.position = None /\ af.sequence = st.sequence
        /\ SameMoney(st, af) /\ af.pending.signal = s
    BY <1>1, <1>2 DEF IntentReduces, State, SameMoney
  <2>2. Trades(b, st, s)
    BY <2>1 DEF Progress, Waiting
  <2>3. Trades(b, af, s)
    BY <2>1, <2>2, <1>1
       DEF Trades, Kept, Closed, Bought, RoundTrip, Refused, Idle, SameMoney
  <2> QED  BY <1>1, <2>3 DEF Progress
<1>3. ASSUME e.kind \in {"ENTRY_EXECUTED", "ENTRY_REJECTED"}, st.pending # None
      PROVE  Waiting(b, st) /\ b.pending.execution = s
  <2>1. st.pending.execution = s /\ st.pending.signal < s
    BY <1>3 DEF ValidState, Consecutive
  <2>2. ~Trades(b, st, s)
    <3>1. st.pending \in Pending
      BY <1>3 DEF State
    <3>2. st.pending.signal \in Int
      BY <3>1, CalendarAssumption DEF Pending, Days
    <3> QED  BY <1>3, <2>1, <3>2 DEF Trades, Days
  <2> QED  BY <2>1, <2>2 DEF Progress, Waiting
<1>4. CASE ExecutionReduces(st, e)
  <2>1. Waiting(b, st) /\ b.pending.execution = s
    BY <1>3, <1>4 DEF ExecutionReduces
  <2>2. /\ af.pending = None /\ af.position # None
        /\ af.position.symbol = st.pending.symbol
        /\ af.cash = st.cash - af.position.value - af.position.fee
        /\ af.realized = st.realized /\ af.sequence = st.sequence + 1
    BY <1>1, <1>4 DEF ExecutionReduces, State
  <2>3. af.position \in Position
    BY <1>1, <2>2 DEF State
  <2>4. af.cash = b.cash - CostBasis(af)
    BY <2>1, <2>2, <2>3, <1>1 DEF Waiting, SameMoney, CostBasis, Position, State
  <2>5. Bought(b, af, s)
    BY <2>1, <2>2, <2>4 DEF Bought, Waiting, SameMoney
  <2> QED  BY <1>1, <2>2, <2>5 DEF Progress, Trades
<1>5. CASE RejectionReduces(st, e)
  <2>1. Waiting(b, st) /\ b.pending.execution = s
    BY <1>3, <1>5 DEF RejectionReduces
  <2>2. /\ af.pending = None /\ af.position = None
        /\ SameMoney(st, af) /\ af.sequence = st.sequence
    BY <1>1, <1>5 DEF RejectionReduces, State, SameMoney
  <2>3. Refused(b, af, s)
    BY <2>1, <2>2 DEF Refused, Waiting, SameMoney
  <2> QED  BY <1>1, <2>2, <2>3 DEF Progress, Trades
<1>6. ASSUME st.position # None
      PROVE  (Kept(b, st) \/ Bought(b, st, s)) /\ st.pending = None
  BY <1>6 DEF Progress, Waiting, Trades, Closed, RoundTrip, Refused, Idle,
               ValidState
<1>7. CASE ExitReduces(st, e)
  <2>1. st.position # None /\ af.position = None /\ af.pending = st.pending
        /\ af.sequence = st.sequence
    BY <1>1, <1>7 DEF ExitReduces, State
  <2>2. Closed(b, af) \/ RoundTrip(b, af, s)
    BY <1>6, <2>1 DEF Kept, Bought, Closed, RoundTrip
  <2> QED  BY <1>1, <1>6, <2>1, <2>2 DEF Progress, Trades
<1>8. CASE ManagementReduces(st, e)
  <2>1. /\ st.position # None /\ af.position # None
        /\ af.position.symbol = st.position.symbol
        /\ af.pending = st.pending /\ af.sequence = st.sequence
        /\ SameMoney(st, af)
    BY <1>1, <1>8 DEF ManagementReduces, State, SameMoney
  <2>2. CostBasis(st) \in Int /\ CostBasis(af) \in Int
    BY <1>1, <2>1 DEF CostBasis, State, Position
  <2>3. CostBasis(af) = CostBasis(st)
    BY <1>1, <2>1, <2>2, StateAssumption DEF ValidState, SameMoney, State
  <2>4. Kept(b, af) \/ Bought(b, af, s)
    BY <1>6, <2>1, <2>3 DEF Kept, Bought, SameMoney
  <2> QED  BY <1>1, <1>6, <2>1, <2>4 DEF Progress, Trades
<1> QED
  BY <1>2, <1>4, <1>5, <1>7, <1>8 DEF ReduceTransition

-----------------------------------------------------------------------------
\* An event inside a session that keeps sessions and book keeps the invariant
\* when its ledger still carries Progress.
LEMMA InsideKeepsInv ==
    ASSUME SessionInv, ver # None, ver.active # None,
           ver' \in Verification, book' = book,
           ver'.boundary = ver.boundary, ver'.last = ver.last,
           ver'.committed = ver.committed, ver'.active = ver.active,
           ValidState(ver'.state), Progress(book, ver'.state, ver.active)
    PROVE  SessionInv'
<1>1. Anchor(ver') = Anchor(ver)
  BY DEF Anchor
<1>2. ver' # None
  BY JournalAssumption
<1>3. SettledBook'
  BY <1>1 DEF SessionInv, SettledBook
<1>4. TypeOK'
  BY DEF SessionInv, TypeOK
<1> QED
  BY <1>1, <1>2, <1>3, <1>4 DEF SessionInv

\* At rest a session may begin: its ledger is the book, hence in Progress.
LEMMA RestProgress ==
    ASSUME NEW b \in State, NEW s, ValidState(b)
    PROVE  Progress(b, b, s)
<1>1. CASE b.position # None
  BY <1>1 DEF Progress, Trades, Kept, SameMoney, ValidState
<1>2. CASE b.position = None /\ b.pending # None
  BY <1>2 DEF Progress, Waiting, SameMoney
<1>3. CASE b.position = None /\ b.pending = None
  BY <1>3 DEF Progress, Trades, Idle, SameMoney
<1> QED  BY <1>1, <1>2, <1>3

LEMMA StartKeepsInv ==
    ASSUME SessionInv, ver # None, NEW e, StartAccepted(ver, e),
           ver' = StartValue(ver, e), book' = book
    PROVE  SessionInv'
<1>1. /\ e.session \in Days /\ e.session # None
      /\ Consecutive(Anchor(ver), e.session)
  <2>1. e.session \in Official
    BY DEF StartAccepted, Consecutive, TradingSessions
  <2> QED
    BY <2>1, CalendarAssumption, NoneIsNoDay DEF StartAccepted, Days
<1>2. ver \in Verification /\ book \in State /\ ver.state = book /\ ValidState(book)
  BY DEF SessionInv, TypeOK, StartAccepted, SettledBook, ValidState
<1>3. ver' \in Verification
  BY <1>1, <1>2 DEF StartValue, Verification
<1>4. /\ ver'.boundary = ver.boundary /\ ver'.last = ver.last
      /\ ver'.committed = ver.committed /\ ver'.active = e.session
      /\ ver'.state = book
  BY <1>2 DEF StartValue, Verification
<1>5. Anchor(ver') = Anchor(ver)
  BY <1>4 DEF Anchor
<1>6. Progress(book, book, e.session)
  BY <1>2, RestProgress
<1>7. SettledBook' /\ ver' # None
  BY <1>3, <1>5, JournalAssumption DEF SessionInv, SettledBook
<1>8. TypeOK'
  BY <1>2, <1>3 DEF TypeOK
<1> QED
  BY <1>1, <1>2, <1>4, <1>5, <1>6, <1>7, <1>8 DEF SessionInv

\* Preflight, screen and no-trade decision leave sessions and ledger alone.
LEMMA EvidenceKeepsInv ==
    ASSUME SessionInv, ver # None, NEW e, book' = book, ver' = Fold(ver, e),
           \/ PreflightAccepted(ver, e)
           \/ ScreenAccepted(ver, e)
           \/ NoTradeAccepted(ver, e)
    PROVE  SessionInv'
<1>1. ver \in Verification /\ ver.active # None
  BY DEF SessionInv, TypeOK, PreflightAccepted, ScreenAccepted,
         NoTradeAccepted, InSession
<1>2. /\ ver' \in Verification
      /\ ver'.boundary = ver.boundary /\ ver'.last = ver.last
      /\ ver'.committed = ver.committed /\ ver'.active = ver.active
      /\ ver'.state = ver.state
  BY <1>1 DEF PreflightAccepted, ScreenAccepted, NoTradeAccepted, Fold,
              Verification
<1>3. ValidState(ver.state) /\ Progress(book, ver.state, ver.active)
  BY <1>1 DEF SessionInv
<1> QED
  BY <1>1, <1>2, <1>3, InsideKeepsInv

LEMMA TransitionKeepsInv ==
    ASSUME SessionInv, ver # None, NEW e, TransitionAccepted(ver, e),
           ver' = TransitionValue(ver, e), book' = book
    PROVE  SessionInv'
<1>1. /\ ver \in Verification /\ book \in State /\ ver.active # None
      /\ ver.state \in State /\ ver.active \in Days
      /\ e.session = ver.active
  BY DEF SessionInv, TypeOK, TransitionAccepted, InSession, SettledBook,
         ValidState, Verification
<1>2. /\ ValidState(book) /\ ValidState(ver.state)
      /\ Progress(book, ver.state, ver.active)
  BY <1>1 DEF SessionInv, SettledBook
<1>3. /\ ReduceTransition(ver.state, e)
      /\ e.kind = "ENTRY_INTENT_CREATED" =>
             e.after.pending.signal = ver.active
      /\ e.kind \in {"ENTRY_EXECUTED", "ENTRY_REJECTED"} =>
             ver.state.pending.execution = ver.active
  BY <1>1 DEF TransitionAccepted, IntentAccepted, SettlementAccepted,
              ManagementAccepted
<1>4. ValidState(e.after) /\ Progress(book, e.after, ver.active)
  BY <1>1, <1>2, <1>3, TransitionProgress
<1>5. /\ ver' \in Verification /\ ver'.state = e.after
      /\ ver'.boundary = ver.boundary /\ ver'.last = ver.last
      /\ ver'.committed = ver.committed /\ ver'.active = ver.active
  <2>1. (ver.decided \/ e.kind = "ENTRY_INTENT_CREATED") \in BOOLEAN
    OBVIOUS
  <2>2. e.after \in State
    BY <1>4 DEF ValidState
  <2> QED
    BY <1>1, <2>1, <2>2 DEF TransitionValue, Verification
<1> QED
  BY <1>1, <1>4, <1>5, InsideKeepsInv

-----------------------------------------------------------------------------
\* A committed session turns the ledger it reached into the book, and is the
\* one session the committed set gains.
LEMMA CommitKeepsInv ==
    ASSUME SessionInv, ver # None, NEW e, CommitAccepted(ver, e),
           ver' = CommitValue(ver, e), book' = ver.state
    PROVE  SessionInv' /\ Trades(book, ver.state, ver.active)
<1>1. /\ ver \in Verification /\ book \in State /\ ver.state \in State
      /\ ver.active # None /\ e.session = ver.active
      /\ Anchor(ver) \in Days /\ ver.active \in Days
  BY AnchorIsDay DEF SessionInv, TypeOK, CommitAccepted, InSession,
         SettledBook, ValidState, Verification
<1>2. /\ ValidState(ver.state) /\ Consecutive(Anchor(ver), ver.active)
      /\ Progress(book, ver.state, ver.active) /\ SettledBook
      /\ ver.boundary \in Official /\ ver.boundary <= Anchor(ver)
      /\ ver.committed =
             {s \in Official : ver.boundary < s /\ s <= Anchor(ver)}
  BY <1>1 DEF SessionInv
<1>3. /\ ver' \in Verification /\ ver'.boundary = ver.boundary
      /\ ver'.last = ver.active /\ ver'.active = None
      /\ ver'.committed = ver.committed \cup {ver.active}
      /\ ver'.state = ver.state
  BY <1>1 DEF CommitValue, Verification
<1>4. Anchor(ver') = ver.active
  BY <1>1, <1>3, NoneIsNoDay DEF Anchor
<1>5. ~Waiting(book, ver.state)
  <2>1. Anchor(ver) < ver.active /\ Anchor(ver) \in Int /\ ver.active \in Int
    BY <1>1, <1>2, CalendarAssumption DEF Consecutive, Days
  <2>2. ver.state.pending # None => ver.state.pending.signal = ver.active
    BY <1>1 DEF CommitAccepted
  <2>3. book.pending # None => book.pending.signal = Anchor(ver)
    BY <1>2 DEF SettledBook
  <2> QED  BY <2>1, <2>2, <2>3 DEF Waiting
<1>6. Trades(book, ver.state, ver.active)
  BY <1>2, <1>5 DEF Progress
<1>7. ver'.committed = {s \in Official : ver.boundary < s /\ s <= ver.active}
  BY <1>1, <1>2, <1>3, SessionsAfterNext
<1>8. SettledBook'
  BY <1>1, <1>2, <1>4 DEF SettledBook, CommitAccepted
<1>9. TypeOK' /\ ver' # None /\ book' # None
  BY <1>1, <1>3, JournalAssumption, StateAssumption DEF TypeOK
<1>10. ver.boundary <= ver.active
  BY <1>1, <1>2, SessionsAfterNext
<1> QED
  BY <1>2, <1>3, <1>4, <1>6, <1>7, <1>8, <1>9, <1>10 DEF SessionInv

-----------------------------------------------------------------------------
LEMMA AppendKeepsInv ==
    ASSUME SessionInv, NEW e, AppendEvent(e)
    PROVE  SessionInv'
<1>1. ver # None /\ ver' = Fold(ver, e)
  BY DEF AppendEvent
<1>2. CASE FailureAccepted(ver, e)
  <2>1. ver' = ver /\ book' = book
    BY <1>2 DEF AppendEvent, FailureAccepted, Fold
  <2> QED
    BY <2>1 DEF SessionInv, TypeOK, SettledBook
<1>3. CASE StartAccepted(ver, e)
  <2>1. ver' = StartValue(ver, e) /\ book' = book
    BY <1>3 DEF AppendEvent, StartAccepted, Fold
  <2> QED
    BY <1>1, <1>3, <2>1, StartKeepsInv
<1>4. CASE PreflightAccepted(ver, e) \/ ScreenAccepted(ver, e)
           \/ NoTradeAccepted(ver, e)
  <2>1. book' = book
    BY <1>4 DEF AppendEvent, PreflightAccepted, ScreenAccepted, NoTradeAccepted
  <2> QED
    BY <1>1, <1>4, <2>1, EvidenceKeepsInv
<1>5. CASE TransitionAccepted(ver, e)
  <2>1. e.kind \in {"ENTRY_INTENT_CREATED", "ENTRY_EXECUTED",
                    "ENTRY_REJECTED", "POSITION_MANAGED", "EXIT_EXECUTED"}
    BY <1>5 DEF TransitionAccepted, IntentAccepted, SettlementAccepted,
                ManagementAccepted
  <2>2. ver' = TransitionValue(ver, e) /\ book' = book
    BY <2>1 DEF AppendEvent, Fold
  <2> QED
    BY <1>1, <1>5, <2>2, TransitionKeepsInv
<1>6. CASE CommitAccepted(ver, e)
  <2>1. ver' = CommitValue(ver, e) /\ book' = ver.state
    BY <1>6 DEF AppendEvent, CommitAccepted, Fold
  <2> QED
    BY <1>1, <1>6, <2>1, CommitKeepsInv
<1> QED
  BY <1>2, <1>3, <1>4, <1>5, <1>6 DEF AppendEvent, Accepts

\* The inductive invariant: every prefix of a journal the verifier accepts is a
\* ledger of contiguous sessions with at most one session under way.
THEOREM InductiveInvariant == Spec => []SessionInv
<1>1. Init => SessionInv
  BY DEF Init, SessionInv, TypeOK
<1>2. SessionInv /\ [Next]_vars => SessionInv'
  <2> SUFFICES ASSUME SessionInv, [Next]_vars PROVE SessionInv'
    OBVIOUS
  <2>1. ASSUME NEW e \in Inceptions, Genesis(e) PROVE SessionInv'
    BY <2>1, GenesisKeepsInv
  <2>2. ASSUME NEW e \in Offers(ver), AppendEvent(e) PROVE SessionInv'
    BY <2>2, AppendKeepsInv
  <2>3. CASE UNCHANGED vars
    BY <2>3 DEF vars, SessionInv, TypeOK, SettledBook
  <2> QED  BY <2>1, <2>2, <2>3 DEF Next
<1> QED  BY <1>1, <1>2, PTL DEF Spec

\* The verification and the book keep their types (Journal._verify's locals).
THEOREM TypeCorrect == Spec => []TypeOK
<1>1. SessionInv => TypeOK
  BY DEF SessionInv
<1> QED  BY <1>1, InductiveInvariant, PTL

\* No official session is skipped, repeated or invented by a journal that
\* verifies ("session sequence", "duplicate session commit").
THEOREM ContiguousSessions == Spec => []CommittedContiguous
<1>1. SessionInv => CommittedContiguous
  BY DEF SessionInv, CommittedContiguous
<1> QED  BY <1>1, InductiveInvariant, PTL

\* Outside a session the reconstructed state is the last committed book.
THEOREM EvidenceChangesNothing == Spec => []AtRestIsBook
<1>1. SessionInv => AtRestIsBook
  BY DEF SessionInv, AtRestIsBook
<1> QED  BY <1>1, InductiveInvariant, PTL

\* Between sessions the holding counter is the calendar's count and a pending
\* intent can only be executed in the one session that may be started next.
THEOREM BookAtRest == Spec => []RestingBook
<1>1. SessionInv => RestingBook
  <2> SUFFICES ASSUME SessionInv, ver # None, ver.active = None
               PROVE  RestingBook
    BY DEF RestingBook
  <2>1. SettledBook /\ ver \in Verification
    BY DEF SessionInv, TypeOK
  <2>2. ASSUME book.pending # None, NEW s \in Days, Consecutive(Anchor(ver), s)
        PROVE  s = book.pending.execution
    <3>1. /\ Consecutive(Anchor(ver), book.pending.execution)
          /\ book.pending.execution \in Days
      BY <2>1, <2>2 DEF SettledBook, ValidState, State, Pending
    <3>2. Anchor(ver) \in Days
      BY <2>1, AnchorIsDay
    <3> QED  BY <2>2, <3>1, <3>2, ConsecutiveUnique
  <2> QED  BY <2>1, <2>2 DEF RestingBook, SettledBook
<1> QED  BY <1>1, InductiveInvariant, PTL

\* From one committed session to the next, money and intents move only as the
\* ledger allows, whatever events the session is made of.
THEOREM SessionsTradeLegally == Spec => SessionsTrade
<1> DEFINE Legal == ver # None /\ ver'.last # ver.last =>
                        Trades(book, book', ver.active)
<1>1. SessionInv /\ [Next]_vars => [Legal]_vars
  <2> SUFFICES ASSUME SessionInv, Next, ver # None, ver'.last # ver.last
               PROVE  Trades(book, book', ver.active)
    BY DEF vars
  <2>1. PICK e : AppendEvent(e)
    BY DEF Next, Genesis
  <2>2. e.kind = "SESSION_COMMITTED"
    <3>1. ver \in Verification /\ ver' = Fold(ver, e)
      BY <2>1 DEF SessionInv, TypeOK, AppendEvent
    <3> QED
      BY <3>1 DEF Fold, StartValue, TransitionValue, Verification
  <2>3. CommitAccepted(ver, e)
    BY <2>1, <2>2
       DEF AppendEvent, Accepts, FailureAccepted, StartAccepted,
           PreflightAccepted, ScreenAccepted, NoTradeAccepted,
           TransitionAccepted, IntentAccepted, SettlementAccepted,
           ManagementAccepted
  <2>4. ver' = CommitValue(ver, e) /\ book' = ver.state
    BY <2>1, <2>2 DEF AppendEvent, Fold
  <2> QED
    BY <2>3, <2>4, CommitKeepsInv
<1>2. Spec => [][Legal]_vars
  BY <1>1, InductiveInvariant, PTL DEF Spec
<1> QED  BY <1>2 DEF SessionsTrade

=============================================================================
