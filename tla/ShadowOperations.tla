-------------------------- MODULE ShadowOperations --------------------------
(***************************************************************************)
(* The runner under an operator who keeps starting it (a daily job; the    *)
(* repository has no scheduler) while a bounded number of things go wrong: *)
(* deaths, failed preflights, unreadable inputs, lock timeouts.  What must *)
(* never happen is that one of them wedges the journal.                    *)
(***************************************************************************)
EXTENDS ShadowRunner

CONSTANT MaxMishaps     \* bound on what goes wrong

ASSUME OperationsAssumption == MaxMishaps \in Nat

VARIABLE mishaps        \* what has gone wrong so far

opsVars == <<vars, mishaps>>

OpsInit == Init /\ mishaps = 0

\* Failures a later run has to make up for.
Mishap(p) ==
    /\ mishaps < MaxMishaps
    /\ mishaps' = mishaps + 1
    /\ \/ Crash(p) \/ SessionAborts(p) \/ PreflightFails(p)
       \/ file # "absent" /\ RunTurnedAway(p)

\* Everything else an invocation does.
Smooth(p) ==
    /\ mishaps' = mishaps
    /\ \/ InitStep(p)
       \/ file = "absent" /\ RunTurnedAway(p)
       \/ RunLock(p)
       \/ \E a \in Asks : RunRefused(p, a) \/ RunAdmitted(p, a)
       \/ PreflightPasses(p) \/ Age(p) \/ Open(p) \/ Entry(p) \/ Bar(p)
       \/ ScreenEvaluated(p) \/ CloseBar(p) \/ DecideNoTrade(p)
       \/ DecideIntent(p) \/ Seal(p) \/ Commit(p)

Start(p, t) == mishaps' = mishaps /\ (InitBegin(p, t) \/ RunBegin(p, t))

\* The run of a day on which every session the clock can see has closed.
LateRun(p) ==
    /\ mishaps' = mishaps
    /\ \E t \in Clock : (\A u \in Clock : u <= t) /\ RunBegin(p, t)

OpsNext ==
    \E p \in Procs :
        \/ Mishap(p)
        \/ Smooth(p)
        \/ \E t \in Clock : Start(p, t)

\* The operator starts late runs again and again, and an invocation whose steps
\* keep being possible takes them (a waiting run gets the lock in the end,
\* unless it times out, which is a mishap).
OpsSpec ==
    /\ OpsInit /\ [][OpsNext]_opsVars
    /\ \A p \in Procs : SF_opsVars(Smooth(p)) /\ SF_opsVars(LateRun(p))

-----------------------------------------------------------------------------
\* The closed sessions after the boundary whose own successor is known.
Due ==
    {s \in Official :
        /\ s > journal.boundary
        /\ \E t \in Clock : Close[s] <= t
        /\ \E n \in Official : NextSession(s, n)}

\* Once there is a journal, every due session is committed in the end: no crash,
\* failed preflight or lost lock leaves evidence, a pending intent or a position
\* that later runs of the same session cannot get past.
CatchesUp == file = "ready" ~> journal # None /\ Due \subseteq journal.committed

=============================================================================
