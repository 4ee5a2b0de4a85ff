-------------------------- MODULE MassiveRateLimit --------------------------
(***************************************************************************)
(* The request budget that every local process shares                      *)
(* (data/massive_rate_limit.py): a file with the times of the last         *)
(* requests, a byte that says whether it was ever written, and a lock held *)
(* from before the file is read until after the request has ended.         *)
(*                                                                         *)
(* A reading pairs the wall clock with the monotonic clock.  The wall      *)
(* clock may be set; the monotonic clock stands still while the machine    *)
(* sleeps and starts again at zero when it boots.  True time, which no     *)
(* process sees, is real.  Expiry, Tolerance and the other durations are   *)
(* numbers of clock ticks.                                                 *)
(***************************************************************************)
EXTENDS Integers, Sequences

CONSTANTS
    Callers,      \* threads and processes that may send
    None,         \* nobody holds the lock
    MaxSlots,     \* _validate_limit: at most five requests in a window
    Limits,       \* limits callers are configured with
    Expiry,       \* _expiry_seconds, 60.5
    Tolerance,    \* disagreement of the two clocks that is let pass, 0.5
    Nap,          \* longest sleep of a recovery, 30
    Backoffs,     \* delays asked for by a retry
    Adjustments,  \* steps by which the wall clock is set
    StartBy,      \* bound: no call begins after this time, and from then on
                  \* time passes only while the owner of the lock sleeps
    MaxTime,      \* bound: time stands still here
    MaxFaults     \* bound: crashes, failed writes, clock faults, deletions

ASSUME RateLimitAssumption ==
    /\ MaxSlots \in Nat \ {0} /\ Limits \subseteq 1 .. MaxSlots
    /\ Expiry \in Nat \ {0}
    /\ Tolerance \in Nat /\ Nap \in Nat \ {0}
    /\ Backoffs \subseteq Nat /\ Adjustments \subseteq Int
    /\ StartBy \in Nat /\ MaxTime \in Nat /\ MaxFaults \in Nat
    /\ None \notin Callers

VARIABLES
    real,      \* true time
    clock,     \* what time.time() and time.monotonic() would return
    disk,      \* the state file and the marker byte of the lock file
    lock,      \* owner of the file lock
    proc,      \* program counter and locals of each caller
    requests,  \* history: every reservation that reached the disk
    faults     \* number of things that have gone wrong

vars == <<real, clock, disk, lock, proc, requests, faults>>

-----------------------------------------------------------------------------
Reading == [wall : Nat, mono : Nat]

\* The JSON document.
Budget == [timestamps : Seq(Reading), last : Reading, in_flight : BOOLEAN]

\* What _load makes of a state file that was never written.
Fresh(now) == [timestamps |-> <<>>, last |-> now, in_flight |-> FALSE]

Zero == [wall |-> 0, mono |-> 0]

NotBefore(a, b) == a.wall <= b.wall /\ a.mono <= b.mono

Larger(a, b) == IF a >= b THEN a ELSE b
Smaller(a, b) == IF a <= b THEN a ELSE b

Distance(a, b) == IF a <= b THEN b - a ELSE a - b

\* Mutant of Consistent: a clock that ran backwards a little is let pass.
ConsistentBackwards(now, previous) ==
    Distance(now.wall - previous.wall, now.mono - previous.mono) <= Tolerance

\* _now(previous) returns; otherwise it raises MASSIVE_RATE_LIMIT_CLOCK_ANOMALY.
Consistent(now, previous) ==
    /\ NotBefore(previous, now)
    /\ Distance(now.wall - previous.wall, now.mono - previous.mono)
           <= Tolerance

\* The checks of _load; otherwise MASSIVE_RATE_LIMIT_STATE_INVALID.
WellFormed(b) ==
    LET pairs == Append(b.timestamps, b.last) IN
    /\ Len(b.timestamps) <= MaxSlots
    /\ b.in_flight => b.timestamps # <<>>
    /\ \A i \in 1 .. Len(b.timestamps) : NotBefore(pairs[i], pairs[i + 1])

\* A slot stays taken until both of its ages have reached Expiry.
Young(t, now) ==
    \/ now.wall - t.wall < Expiry
    \/ now.mono - t.mono < Expiry

\* Mutant of Delay: one slot too many.
DelayWhenOver(ts, now, limit, deadline) ==
    LET retry == Larger(0, deadline - now.mono) IN
    IF Len(ts) <= limit THEN retry
    ELSE Larger(retry, Larger(ts[1].wall + Expiry - now.wall,
                              ts[1].mono + Expiry - now.mono))

\* How long to sleep with the slots ts taken; not positive when the request
\* may go out.
Delay(ts, now, limit, deadline) ==
    LET retry == Larger(0, deadline - now.mono) IN
    IF Len(ts) < limit THEN retry
    ELSE Larger(retry, Larger(ts[1].wall + Expiry - now.wall,
                              ts[1].mono + Expiry - now.mono))

\* Mutant of Settled: the slot keeps the time it was reserved.
SettledAsReserved(b, now) ==
    [timestamps |-> b.timestamps, last |-> now, in_flight |-> FALSE]

\* The last slot is charged to the given moment and is over.
Settled(b, now) ==
    [timestamps |-> [b.timestamps EXCEPT ![Len(b.timestamps)] = now],
     last |-> now, in_flight |-> FALSE]

\* Mutant of Reserved: the last reading is not brought forward.
ReservedOnly(b, now) ==
    [b EXCEPT !.timestamps = Append(@, now), !.in_flight = TRUE]

\* A slot is taken before anything is sent.
Reserved(b, now) ==
    [timestamps |-> Append(b.timestamps, now), last |-> now, in_flight |-> TRUE]

-----------------------------------------------------------------------------
\* Program counters at which a caller holds the lock.
Inside == {"loaded", "looking", "reserving", "sending", "sent",
           "opened", "settling"}

\* seen is the reading the next one is compared with, start the first reading
\* of a recovery, wake the monotonic time a sleep ends.
Locals == [at : Inside \cup {"idle", "transmit", "recover"},
           limit : 1 .. MaxSlots, deadline : Nat, state : Budget,
           seen : Reading, start : Reading, wake : Nat]

Idle == [at |-> "idle", limit |-> MaxSlots, deadline |-> 0,
         state |-> Fresh(Zero), seen |-> Zero, start |-> Zero, wake |-> 0]

\* Type correctness, including that no more slots are ever recorded than the
\* service grants: _load refuses a longer file, and with it every later call.
TypeOK ==
    /\ real \in Nat /\ clock \in Reading /\ faults \in Nat
    /\ disk \in [present : BOOLEAN, marked : BOOLEAN, budget : Budget]
    /\ Len(disk.budget.timestamps) <= MaxSlots
    /\ lock \in Callers \cup {None}
    /\ proc \in [Callers -> Locals]
    /\ requests \in Seq([from : Nat, to : Nat])

Init ==
    /\ real = 0 /\ clock = Zero /\ faults = 0
    /\ disk = [present |-> FALSE, marked |-> FALSE, budget |-> Fresh(Zero)]
    /\ lock = None
    /\ proc = [c \in Callers |-> Idle]
    /\ requests = <<>>

-----------------------------------------------------------------------------
Fault ==
    /\ faults < MaxFaults
    /\ faults' = faults + 1

\* Mutant of Release: only a completed request gives the lock back.
ReleaseCompleted(c) ==
    /\ proc' = [proc EXCEPT ![c] = Idle]
    /\ lock' = IF lock = c /\ proc[c].at = "sent" THEN None ELSE lock

\* The lock's context ends: by a return, by an exception, or with the process.
Release(c) ==
    /\ proc' = [proc EXCEPT ![c] = Idle]
    /\ lock' = IF lock = c THEN None ELSE lock

\* The caller waits on, holding the lock.
Asleep(c) == proc[c].at \in {"looking", "settling"} /\ clock.mono < proc[c].wake

\* The request under way, if any, has ended by now.
Ended == [requests EXCEPT ![Len(requests)].to = real]

Replaced(b) == [present |-> TRUE, marked |-> TRUE, budget |-> b]

\* _save replaces the file and marks the lock file.
Save(b) == disk' = Replaced(b) /\ UNCHANGED faults

\* _save raises: before the replacement, or after it but before the mark.
SaveFails(c, b) ==
    /\ Fault
    /\ disk' \in {disk, [Replaced(b) EXCEPT !.marked = disk.marked]}
    /\ Release(c)

\* transmit(limit, not_before) is called.  A retry's deadline is a monotonic
\* reading taken when the attempt before it ended.
Transmit(c) ==
    /\ proc[c].at = "idle" /\ real <= StartBy
    /\ \E limit \in Limits, d \in {0} \cup {clock.mono + b : b \in Backoffs} :
           proc' = [proc EXCEPT ![c].at = "transmit",
                                ![c].limit = limit, ![c].deadline = d]
    /\ UNCHANGED <<real, clock, disk, lock, requests, faults>>

\* recover_clock_anomaly is called by hand.
Recover(c) ==
    /\ proc[c].at = "idle" /\ real <= StartBy
    /\ proc' = [proc EXCEPT ![c].at = "recover"]
    /\ UNCHANGED <<real, clock, disk, lock, requests, faults>>

Loadable == IF disk.present THEN WellFormed(disk.budget) ELSE ~disk.marked

\* The lock is free: take it and read the file.
Load(c) ==
    /\ proc[c].at \in {"transmit", "recover"} /\ lock = None
    /\ Loadable
    /\ lock' = c
    /\ proc' = [proc EXCEPT
           ![c].at = IF proc[c].at = "transmit" THEN "loaded" ELSE "opened",
           ![c].state = IF disk.present THEN disk.budget ELSE Fresh(clock)]
    /\ UNCHANGED <<real, clock, disk, requests, faults>>

\* The file is damaged, or missing although it was once written.
LoadFails(c) ==
    /\ proc[c].at \in {"transmit", "recover"} /\ lock = None
    /\ ~Loadable
    /\ Release(c)
    /\ UNCHANGED <<real, clock, disk, requests, faults>>

\* The state becomes the caller's, unless its clocks disagree with it.  A slot
\* found in flight belonged to an owner that is gone: it counts from now.
Adopt(c) ==
    LET b == IF proc[c].state.in_flight THEN Settled(proc[c].state, clock)
             ELSE proc[c].state IN
    /\ proc[c].at = "loaded" /\ Consistent(clock, proc[c].state.last)
    /\ \/ /\ IF proc[c].state.in_flight THEN Save(b)
             ELSE UNCHANGED <<disk, faults>>
          /\ proc' = [proc EXCEPT ![c].at = "looking", ![c].state = b,
                                  ![c].seen = clock]
          /\ UNCHANGED lock
       \/ proc[c].state.in_flight /\ SaveFails(c, b)
    /\ UNCHANGED <<real, clock, requests>>

\* One turn of the waiting loop.  Slots are taken in the order of time, so the
\* ones that are over come first.
Look(c) ==
    LET ts == proc[c].state.timestamps IN
    /\ proc[c].at = "looking" /\ ~Asleep(c)
    /\ Consistent(clock, proc[c].seen)
    /\ \E n \in 0 .. Len(ts) :
           LET kept == SubSeq(ts, n + 1, Len(ts))
               delay == Delay(kept, clock, proc[c].limit, proc[c].deadline) IN
           /\ \A i \in 1 .. Len(ts) : Young(ts[i], clock) <=> i > n
           /\ proc' = [proc EXCEPT
                  ![c].at = IF delay <= 0 THEN "reserving" ELSE "looking",
                  ![c].state = [@ EXCEPT !.timestamps = kept],
                  ![c].seen = clock,
                  ![c].limit = IF delay <= 0 THEN MaxSlots ELSE @,
                  ![c].deadline = IF delay <= 0 THEN 0 ELSE @,
                  ![c].wake = IF delay <= 0 THEN 0 ELSE clock.mono + delay]
    /\ UNCHANGED <<real, clock, disk, lock, requests, faults>>

\* A request of which it is only known that it does not begin before now.
Now == [from |-> real, to |-> real]

\* The reservation is durable before the transport starts.
Reserve(c) ==
    LET b == Reserved(proc[c].state, clock) IN
    /\ proc[c].at = "reserving" /\ Consistent(clock, proc[c].seen)
    /\ \/ /\ Save(b)
          /\ proc' = [proc EXCEPT ![c].at = "sending", ![c].state = b,
                                  ![c].seen = clock]
          /\ requests' = Append(requests, Now)
          /\ UNCHANGED lock
       \/ /\ SaveFails(c, b)
          /\ requests' = IF disk' = disk THEN requests
                         ELSE Append(requests, Now)
    /\ UNCHANGED <<real, clock>>

\* The transport returns or raises, after at most its timeouts.
Sent(c) ==
    /\ proc[c].at = "sending"
    /\ proc' = [proc EXCEPT ![c].at = "sent"]
    /\ requests' = Ended
    /\ UNCHANGED <<real, clock, disk, lock, faults>>

\* The finally clause.  When it fails the slot stays in flight on the disk.
Complete(c) ==
    LET b == Settled(proc[c].state, clock) IN
    /\ proc[c].at = "sent" /\ Consistent(clock, proc[c].seen)
    /\ \/ Save(b) /\ Release(c)
       \/ SaveFails(c, b)
    /\ UNCHANGED <<real, clock, requests>>

-----------------------------------------------------------------------------
\* Some stored reading lies in the future of the clocks.
FutureStored(b, now) ==
    \/ ~NotBefore(b.last, now)
    \/ \E i \in DOMAIN b.timestamps : ~NotBefore(b.timestamps[i], now)

\* A recovery begins only if the clocks disagree with a state of the past.
OpenRecovery(c) ==
    LET b == proc[c].state IN
    /\ proc[c].at = "opened"
    /\ IF FutureStored(b, clock) \/ Consistent(clock, b.last)
       THEN Release(c)
       ELSE /\ proc' = [proc EXCEPT ![c].at = "settling",
                                    ![c].seen = clock, ![c].start = clock]
            /\ UNCHANGED lock
    /\ UNCHANGED <<real, clock, disk, requests, faults>>

Elapsed(c) == [wall |-> clock.wall - proc[c].start.wall,
               mono |-> clock.mono - proc[c].start.mono]

\* The clocks have stayed together since the recovery began.
Stable(c) ==
    /\ Consistent(clock, proc[c].seen)
    /\ Distance(Elapsed(c).wall, Elapsed(c).mono) <= Tolerance

\* One turn of the recovery's loop: sleep on, or forget every slot.
Settle(c) ==
    LET remaining == Expiry - Smaller(Elapsed(c).wall, Elapsed(c).mono) IN
    /\ proc[c].at = "settling" /\ ~Asleep(c) /\ Stable(c)
    /\ IF remaining > 0
       THEN /\ proc' = [proc EXCEPT ![c].seen = clock,
                            ![c].wake = clock.mono + Smaller(Nap, remaining)]
            /\ UNCHANGED <<disk, lock, faults>>
       ELSE \/ Save(Fresh(clock)) /\ Release(c)
            \/ SaveFails(c, Fresh(clock))
    /\ UNCHANGED <<real, clock, requests>>

\* _now raises; what is on the disk stays.
Anomaly(c) ==
    /\ \/ proc[c].at = "loaded" /\ ~Consistent(clock, proc[c].state.last)
       \/ /\ proc[c].at = "looking" /\ ~Asleep(c)
          /\ ~Consistent(clock, proc[c].seen)
       \/ /\ proc[c].at \in {"reserving", "sent"}
          /\ ~Consistent(clock, proc[c].seen)
       \/ /\ proc[c].at = "settling" /\ ~Asleep(c)
          /\ ~Stable(c)
    /\ Release(c)
    /\ UNCHANGED <<real, clock, disk, requests, faults>>

\* The process dies or is interrupted outside the transport; the system
\* releases its lock.  Whatever it was sending has then left or never will.
Crash(c) ==
    /\ proc[c].at # "idle" /\ Fault
    /\ requests' = IF proc[c].at = "sending" THEN Ended ELSE requests
    /\ Release(c)
    /\ UNCHANGED <<real, clock, disk>>

-----------------------------------------------------------------------------
TimePasses ==
    /\ real < StartBy \/ (real < MaxTime /\ \E c \in Callers : Asleep(c))
    /\ real' = real + 1

Tick ==
    /\ TimePasses
    /\ clock' = [wall |-> clock.wall + 1, mono |-> clock.mono + 1]
    /\ UNCHANGED <<disk, lock, proc, requests, faults>>

\* The machine sleeps: only the wall clock advances.
Suspend ==
    /\ TimePasses /\ Fault
    /\ clock' = [clock EXCEPT !.wall = @ + 1]
    /\ UNCHANGED <<disk, lock, proc, requests>>

AdjustWall ==
    /\ Fault
    /\ \E step \in Adjustments :
           /\ clock.wall + step >= 0
           /\ clock' = [clock EXCEPT !.wall = @ + step]
    /\ UNCHANGED <<real, disk, lock, proc, requests>>

\* The machine boots: every process is gone and monotonic time starts anew.
Reboot ==
    /\ Fault
    /\ clock' = [clock EXCEPT !.mono = 0]
    /\ requests' = IF \E c \in Callers : proc[c].at = "sending" THEN Ended
                   ELSE requests
    /\ lock' = None /\ proc' = [c \in Callers |-> Idle]
    /\ UNCHANGED <<real, disk>>

\* Somebody deletes the state file of a budget in use.
Delete ==
    /\ disk.present /\ disk.marked /\ Fault
    /\ disk' = [disk EXCEPT !.present = FALSE, !.budget = Fresh(Zero)]
    /\ UNCHANGED <<real, clock, lock, proc, requests>>

\* What the code does next for caller c.
Step(c) ==
    \/ Load(c) \/ LoadFails(c) \/ Adopt(c) \/ Look(c) \/ Reserve(c)
    \/ Sent(c) \/ Complete(c)
    \/ OpenRecovery(c) \/ Settle(c) \/ Anomaly(c)

Environment == Tick \/ Suspend \/ AdjustWall \/ Reboot \/ Delete

Next ==
    \/ \E c \in Callers : Transmit(c) \/ Recover(c) \/ Step(c) \/ Crash(c)
    \/ Environment

Spec == Init /\ [][Next]_vars

\* Time goes on and a running process is scheduled; a request ends because the
\* transport has timeouts.  Waiting for the lock is polling and is not fair.
FairSpec ==
    /\ Spec
    /\ WF_vars(Tick)
    /\ \A c \in Callers : WF_vars(lock = c /\ Step(c))

-----------------------------------------------------------------------------
(***************************************************************************)
(* No MaxSlots + 1 requests fall into one window: the next one begins at   *)
(* least Expiry after the end of the one MaxSlots before it, whichever     *)
(* processes sent them, whoever died in between, and whatever happened to  *)
(* the clocks.  So docs/security-reference.md:94 promises it of the        *)
(* waiting loop, the reservations and the recovery.                        *)
(***************************************************************************)
RollingBudget ==
    \A i \in 1 .. Len(requests) - MaxSlots :
        requests[i + MaxSlots].from - requests[i].to >= Expiry

(***************************************************************************)
(* Whatever a caller leaves on the disk, on any path, the next one can     *)
(* load.  _load refuses a state whose readings are out of order and        *)
(* nothing repairs one, so a single bad save would end the budget's use.   *)
(***************************************************************************)
SavedStateLoads == disk.present => WellFormed(disk.budget)

(***************************************************************************)
(* A sleep under the lock is never longer than one window or the retry's   *)
(* deadline: transmit computes it from stored readings, and a stored       *)
(* reading in the future would keep every process waiting for its owner.   *)
(***************************************************************************)
SleepsOneWindow ==
    \A c \in Callers :
        proc[c].at \in {"looking", "settling"} =>
            \/ proc[c].wake <= proc[c].seen.mono + Expiry
            \/ proc[c].wake = proc[c].deadline

(***************************************************************************)
(* Whoever takes the lock gives it back, on every path through transmit    *)
(* and recover_clock_anomaly, failing writes and clock anomalies included. *)
(***************************************************************************)
OwnersRelease == \A c \in Callers : (lock = c) ~> (lock # c)

=============================================================================
