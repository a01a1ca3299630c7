----------------------------- MODULE SandboxPool -----------------------------
(***************************************************************************)
(* The fleet of detonation guests and its exclusive leases                 *)
(* (dynamic-sandbox/manager/pool.py, and class Sandbox of models.py).      *)
(* Every method runs under the pool's RLock and is one action; an action   *)
(* constrains the pool's variables only.                                   *)
(***************************************************************************)
EXTENDS Integers, FiniteSets

CONSTANTS
    Guests,          \* the registered sandboxes
    GuestPlatform,   \* Sandbox.platform
    Holders,         \* what a lease may be held for: the jobs
    NoHolder,        \* current_job = None
    MaxFailures,     \* Sandbox.max_consecutive_failures
    MaxExpired       \* bound: leases that are past their timeout at one time

ASSUME PoolAssumption ==
    /\ IsFiniteSet(Guests)
    /\ NoHolder \notin Holders
    /\ MaxFailures \in Nat \ {0}
    /\ MaxExpired \in Nat

VARIABLES
    guestState,    \* Sandbox.state
    currentJob,    \* Sandbox.current_job
    leaseExpired,  \* the lease has been held for lease_timeout_sec
    failures,      \* Sandbox.consecutive_failures
    useRank        \* position in the order of last_used_at, 1 = longest unused

poolVars == <<guestState, currentJob, leaseExpired, failures, useRank>>

GuestStates == {"idle", "leased", "reverting", "offline"}

PoolTypeOK ==
    /\ guestState \in [Guests -> GuestStates]
    /\ currentJob \in [Guests -> Holders \cup {NoHolder}]
    /\ leaseExpired \in [Guests -> BOOLEAN]
    /\ failures \in [Guests -> Nat]
    /\ useRank \in [Guests -> Nat]

\* Guests that were never used are tried in the order they were registered.
PoolInit ==
    /\ guestState = [g \in Guests |-> "idle"]
    /\ currentJob = [g \in Guests |-> NoHolder]
    /\ leaseExpired = [g \in Guests |-> FALSE]
    /\ failures = [g \in Guests |-> 0]
    /\ useRank \in [Guests -> 1..Cardinality(Guests)]
    /\ \A g, h \in Guests : useRank[g] = useRank[h] => g = h

-----------------------------------------------------------------------------

\* Mutant of IsAvailable: a guest still being reverted counts as free.
AvailableWhenNotLeased(g) == guestState[g] \in {"idle", "reverting"}

IsAvailable(g) == guestState[g] = "idle"

PlatformsAvailable == {GuestPlatform[g] : g \in {h \in Guests : IsAvailable(h)}}

IdleGuests(platform) == {g \in Guests : IsAvailable(g) /\ GuestPlatform[g] = platform}

\* _reclaim_expired_leases(), the first thing acquire() does.
Abandoned == {g \in Guests : guestState[g] = "leased" /\ leaseExpired[g]}

\* Mutant of Acquire: an abandoned guest is reclaimed straight to idle.
AcquireReclaimsToIdle(g, platform, j) ==
    /\ g \in IdleGuests(platform)
    /\ \A h \in IdleGuests(platform) : useRank[g] <= useRank[h]
    /\ guestState' = [h \in Guests |-> IF h = g THEN "leased"
                                       ELSE IF h \in Abandoned THEN "idle"
                                       ELSE guestState[h]]
    /\ currentJob' = [h \in Guests |-> IF h = g THEN j
                                       ELSE IF h \in Abandoned THEN NoHolder
                                       ELSE currentJob[h]]
    /\ leaseExpired' = [h \in Guests |-> leaseExpired[h] /\ h # g /\ h \notin Abandoned]
    /\ UNCHANGED <<failures, useRank>>

\* acquire(): the least recently used idle guest of the platform.
Acquire(g, platform, j) ==
    /\ g \in IdleGuests(platform)
    /\ \A h \in IdleGuests(platform) : useRank[g] <= useRank[h]
    /\ guestState' = [h \in Guests |-> IF h = g THEN "leased"
                                       ELSE IF h \in Abandoned THEN "reverting"
                                       ELSE guestState[h]]
    /\ currentJob' = [h \in Guests |-> IF h = g THEN j
                                       ELSE IF h \in Abandoned THEN NoHolder
                                       ELSE currentJob[h]]
    /\ leaseExpired' = [h \in Guests |-> leaseExpired[h] /\ h # g /\ h \notin Abandoned]
    /\ failures' = [h \in Guests |-> IF h \in Abandoned THEN failures[h] + 1 ELSE failures[h]]
    /\ UNCHANGED useRank

\* acquire() returning None: abandoned leases are reclaimed all the same.
AcquireNothing(platform) ==
    /\ IdleGuests(platform) = {}
    /\ guestState' = [h \in Guests |-> IF h \in Abandoned THEN "reverting" ELSE guestState[h]]
    /\ currentJob' = [h \in Guests |-> IF h \in Abandoned THEN NoHolder ELSE currentJob[h]]
    /\ leaseExpired' = [h \in Guests |-> leaseExpired[h] /\ h \notin Abandoned]
    /\ failures' = [h \in Guests |-> IF h \in Abandoned THEN failures[h] + 1 ELSE failures[h]]
    /\ UNCHANGED useRank

\* Mutant of Release: the guest is assignable before it is reverted.
ReleaseToIdle(g, succeeded) ==
    LET count == IF succeeded THEN 0 ELSE failures[g] + 1 IN
    /\ currentJob' = [currentJob EXCEPT ![g] = NoHolder]
    /\ leaseExpired' = [leaseExpired EXCEPT ![g] = FALSE]
    /\ failures' = [failures EXCEPT ![g] = count]
    /\ guestState' = [guestState EXCEPT ![g] =
                         IF count >= MaxFailures THEN "offline" ELSE "idle"]
    /\ UNCHANGED useRank

\* Mutant of Release: quarantine one failure late.
ReleaseQuarantinesLate(g, succeeded) ==
    LET count == IF succeeded THEN 0 ELSE failures[g] + 1 IN
    /\ currentJob' = [currentJob EXCEPT ![g] = NoHolder]
    /\ leaseExpired' = [leaseExpired EXCEPT ![g] = FALSE]
    /\ failures' = [failures EXCEPT ![g] = count]
    /\ guestState' = [guestState EXCEPT ![g] =
                         IF count > MaxFailures THEN "offline" ELSE "reverting"]
    /\ UNCHANGED useRank

\* release(): the failure count decides between quarantine and reversion.
\* The guest is addressed by its id alone: release() does not ask whose lease
\* it ends.
Release(g, succeeded) ==
    LET count == IF succeeded THEN 0 ELSE failures[g] + 1 IN
    /\ currentJob' = [currentJob EXCEPT ![g] = NoHolder]
    /\ leaseExpired' = [leaseExpired EXCEPT ![g] = FALSE]
    /\ failures' = [failures EXCEPT ![g] = count]
    /\ guestState' = [guestState EXCEPT ![g] =
                         IF count >= MaxFailures THEN "offline" ELSE "reverting"]
    /\ useRank' = [h \in Guests |-> IF h = g THEN Cardinality(Guests)
                                    ELSE IF useRank[h] > useRank[g] THEN useRank[h] - 1
                                    ELSE useRank[h]]

\* Mutant of MarkReverted: whatever state the guest is in.
MarkRevertedUnchecked(g) ==
    /\ guestState' = [guestState EXCEPT ![g] = "idle"]
    /\ UNCHANGED <<currentJob, leaseExpired, failures, useRank>>

\* mark_reverted(): ignored unless the guest is being reverted.
MarkReverted(g) ==
    /\ guestState' = [guestState EXCEPT ![g] = IF @ = "reverting" THEN "idle" ELSE @]
    /\ UNCHANGED <<currentJob, leaseExpired, failures, useRank>>

\* mark_offline(): whatever the guest was doing.
MarkOffline(g) ==
    /\ guestState' = [guestState EXCEPT ![g] = "offline"]
    /\ currentJob' = [currentJob EXCEPT ![g] = NoHolder]
    /\ UNCHANGED <<leaseExpired, failures, useRank>>

\* restore(): an operator returns an offline guest to service.
RestoreToService(g) ==
    /\ guestState[g] = "offline"
    /\ guestState' = [guestState EXCEPT ![g] = "idle"]
    /\ failures' = [failures EXCEPT ![g] = 0]
    /\ UNCHANGED <<currentJob, leaseExpired, useRank>>

\* Time passes: a lease reaches lease_timeout_sec.
LeaseTimesOut(g) ==
    /\ guestState[g] = "leased"
    /\ ~leaseExpired[g]
    /\ Cardinality({h \in Guests : leaseExpired[h]}) < MaxExpired
    /\ leaseExpired' = [leaseExpired EXCEPT ![g] = TRUE]
    /\ UNCHANGED <<guestState, currentJob, failures, useRank>>
=============================================================================
