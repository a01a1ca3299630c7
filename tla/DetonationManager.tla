-------------------------- MODULE DetonationManager --------------------------
(***************************************************************************)
(* The detonation manager (dynamic-sandbox/manager/manager.py): workers    *)
(* that take jobs from the queue, lease a guest, revert it, detonate the   *)
(* sample, store the result and give the guest back.                       *)
(*                                                                         *)
(* A worker is one running call of run_next(), in whatever task or thread; *)
(* a step of a worker is what it does between two points where another     *)
(* worker may run: a call that takes the queue's or the pool's lock, or an *)
(* await on the guest's controller.  The controller and the pipeline are   *)
(* outside the manager: they succeed or fail as they like, and what they   *)
(* leave on the guest is the variable disk.                                *)
(***************************************************************************)
EXTENDS JobQueue, SandboxPool

CONSTANTS
    Workers,      \* concurrent calls of run_next()
    NoGuest,      \* a worker's sandbox before it has one
    MaxAttempts,  \* AnalysisJob.max_attempts
    MaxCancels,   \* bound: task cancellations delivered to workers
    MaxDisables   \* bound: times an operator takes a guest out of service

ASSUME ManagerAssumption ==
    /\ Holders = Jobs
    /\ NoHolder = NoJob
    /\ GuestPlatform \in [Guests -> Platforms]
    /\ NoGuest \notin Guests
    /\ MaxAttempts \in Nat \ {0}
    /\ MaxCancels \in Nat
    /\ MaxDisables \in Nat

VARIABLES
    pc,             \* where each worker is in run_next() and run_job()
    seen,           \* the platforms it found available
    job,            \* its job
    guest,          \* its sandbox
    hasController,  \* its controller was built
    succeeded,      \* its run is complete
    attempts,       \* AnalysisJob.attempts
    runs,           \* the attempts of a job that got a guest
    disk,           \* the jobs whose sample has touched a guest since its
                    \* last snapshot restore
    saved,          \* the jobs with a stored run report
    index,          \* the run index: the last stored job of each sample
    completedJobs,  \* DetonationManager.completed
    failedJobs,     \* DetonationManager.failed
    torn,           \* guests whose teardown was cut short by a cancellation
    cancels,        \* cancellations so far
    disables        \* operator interventions so far

runVars == <<attempts, runs, saved, index, completedJobs, failedJobs>>
workerVars == <<pc, seen, job, guest, hasController, succeeded>>
environmentVars == <<torn, cancels, disables>>
managerVars == <<workerVars, runVars, disk, environmentVars>>
vars == <<queueVars, poolVars, managerVars>>

\* Inside the try block of run_job(): the worker answers for its job.
RunPhases == {"building", "restoring", "dropping", "detonating", "collecting", "saving"}
\* Inside _teardown().
TeardownPhases == {"stopping", "releasing", "reverting", "returning"}
Phases == {"idle", "looking", "taken"} \cup RunPhases \cup TeardownPhases

\* The worker's sandbox is leased, or was until the teardown released it.
Holds(w, g) == pc[w] \in RunPhases \cup TeardownPhases /\ guest[w] = g

\* The worker answers for a job that is neither waiting nor finished.
Carries(w, j) == pc[w] \in RunPhases \cup {"taken"} /\ job[w] = j

-----------------------------------------------------------------------------

Init ==
    /\ QueueInit
    /\ PoolInit
    /\ pc = [w \in Workers |-> "idle"]
    /\ seen = [w \in Workers |-> {}]
    /\ job = [w \in Workers |-> NoJob]
    /\ guest = [w \in Workers |-> NoGuest]
    /\ hasController = [w \in Workers |-> FALSE]
    /\ succeeded = [w \in Workers |-> FALSE]
    /\ attempts = [j \in Jobs |-> 0]
    /\ runs = [j \in Jobs |-> 0]
    /\ disk = [g \in Guests |-> {}]
    /\ saved = {}
    /\ index = [s \in Samples |-> NoJob]
    /\ completedJobs = {}
    /\ failedJobs = {}
    /\ torn = {}
    /\ cancels = 0
    /\ disables = 0

-----------------------------------------------------------------------------
(* Submitters, operators and clocks *)

ClientStep ==
    /\ \/ \E j \in Jobs, p \in SubmitPriorities : Submit(j, p)
       \/ \E j \in Jobs : CancelPending(j)
       \/ \E cutoff \in 1..arrivals : ExpireOlderThan(cutoff)
       \/ AgeOldest
    /\ UNCHANGED <<poolVars, managerVars>>

LeaseStep ==
    /\ \E g \in Guests : LeaseTimesOut(g)
    /\ UNCHANGED <<queueVars, managerVars>>

\* An operator takes a guest out of service, in use or not.
OperatorDisables(g) ==
    /\ disables < MaxDisables
    /\ guestState[g] # "offline"
    /\ MarkOffline(g)
    /\ disables' = disables + 1
    /\ UNCHANGED <<queueVars, workerVars, runVars, disk, torn, cancels>>

\* An operator brings back a guest that no run is using, repaired.
OperatorRestores(g) ==
    /\ \A w \in Workers : ~Holds(w, g)
    /\ RestoreToService(g)
    /\ disk' = [disk EXCEPT ![g] = {}]
    /\ UNCHANGED <<queueVars, workerVars, runVars, environmentVars>>

-----------------------------------------------------------------------------
(* run_next(): find work *)

Goto(w, phase) == pc' = [pc EXCEPT ![w] = phase]

\* The worker's call is over; its local variables are gone.
Return(w) ==
    /\ Goto(w, "idle")
    /\ seen' = [seen EXCEPT ![w] = {}]
    /\ job' = [job EXCEPT ![w] = NoJob]
    /\ guest' = [guest EXCEPT ![w] = NoGuest]
    /\ hasController' = [hasController EXCEPT ![w] = FALSE]
    /\ succeeded' = [succeeded EXCEPT ![w] = FALSE]

\* platforms_available(); nothing is looked for when no guest is idle.
LookAtPool(w) ==
    /\ pc[w] = "idle"
    /\ PlatformsAvailable # {}
    /\ Goto(w, "looking")
    /\ seen' = [seen EXCEPT ![w] = PlatformsAvailable]
    /\ UNCHANGED <<queueVars, poolVars, job, guest, hasController, succeeded,
                   runVars, disk, environmentVars>>

\* next_for() has a job; run_job() counts an attempt before it has a guest.
TakeNext(w, j) ==
    /\ pc[w] = "looking"
    /\ NextFor(seen[w], j)
    /\ Goto(w, "taken")
    /\ job' = [job EXCEPT ![w] = j]
    /\ attempts' = [attempts EXCEPT ![j] = @ + 1]
    /\ UNCHANGED <<poolVars, seen, guest, hasController, succeeded, runs, saved,
                   index, completedJobs, failedJobs, disk, environmentVars>>

\* next_for() has none.
FindNoWork(w) ==
    /\ pc[w] = "looking"
    /\ Candidates(seen[w]) = {}
    /\ Return(w)
    /\ UNCHANGED <<queueVars, poolVars, runVars, disk, environmentVars>>

\* acquire() has a guest for the job.
AcquireGuest(w, g) ==
    /\ pc[w] = "taken"
    /\ Acquire(g, JobPlatform(job[w]), job[w])
    /\ Transition(job[w], "assigned")
    /\ Goto(w, "building")
    /\ guest' = [guest EXCEPT ![w] = g]
    /\ runs' = [runs EXCEPT ![job[w]] = @ + 1]
    /\ UNCHANGED <<seen, job, hasController, succeeded, attempts, saved, index,
                   completedJobs, failedJobs, disk, environmentVars>>

\* Mutant of FindNoGuest: the job taken is not put back.
FindNoGuestDropsJob(w) ==
    /\ pc[w] = "taken"
    /\ AcquireNothing(JobPlatform(job[w]))
    /\ Return(w)
    /\ UNCHANGED <<queueVars, runVars, disk, environmentVars>>

\* acquire() has none: another worker was quicker.
FindNoGuest(w) ==
    /\ pc[w] = "taken"
    /\ AcquireNothing(JobPlatform(job[w]))
    /\ Requeue(job[w])
    /\ Return(w)
    /\ UNCHANGED <<runVars, disk, environmentVars>>

-----------------------------------------------------------------------------
(* run_job(): the run itself *)

TeardownStart(w) == IF hasController[w] THEN "stopping" ELSE "releasing"

\* Mutant of HandleFailure: one retry too many.
RetryOnceMore(w) ==
    LET j == job[w] IN
    \/ /\ attempts[j] <= MaxAttempts
       /\ Requeue(j)
       /\ UNCHANGED failedJobs
    \/ /\ attempts[j] > MaxAttempts
       /\ Transition(j, "failed")
       /\ failedJobs' = failedJobs \cup {j}

\* _handle_failure(): back to the queue while attempts are left.
HandleFailure(w) ==
    LET j == job[w] IN
    \/ /\ attempts[j] < MaxAttempts
       /\ Requeue(j)
       /\ UNCHANGED failedJobs
    \/ /\ attempts[j] >= MaxAttempts
       /\ Transition(j, "failed")
       /\ failedJobs' = failedJobs \cup {j}

\* An exception ends the try block; the teardown follows.
Fail(w) ==
    /\ HandleFailure(w)
    /\ Goto(w, TeardownStart(w))
    /\ UNCHANGED <<poolVars, seen, job, guest, hasController, succeeded, attempts,
                   runs, completedJobs, environmentVars>>

\* _build_controller(), then the job is PREPARING.
BuildController(w) ==
    /\ pc[w] = "building"
    /\ Transition(job[w], "preparing")
    /\ hasController' = [hasController EXCEPT ![w] = TRUE]
    /\ Goto(w, "restoring")
    /\ UNCHANGED <<poolVars, seen, job, guest, succeeded, runVars, disk,
                   environmentVars>>

\* _prepare(): the snapshot is restored before anything else.
RestoreGuest(w) ==
    /\ pc[w] = "restoring"
    /\ disk' = [disk EXCEPT ![guest[w]] = {}]
    /\ Goto(w, "dropping")
    /\ UNCHANGED <<queueVars, poolVars, seen, job, guest, hasController, succeeded,
                   runVars, environmentVars>>

\* _prepare(): the guest boots, its agent answers, the sample is transferred;
\* the job is RUNNING.
DropSample(w) ==
    /\ pc[w] = "dropping"
    /\ disk' = [disk EXCEPT ![guest[w]] = @ \cup {job[w]}]
    /\ Transition(job[w], "running")
    /\ Goto(w, "detonating")
    /\ UNCHANGED <<poolVars, seen, job, guest, hasController, succeeded, runVars,
                   environmentVars>>

\* _detonate(): the stage pipeline returns; the job is COLLECTING.
Detonate(w) ==
    /\ pc[w] = "detonating"
    /\ Transition(job[w], "collecting")
    /\ Goto(w, "collecting")
    /\ UNCHANGED <<poolVars, seen, job, guest, hasController, succeeded, runVars,
                   disk, environmentVars>>

\* _collect(); the job is COMPLETED before its report is written.
Collect(w) ==
    /\ pc[w] = "collecting"
    /\ Transition(job[w], "completed")
    /\ Goto(w, "saving")
    /\ UNCHANGED <<poolVars, seen, job, guest, hasController, succeeded, runVars,
                   disk, environmentVars>>

\* RunResultRepository.save(): the run document, then the index.
SaveReport(w) ==
    /\ pc[w] = "saving"
    /\ saved' = saved \cup {job[w]}
    /\ index' = [index EXCEPT ![ShaOf[job[w]]] = job[w]]
    /\ completedJobs' = completedJobs \cup {job[w]}
    /\ succeeded' = [succeeded EXCEPT ![w] = TRUE]
    /\ Goto(w, TeardownStart(w))
    /\ UNCHANGED <<queueVars, poolVars, seen, job, guest, hasController, attempts,
                   runs, failedJobs, disk, environmentVars>>

\* Anything up to the report's storage may raise.  A failed transfer may have
\* left the sample on the guest.
RunFails(w) ==
    /\ pc[w] \in RunPhases \ {"saving"}
    /\ Fail(w)
    /\ disk' \in IF pc[w] = "dropping"
                 THEN {disk, [disk EXCEPT ![guest[w]] = @ \cup {job[w]}]}
                 ELSE {disk}
    /\ UNCHANGED <<saved, index>>

\* Mutant of SaveFails: the write error is swallowed and the run counts.
SaveErrorSwallowed(w) ==
    /\ pc[w] = "saving"
    /\ completedJobs' = completedJobs \cup {job[w]}
    /\ succeeded' = [succeeded EXCEPT ![w] = TRUE]
    /\ Goto(w, TeardownStart(w))
    /\ saved' \in {saved, saved \cup {job[w]}}
    /\ UNCHANGED <<queueVars, poolVars, seen, job, guest, hasController, attempts,
                   runs, index, failedJobs, disk, environmentVars>>

\* The report cannot be written, or its document is and the index is not.
SaveFails(w) ==
    /\ pc[w] = "saving"
    /\ Fail(w)
    /\ saved' \in {saved, saved \cup {job[w]}}
    /\ UNCHANGED <<index, disk>>

\* Mutant of CancelRun: a cancelled run has no teardown.
CancelRunWithoutTeardown(w) ==
    /\ cancels < MaxCancels
    /\ pc[w] \in {"restoring", "dropping", "detonating"}
    /\ cancels' = cancels + 1
    /\ Transition(job[w], "cancelled")
    /\ Return(w)
    /\ UNCHANGED <<poolVars, runVars, disk, torn, disables>>

\* CancelledError at one of the awaits of the run.
CancelRun(w) ==
    /\ cancels < MaxCancels
    /\ pc[w] \in {"restoring", "dropping", "detonating"}
    /\ cancels' = cancels + 1
    /\ Transition(job[w], "cancelled")
    /\ Goto(w, TeardownStart(w))
    /\ disk' \in IF pc[w] = "dropping"
                 THEN {disk, [disk EXCEPT ![guest[w]] = @ \cup {job[w]}]}
                 ELSE {disk}
    /\ UNCHANGED <<poolVars, seen, job, guest, hasController, succeeded, runVars,
                   torn, disables>>

-----------------------------------------------------------------------------
(* _teardown() *)

\* stop_guest() and close(), whose errors are swallowed.
StopGuest(w) ==
    /\ pc[w] = "stopping"
    /\ Goto(w, "releasing")
    /\ UNCHANGED <<queueVars, poolVars, seen, job, guest, hasController, succeeded,
                   runVars, disk, environmentVars>>

\* Mutant of ReleaseGuest: without a controller nothing more is done.
ReleaseGuestEndsEarly(w) ==
    /\ pc[w] = "releasing"
    /\ Release(guest[w], succeeded[w])
    /\ IF hasController[w]
       THEN /\ Goto(w, "reverting")
            /\ UNCHANGED <<seen, job, guest, hasController, succeeded>>
       ELSE Return(w)
    /\ UNCHANGED <<queueVars, runVars, disk, environmentVars>>

\* pool.release(), whatever became of the run.
ReleaseGuest(w) ==
    /\ pc[w] = "releasing"
    /\ Release(guest[w], succeeded[w])
    /\ Goto(w, IF hasController[w] THEN "reverting" ELSE "returning")
    /\ UNCHANGED <<queueVars, seen, job, guest, hasController, succeeded, runVars,
                   disk, environmentVars>>

\* The post-run restore_snapshot() took.
RevertGuest(w) ==
    /\ pc[w] = "reverting"
    /\ disk' = [disk EXCEPT ![guest[w]] = {}]
    /\ Goto(w, "returning")
    /\ UNCHANGED <<queueVars, poolVars, seen, job, guest, hasController, succeeded,
                   runVars, environmentVars>>

\* Mutant of RevertFails: the result of the post-run restore is ignored.
RevertFailureIgnored(w) ==
    /\ pc[w] = "reverting"
    /\ MarkReverted(guest[w])
    /\ Return(w)
    /\ UNCHANGED <<queueVars, runVars, disk, environmentVars>>

\* It did not, or raised: the guest leaves service.
RevertFails(w) ==
    /\ pc[w] = "reverting"
    /\ MarkOffline(guest[w])
    /\ Return(w)
    /\ UNCHANGED <<queueVars, runVars, disk, environmentVars>>

\* pool.mark_reverted(): after a revert, or when there was no controller and so
\* nothing ran on the guest.
ReturnGuest(w) ==
    /\ pc[w] = "returning"
    /\ MarkReverted(guest[w])
    /\ Return(w)
    /\ UNCHANGED <<queueVars, runVars, disk, environmentVars>>

\* CancelledError at an await of the teardown is no Exception: the rest of the
\* teardown is skipped.
CancelTeardown(w) ==
    /\ cancels < MaxCancels
    /\ pc[w] \in {"stopping", "reverting"}
    /\ cancels' = cancels + 1
    /\ torn' = torn \cup {guest[w]}
    /\ Return(w)
    /\ UNCHANGED <<queueVars, poolVars, runVars, disk, disables>>

-----------------------------------------------------------------------------
(* The specification *)

\* One step of a call of run_next() that nobody cancels.
Work(w) ==
    \/ LookAtPool(w)
    \/ \E j \in Jobs : TakeNext(w, j)
    \/ FindNoWork(w)
    \/ \E g \in Guests : AcquireGuest(w, g)
    \/ FindNoGuest(w)
    \/ BuildController(w)
    \/ RestoreGuest(w)
    \/ DropSample(w)
    \/ Detonate(w)
    \/ Collect(w)
    \/ SaveReport(w)
    \/ RunFails(w)
    \/ SaveFails(w)
    \/ StopGuest(w)
    \/ ReleaseGuest(w)
    \/ RevertGuest(w)
    \/ RevertFails(w)
    \/ ReturnGuest(w)

OperatorStep == \E g \in Guests : OperatorDisables(g) \/ OperatorRestores(g)

Next ==
    \/ ClientStep
    \/ LeaseStep
    \/ OperatorStep
    \/ \E w \in Workers : Work(w) \/ CancelRun(w) \/ CancelTeardown(w)

Spec == Init /\ [][Next]_vars

\* A worker's loop is scheduled, and every call to a controller returns.
FairSpec == Spec /\ \A w \in Workers : WF_vars(Work(w))

-----------------------------------------------------------------------------
(* What must hold *)

\* The variables hold what the code's fields and locals may hold.
TypeOK ==
    /\ QueueTypeOK
    /\ PoolTypeOK
    /\ pc \in [Workers -> Phases]
    /\ seen \in [Workers -> SUBSET Platforms]
    /\ job \in [Workers -> Jobs \cup {NoJob}]
    /\ guest \in [Workers -> Guests \cup {NoGuest}]
    /\ hasController \in [Workers -> BOOLEAN]
    /\ succeeded \in [Workers -> BOOLEAN]
    /\ attempts \in [Jobs -> Nat]
    /\ runs \in [Jobs -> Nat]
    /\ disk \in [Guests -> SUBSET Jobs]
    /\ saved \in SUBSET Jobs
    /\ index \in [Samples -> Jobs \cup {NoJob}]
    /\ completedJobs \in SUBSET Jobs
    /\ failedJobs \in SUBSET Jobs
    /\ torn \in SUBSET Guests
    /\ cancels \in Nat
    /\ disables \in Nat

\* "A lease is exclusive" (pool.py): no guest is used by two runs, and a guest
\* some run still uses, whether its lease was reclaimed or an operator took it
\* out of service meanwhile, is never idle and so never leased again.
LeaseExclusive ==
    \A w \in Workers, g \in Guests :
        Holds(w, g) =>
            /\ guestState[g] # "idle"
            /\ \A v \in Workers \ {w} : ~Holds(v, g)

\* "Nothing detonates on a guest that was not just reverted" (manager.py): while
\* a sample runs, the guest holds its traces and no other sample's.
CleanDetonation ==
    \A w \in Workers : pc[w] = "detonating" => disk[guest[w]] = {job[w]}

\* A guest that can be leased carries nothing of an earlier sample (pool.py).
IdleIsClean ==
    \A g \in Guests : guestState[g] = "idle" => disk[g] = {}

\* No received job is lost or in two places: it waits in the queue, or exactly
\* one worker answers for it, or it is finished and in the manager's records.
JobAccounted ==
    \A j \in Jobs : Received(j) =>
        LET carriers == {w \in Workers : Carries(w, j)} IN
        \/ j \in pending /\ jobState[j] = "queued" /\ carriers = {}
        \/ j \notin pending /\ \E w \in Workers : carriers = {w}
        \/ /\ j \notin pending
           /\ carriers = {}
           /\ jobState[j] \in TerminalStates
           /\ jobState[j] = "completed" => j \in completedJobs
           /\ jobState[j] = "failed" => j \in failedJobs

\* The deduplication index points at waiting jobs of that content only: a stale
\* entry would fold new submissions into a job that never runs again.
HashIndexSound ==
    \A s \in Samples :
        byHash[s] # NoJob => byHash[s] \in pending /\ ShaOf[byHash[s]] = s

\* "Every submission's provenance": a folded submission is recorded on one job,
\* of the same content (queue.py _record_duplicate).
DuplicatesRecorded ==
    \A j \in Jobs : jobState[j] = "folded" =>
        \E k \in Jobs :
            /\ \A m \in Jobs : j \in duplicates[m] <=> m = k
            /\ ShaOf[k] = ShaOf[j]
            /\ Received(k)

\* A guest in service has fewer failures in a row than the limit (pool.py).
QuarantineHolds ==
    \A g \in Guests :
        guestState[g] \in {"idle", "leased"} => failures[g] < MaxFailures

\* Every guest out of the pool has a run that will give it back, except where a
\* cancellation cut that run's teardown short (manager.py run_job, finally).
NoLostGuest ==
    \A g \in Guests :
        guestState[g] \in {"leased", "reverting"} =>
            g \in torn \/ \E w \in Workers : Holds(w, g)

\* A job in the completed list has a stored report, and its sample is found in
\* the run index under a stored report of that content (results.py).
ResultsRetrievable ==
    \A j \in completedJobs :
        /\ j \in saved
        /\ index[ShaOf[j]] \in saved
        /\ ShaOf[index[ShaOf[j]]] = ShaOf[j]

\* A job is never given more guests than its attempt limit, however often it
\* was requeued (AnalysisJob.can_retry).
RunsBounded == \A j \in Jobs : runs[j] <= MaxAttempts

\* A job that failed, expired, was cancelled or whose report is stored is over:
\* no later step runs it again or changes how it ended.
FinishedStaysFinished ==
    [][\A j \in Jobs :
          jobState[j] \in {"failed", "expired", "cancelled"} \/ j \in completedJobs
              => jobState'[j] = jobState[j]]_vars

\* A run that has yet to release the guest.
Unreleased(g) ==
    \E w \in Workers : Holds(w, g) /\ pc[w] \notin {"reverting", "returning"}

\* A guest that was quarantined at its release, or taken out of service after it,
\* leaves the offline state only through restore(), an operator's decision: the
\* late mark_reverted() of the run that had it does not bring it back.  (A guest
\* disabled while a run has yet to release it is outside: release() sends it to
\* reversion like any other.)
OfflineUntilRestored ==
    [][\A g \in Guests : guestState[g] = "offline" /\ ~Unreleased(g) =>
          \/ guestState'[g] = "offline"
          \/ guestState'[g] = "idle" /\ failures'[g] = 0]_vars

\* Liveness: a guest that is out of the pool comes back to it or is put out of
\* service; the fleet does not shrink silently.
GuestComesBack ==
    \A g \in Guests :
        guestState[g] \in {"leased", "reverting"} ~> guestState[g] \in {"idle", "offline"}

\* Liveness: a queued job reaches its end unless every guest of its platform is
\* offline.  Jobs for another platform do not keep it waiting, although they may
\* stand before it in the one list and have no guest at all (next_for() passes over
\* them, run_next() asks for the platforms of idle guests only).
JobSettles ==
    \A j \in Jobs :
        jobState[j] = "queued" ~>
            \/ jobState[j] \in TerminalStates
            \/ \A g \in Guests : GuestPlatform[g] = JobPlatform(j) => guestState[g] = "offline"

-----------------------------------------------------------------------------
(* The abstract lease this implements *)

\* The jobs whose runs use a guest.
Users == [g \in Guests |-> {job[w] : w \in {v \in Workers : Holds(v, g)}}]

Lease == INSTANCE GuestLease WITH Occupants <- Jobs, users <- Users, traces <- disk

\* "One sample per guest at a time, always from a known-clean snapshot": every
\* step of the manager is a step of GuestLease or leaves it alone (pool.py).
ImplementsLease == Lease!Spec

-----------------------------------------------------------------------------
(* What the repository says and the code does not do *)

\* manager.py: when the report of a completed run cannot be written, "the outer
\* handler re-transitions to FAILED".
CompletedOrFailed ==
    [][\A j \in Jobs : jobState[j] = "completed" =>
          jobState'[j] \in {"completed", "failed"}]_vars

\* manager README: "Manager dies mid-run: lease expires; guest reclaimed": a lease
\* past its timeout whose run is gone is reclaimed while work waits for it.
LostLease(g) ==
    /\ guestState[g] = "leased"
    /\ leaseExpired[g]
    /\ \A w \in Workers : ~Holds(w, g)

WorkWaits(g) == \E j \in pending : JobPlatform(j) = GuestPlatform[g]

LostLeaseReclaimed ==
    \A g \in Guests :
        LostLease(g) /\ WorkWaits(g) ~> guestState[g] # "leased" \/ ~WorkWaits(g)
=============================================================================
