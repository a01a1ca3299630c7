------------------------------ MODULE JobQueue ------------------------------
(***************************************************************************)
(* The pending-work queue of the detonation manager                        *)
(* (dynamic-sandbox/manager/queue.py) and the job states it writes         *)
(* (models.py).  Every method body of JobQueue runs under one RLock, so    *)
(* every method is one action here.                                        *)
(*                                                                         *)
(* The queue is a list that is always sorted by (effective priority,       *)
(* submission time) before it is read and never holds a job twice, so the  *)
(* list is a set of jobs and the submission time is an arrival number.     *)
(*                                                                         *)
(* The actions constrain the queue's own variables only: DetonationManager *)
(* composes them with the pool's, QueueUnderLoad with a single consumer.   *)
(***************************************************************************)
EXTENDS Integers, FiniteSets

CONSTANTS
    Jobs,              \* the submissions that may arrive, one AnalysisJob each
    Samples,           \* sample contents: the SHA-256 identities
    Platforms,         \* guest platforms a sample may need
    NoJob,             \* "no job": an absent dictionary entry, a None
    ShaOf,             \* the content of each submission
    PlatformOf,        \* the platform intake detects for a content
    Urgent,            \* JobPriority.URGENT, the highest base priority
    SubmitPriorities,  \* the priorities submitters use
    MaxAged            \* bound: how many jobs may reach the aging limit

ASSUME QueueAssumption ==
    /\ NoJob \notin Jobs
    /\ ShaOf \in [Jobs -> Samples]
    /\ PlatformOf \in [Samples -> Platforms]
    /\ Urgent \in Nat
    /\ SubmitPriorities \subseteq 0..Urgent
    /\ MaxAged \in Nat

VARIABLES
    jobState,     \* AnalysisJob.state; "absent" before intake, "folded" once
                  \* recorded as a duplicate of another job
    pending,      \* JobQueue._pending
    byHash,       \* JobQueue._pending_by_hash
    priority,     \* AnalysisJob.priority
    submittedAt,  \* AnalysisJob.submitted_at as an arrival number, 0 = not yet
    arrivals,     \* the last arrival number given out
    agedUpTo,     \* jobs that arrived up to here have waited _aging_sec
    duplicates    \* metadata["duplicate_submissions"] of each job

queueVars == <<jobState, pending, byHash, priority, submittedAt, arrivals,
               agedUpTo, duplicates>>

\* What requeue, cancel and the state transitions of a run leave alone.
submissionVars == <<priority, submittedAt, arrivals, agedUpTo, duplicates>>

ActiveStates == {"assigned", "preparing", "running", "collecting"}
TerminalStates == {"completed", "failed", "expired", "cancelled"}
JobStates == {"absent", "folded", "queued"} \cup ActiveStates \cup TerminalStates

\* A job the manager has taken responsibility for: it is in JobQueue._by_id.
Received(j) == jobState[j] \notin {"absent", "folded"}

JobPlatform(j) == PlatformOf[ShaOf[j]]

-----------------------------------------------------------------------------

QueueTypeOK ==
    /\ jobState \in [Jobs -> JobStates]
    /\ pending \in SUBSET Jobs
    /\ byHash \in [Samples -> Jobs \cup {NoJob}]
    /\ priority \in [Jobs -> 0..Urgent]
    /\ submittedAt \in [Jobs -> Nat]
    /\ arrivals \in Nat
    /\ agedUpTo \in Nat
    /\ duplicates \in [Jobs -> SUBSET Jobs]

QueueInit ==
    /\ jobState = [j \in Jobs |-> "absent"]
    /\ pending = {}
    /\ byHash = [s \in Samples |-> NoJob]
    /\ priority = [j \in Jobs |-> 0]
    /\ submittedAt = [j \in Jobs |-> 0]
    /\ arrivals = 0
    /\ agedUpTo = 0
    /\ duplicates = [j \in Jobs |-> {}]

-----------------------------------------------------------------------------
(* Submission *)

\* Mutant of Fold: the newcomer is dropped without a record on the waiting job.
FoldForgets(j, p) ==
    LET existing == byHash[ShaOf[j]] IN
    /\ jobState[j] = "absent"
    /\ existing # NoJob
    /\ jobState' = [jobState EXCEPT ![j] = "folded"]
    /\ priority' = [priority EXCEPT ![existing] = IF p > @ THEN p ELSE @]
    /\ UNCHANGED <<pending, byHash, submittedAt, arrivals, agedUpTo, duplicates>>

\* submit(): an identical sample is waiting, so the submission is recorded on
\* it, and lifts its priority when the newcomer is more urgent.
Fold(j, p) ==
    LET existing == byHash[ShaOf[j]] IN
    /\ jobState[j] = "absent"
    /\ existing # NoJob
    /\ jobState' = [jobState EXCEPT ![j] = "folded"]
    /\ duplicates' = [duplicates EXCEPT ![existing] = @ \cup {j}]
    /\ priority' = [priority EXCEPT ![existing] = IF p > @ THEN p ELSE @]
    /\ UNCHANGED <<pending, byHash, submittedAt, arrivals, agedUpTo>>

\* submit(): nothing identical is waiting, so the job is queued.
Enqueue(j, p) ==
    /\ jobState[j] = "absent"
    /\ byHash[ShaOf[j]] = NoJob
    /\ jobState' = [jobState EXCEPT ![j] = "queued"]
    /\ pending' = pending \cup {j}
    /\ byHash' = [byHash EXCEPT ![ShaOf[j]] = j]
    /\ priority' = [priority EXCEPT ![j] = p]
    /\ arrivals' = arrivals + 1
    /\ submittedAt' = [submittedAt EXCEPT ![j] = arrivals + 1]
    /\ UNCHANGED <<agedUpTo, duplicates>>

Submit(j, p) == Fold(j, p) \/ Enqueue(j, p)

-----------------------------------------------------------------------------
(* Dispatch *)

\* Mutant of EffectivePriority: waiting earns nothing.
UnagedPriority(j) == priority[j]

\* _effective_priority(): one level of promotion for an aged job, capped.
EffectivePriority(j) ==
    LET base == priority[j] + (IF submittedAt[j] <= agedUpTo THEN 1 ELSE 0)
    IN  IF base > Urgent THEN Urgent ELSE base

\* The sort key of next_for(): effective priority, then submission time.
Precedes(j, k) ==
    \/ EffectivePriority(j) > EffectivePriority(k)
    \/ /\ EffectivePriority(j) = EffectivePriority(k)
       /\ submittedAt[j] < submittedAt[k]

\* Mutant of Candidates: only the head of the sorted list is looked at, so a job
\* whose platform has no idle guest keeps the others waiting.
CandidateAtHead(platforms) ==
    {j \in pending : /\ JobPlatform(j) \in platforms
                     /\ \A k \in pending \ {j} : Precedes(j, k)}

\* next_for(): the waiting jobs that an idle guest could run.
Candidates(platforms) == {j \in pending : JobPlatform(j) \in platforms}

\* Mutant of RemoveAll: the hash index keeps its entry.
RemoveFromListOnly(gone) ==
    /\ pending' = pending \ gone
    /\ UNCHANGED byHash

\* _remove(): out of the list, and out of the hash index if it is there.
RemoveAll(gone) ==
    /\ pending' = pending \ gone
    /\ byHash' = [s \in Samples |-> IF byHash[s] \in gone THEN NoJob ELSE byHash[s]]

\* next_for(): the job's state does not change when it is taken.
NextFor(platforms, j) ==
    /\ j \in Candidates(platforms)
    /\ \A k \in Candidates(platforms) \ {j} : Precedes(j, k)
    /\ RemoveAll({j})
    /\ UNCHANGED <<jobState, submissionVars>>

\* requeue(): the hash index keeps whatever identical job is already waiting.
Requeue(j) ==
    /\ jobState' = [jobState EXCEPT ![j] = "queued"]
    /\ pending' = pending \cup {j}
    /\ byHash' = [byHash EXCEPT ![ShaOf[j]] = IF @ = NoJob THEN j ELSE @]
    /\ UNCHANGED submissionVars

-----------------------------------------------------------------------------
(* Withdrawal and the passage of time *)

\* Mutant of CancelPending: the cancelled job stays in the list.
CancelStateOnly(j) ==
    /\ j \in pending
    /\ jobState' = [jobState EXCEPT ![j] = "cancelled"]
    /\ UNCHANGED <<pending, byHash, submissionVars>>

\* cancel(): only a job still waiting can be cancelled here.
CancelPending(j) ==
    /\ j \in pending
    /\ RemoveAll({j})
    /\ jobState' = [jobState EXCEPT ![j] = "cancelled"]
    /\ UNCHANGED submissionVars

\* Mutant of ExpireOlderThan: expiry recorded as a rejection at intake.
ExpireAsRejected(cutoff) ==
    LET expired == {j \in pending : submittedAt[j] <= cutoff} IN
    /\ expired # {}
    /\ RemoveAll(expired)
    /\ jobState' = [j \in Jobs |-> IF j \in expired THEN "rejected" ELSE jobState[j]]
    /\ UNCHANGED submissionVars

\* expire_older_than(): every job waiting since the cutoff or before it goes.
ExpireOlderThan(cutoff) ==
    LET expired == {j \in pending : submittedAt[j] <= cutoff} IN
    /\ expired # {}
    /\ RemoveAll(expired)
    /\ jobState' = [j \in Jobs |-> IF j \in expired THEN "expired" ELSE jobState[j]]
    /\ UNCHANGED submissionVars

\* The oldest job not yet aged crosses the aging limit.
AgeOldest ==
    /\ agedUpTo < arrivals
    /\ agedUpTo < MaxAged
    /\ agedUpTo' = agedUpTo + 1
    /\ UNCHANGED <<jobState, pending, byHash, priority, submittedAt, arrivals,
                   duplicates>>

\* A run moves a job it holds to another state (AnalysisJob.transition).
Transition(j, s) ==
    /\ jobState' = [jobState EXCEPT ![j] = s]
    /\ UNCHANGED <<pending, byHash, submissionVars>>
=============================================================================
