----------------------- MODULE DetonationManagerProofs -----------------------
(***************************************************************************)
(* Proofs about DetonationManager, for every number of guests, workers,    *)
(* jobs and attempts: leases and clean guests, the refinement of           *)
(* GuestLease, and the guests' way through the manager: quarantine, guests *)
(* that are never lost, and out of service until restored; then the jobs'  *)
(* way: no job is lost or held twice, the deduplication index and the      *)
(* duplicate records are right, attempts are bounded, reports of completed *)
(* jobs are retrievable and what is over stays over.                       *)
(***************************************************************************)
EXTENDS DetonationManager, FiniteSetTheorems, TLAPS

\* A worker past next_for() has a job, and past acquire() a guest.
LocalsOK ==
    \A w \in Workers :
        /\ pc[w] \in {"taken"} \cup RunPhases \cup TeardownPhases => job[w] \in Jobs
        /\ pc[w] \in RunPhases \cup TeardownPhases => guest[w] \in Guests

TypeInv == TypeOK /\ LocalsOK

-----------------------------------------------------------------------------

USE QueueAssumption, PoolAssumption, ManagerAssumption

\* The initial state is well typed.
LEMMA TypeInit == Init => TypeInv
  <1> SUFFICES ASSUME Init PROVE TypeInv
    OBVIOUS
  <1>1. Cardinality(Guests) \in Nat
    BY FS_CardinalityType
  <1>2. QueueTypeOK
    BY DEF Init, QueueInit, QueueTypeOK, JobStates
  <1>3. PoolTypeOK
    <2>1. useRank \in [Guests -> Nat]
      BY <1>1 DEF Init, PoolInit
    <2> QED
      BY <2>1 DEF Init, PoolInit, PoolTypeOK, GuestStates
  <1> QED
    BY <1>2, <1>3 DEF Init, TypeInv, TypeOK, LocalsOK, Phases, RunPhases, TeardownPhases

\* The queue's operations keep its variables well typed.
LEMMA QueueStepTyped ==
  ASSUME QueueTypeOK,
         \/ \E j \in Jobs, p \in SubmitPriorities : Submit(j, p)
         \/ \E j \in Jobs : CancelPending(j)
         \/ \E cutoff \in 1..arrivals : ExpireOlderThan(cutoff)
         \/ AgeOldest
         \/ \E j \in Jobs, ps \in SUBSET Platforms : NextFor(ps, j)
         \/ \E j \in Jobs : Requeue(j)
         \/ \E j \in Jobs, s \in JobStates : Transition(j, s)
         \/ UNCHANGED queueVars
  PROVE  QueueTypeOK'
  <1> USE DEF QueueTypeOK, submissionVars
  <1>1. ASSUME NEW j \in Jobs, NEW p \in SubmitPriorities, Submit(j, p)
        PROVE  QueueTypeOK'
    <2>1. CASE Fold(j, p)
      BY <2>1 DEF Fold, JobStates
    <2>2. CASE Enqueue(j, p)
      BY <2>2 DEF Enqueue, JobStates
    <2> QED
      BY <1>1, <2>1, <2>2 DEF Submit
  <1>2. ASSUME NEW j \in Jobs, CancelPending(j)
        PROVE  QueueTypeOK'
    BY <1>2 DEF CancelPending, RemoveAll, JobStates, TerminalStates
  <1>3. ASSUME NEW cutoff \in 1..arrivals, ExpireOlderThan(cutoff)
        PROVE  QueueTypeOK'
    BY <1>3 DEF ExpireOlderThan, RemoveAll, JobStates, TerminalStates
  <1>4. CASE AgeOldest
    BY <1>4 DEF AgeOldest
  <1>5. ASSUME NEW j \in Jobs, NEW ps \in SUBSET Platforms, NextFor(ps, j)
        PROVE  QueueTypeOK'
    BY <1>5 DEF NextFor, RemoveAll
  <1>6. ASSUME NEW j \in Jobs, Requeue(j)
        PROVE  QueueTypeOK'
    BY <1>6 DEF Requeue, JobStates
  <1>7. ASSUME NEW j \in Jobs, NEW s \in JobStates, Transition(j, s)
        PROVE  QueueTypeOK'
    BY <1>7 DEF Transition
  <1>8. CASE UNCHANGED queueVars
    BY <1>8 DEF queueVars
  <1> QED
    BY <1>1, <1>2, <1>3, <1>4, <1>5, <1>6, <1>7, <1>8

\* The pool's operations keep its variables well typed.
LEMMA PoolStepTyped ==
  ASSUME PoolTypeOK,
         \/ \E g \in Guests, p \in Platforms, j \in Jobs : Acquire(g, p, j)
         \/ \E p \in Platforms : AcquireNothing(p)
         \/ \E g \in Guests, s \in BOOLEAN : Release(g, s)
         \/ \E g \in Guests : MarkReverted(g)
         \/ \E g \in Guests : MarkOffline(g)
         \/ \E g \in Guests : RestoreToService(g)
         \/ \E g \in Guests : LeaseTimesOut(g)
         \/ UNCHANGED poolVars
  PROVE  PoolTypeOK'
  <1> USE DEF PoolTypeOK, GuestStates
  <1>1. ASSUME NEW g \in Guests, NEW p \in Platforms, NEW j \in Jobs, Acquire(g, p, j)
        PROVE  PoolTypeOK'
    BY <1>1 DEF Acquire
  <1>2. ASSUME NEW p \in Platforms, AcquireNothing(p)
        PROVE  PoolTypeOK'
    BY <1>2 DEF AcquireNothing
  <1>3. ASSUME NEW g \in Guests, NEW s \in BOOLEAN, Release(g, s)
        PROVE  PoolTypeOK'
    <2>1. Cardinality(Guests) \in Nat
      BY FS_CardinalityType
    <2>2. useRank' \in [Guests -> Nat]
      BY <1>3, <2>1 DEF Release
    <2> QED
      BY <1>3, <2>2 DEF Release
  <1>4. ASSUME NEW g \in Guests, MarkReverted(g)
        PROVE  PoolTypeOK'
    BY <1>4 DEF MarkReverted
  <1>5. ASSUME NEW g \in Guests, MarkOffline(g)
        PROVE  PoolTypeOK'
    BY <1>5 DEF MarkOffline
  <1>6. ASSUME NEW g \in Guests, RestoreToService(g)
        PROVE  PoolTypeOK'
    BY <1>6 DEF RestoreToService
  <1>7. ASSUME NEW g \in Guests, LeaseTimesOut(g)
        PROVE  PoolTypeOK'
    BY <1>7 DEF LeaseTimesOut
  <1>8. CASE UNCHANGED poolVars
    BY <1>8 DEF poolVars
  <1> QED
    BY <1>1, <1>2, <1>3, <1>4, <1>5, <1>6, <1>7, <1>8

\* What TypeInv says about the worker a step belongs to and its job.
LEMMA WorkerTyped ==
  ASSUME TypeInv, NEW w \in Workers,
         pc[w] \in {"taken"} \cup RunPhases \cup TeardownPhases
  PROVE  /\ job[w] \in Jobs
         /\ JobPlatform(job[w]) \in Platforms
  BY DEF TypeInv, LocalsOK, JobPlatform

\* The manager's own variables keep their types, worker by worker.
ManagerTypeOK ==
    /\ pc \in [Workers -> Phases]
    /\ seen \in [Workers -> SUBSET Platforms]
    /\ job \in [Workers -> Jobs \cup {NoJob}]
    /\ guest \in [Workers -> Guests \cup {NoGuest}]
    /\ hasController \in [Workers -> BOOLEAN]
    /\ succeeded \in [Workers -> BOOLEAN]
    /\ attempts \in [Jobs -> Nat]
    /\ runs \in [Jobs -> Nat]
    /\ disk \in [Guests -> SUBSET Jobs]
    /\ saved \in SUBSET Jobs
    /\ index \in [Samples -> Jobs \cup {NoJob}]
    /\ completedJobs \in SUBSET Jobs
    /\ failedJobs \in SUBSET Jobs
    /\ torn \in SUBSET Guests
    /\ cancels \in Nat
    /\ disables \in Nat

\* Every step keeps the variables well typed and the workers' locals set.
LEMMA TypeStep == TypeInv /\ [Next]_vars => TypeInv'
  <1> SUFFICES ASSUME TypeInv, [Next]_vars PROVE TypeInv'
    OBVIOUS
  <1>a. QueueTypeOK /\ PoolTypeOK /\ ManagerTypeOK
    BY DEF TypeInv, TypeOK, ManagerTypeOK
  <1>b. ASSUME QueueTypeOK', PoolTypeOK', ManagerTypeOK', LocalsOK'
        PROVE  TypeInv'
    BY <1>b DEF TypeInv, TypeOK, ManagerTypeOK
  <1> USE DEF Phases, RunPhases, TeardownPhases
  <1>1. CASE ClientStep
    <2>1. QueueTypeOK'
      BY <1>1, <1>a, QueueStepTyped DEF ClientStep
    <2>2. PoolTypeOK'
      BY <1>1, <1>a, PoolStepTyped DEF ClientStep
    <2>3. ManagerTypeOK' /\ LocalsOK'
      BY <1>1, <1>a DEF ClientStep, managerVars, workerVars, runVars, environmentVars,
                        ManagerTypeOK, TypeInv, LocalsOK
    <2> QED
      BY <1>b, <2>1, <2>2, <2>3
  <1>2. CASE LeaseStep
    <2>1. QueueTypeOK'
      BY <1>2, <1>a, QueueStepTyped DEF LeaseStep
    <2>2. PoolTypeOK'
      BY <1>2, <1>a, PoolStepTyped DEF LeaseStep
    <2>3. ManagerTypeOK' /\ LocalsOK'
      BY <1>2, <1>a DEF LeaseStep, managerVars, workerVars, runVars, environmentVars,
                        ManagerTypeOK, TypeInv, LocalsOK
    <2> QED
      BY <1>b, <2>1, <2>2, <2>3
  <1>3. ASSUME NEW g \in Guests, OperatorDisables(g)
        PROVE  TypeInv'
    <2>1. QueueTypeOK'
      BY <1>3, <1>a, QueueStepTyped DEF OperatorDisables
    <2>2. PoolTypeOK'
      BY <1>3, <1>a, PoolStepTyped DEF OperatorDisables
    <2>3. ManagerTypeOK' /\ LocalsOK'
      BY <1>3, <1>a DEF OperatorDisables, workerVars, runVars,
                        ManagerTypeOK, TypeInv, LocalsOK
    <2> QED
      BY <1>b, <2>1, <2>2, <2>3
  <1>4. ASSUME NEW g \in Guests, OperatorRestores(g)
        PROVE  TypeInv'
    <2>1. QueueTypeOK'
      BY <1>4, <1>a, QueueStepTyped DEF OperatorRestores
    <2>2. PoolTypeOK'
      BY <1>4, <1>a, PoolStepTyped DEF OperatorRestores
    <2>3. ManagerTypeOK' /\ LocalsOK'
      BY <1>4, <1>a DEF OperatorRestores, workerVars, runVars, environmentVars,
                        ManagerTypeOK, TypeInv, LocalsOK
    <2> QED
      BY <1>b, <2>1, <2>2, <2>3
  <1>5. ASSUME NEW w \in Workers, LookAtPool(w)
        PROVE  TypeInv'
    <2>1. QueueTypeOK'
      BY <1>5, <1>a, QueueStepTyped, WorkerTyped DEF LookAtPool
    <2>2. PoolTypeOK'
      BY <1>5, <1>a, PoolStepTyped, WorkerTyped DEF LookAtPool
    <2>3. ManagerTypeOK' /\ LocalsOK'
      BY <1>5, <1>a, WorkerTyped
      DEF LookAtPool, PlatformsAvailable, Goto, runVars, environmentVars, ManagerTypeOK, TypeInv, LocalsOK
    <2> QED
      BY <1>b, <2>1, <2>2, <2>3
  <1>6. ASSUME NEW w \in Workers, NEW j \in Jobs, TakeNext(w, j)
        PROVE  TypeInv'
    <2>1. QueueTypeOK'
      BY <1>6, <1>a, QueueStepTyped, WorkerTyped DEF TakeNext, ManagerTypeOK
    <2>2. PoolTypeOK'
      BY <1>6, <1>a, PoolStepTyped, WorkerTyped DEF TakeNext
    <2>3. ManagerTypeOK' /\ LocalsOK'
      BY <1>6, <1>a, WorkerTyped
      DEF TakeNext, Goto, runVars, environmentVars, ManagerTypeOK, TypeInv, LocalsOK
    <2> QED
      BY <1>b, <2>1, <2>2, <2>3
  <1>7. ASSUME NEW w \in Workers, FindNoWork(w)
        PROVE  TypeInv'
    <2>1. QueueTypeOK'
      BY <1>7, <1>a, QueueStepTyped, WorkerTyped DEF FindNoWork
    <2>2. PoolTypeOK'
      BY <1>7, <1>a, PoolStepTyped, WorkerTyped DEF FindNoWork
    <2>3. ManagerTypeOK' /\ LocalsOK'
      BY <1>7, <1>a, WorkerTyped
      DEF FindNoWork, Return, Goto, runVars, environmentVars, ManagerTypeOK, TypeInv, LocalsOK
    <2> QED
      BY <1>b, <2>1, <2>2, <2>3
  <1>8. ASSUME NEW w \in Workers, NEW g \in Guests, AcquireGuest(w, g)
        PROVE  TypeInv'
    <2>1. QueueTypeOK'
      BY <1>8, <1>a, QueueStepTyped, WorkerTyped DEF AcquireGuest, JobStates, ActiveStates
    <2>2. PoolTypeOK'
      BY <1>8, <1>a, PoolStepTyped, WorkerTyped DEF AcquireGuest, TypeInv, LocalsOK
    <2>3. ManagerTypeOK' /\ LocalsOK'
      BY <1>8, <1>a, WorkerTyped
      DEF AcquireGuest, Goto, runVars, environmentVars, ManagerTypeOK, TypeInv, LocalsOK
    <2> QED
      BY <1>b, <2>1, <2>2, <2>3
  <1>9. ASSUME NEW w \in Workers, FindNoGuest(w)
        PROVE  TypeInv'
    <2>1. QueueTypeOK'
      BY <1>9, <1>a, QueueStepTyped, WorkerTyped DEF FindNoGuest
    <2>2. PoolTypeOK'
      BY <1>9, <1>a, PoolStepTyped, WorkerTyped DEF FindNoGuest
    <2>3. ManagerTypeOK' /\ LocalsOK'
      BY <1>9, <1>a, WorkerTyped
      DEF FindNoGuest, Return, Goto, runVars, environmentVars, ManagerTypeOK, TypeInv, LocalsOK
    <2> QED
      BY <1>b, <2>1, <2>2, <2>3
  <1>10. ASSUME NEW w \in Workers, BuildController(w)
        PROVE  TypeInv'
    <2>1. QueueTypeOK'
      BY <1>10, <1>a, QueueStepTyped, WorkerTyped DEF BuildController, JobStates, ActiveStates
    <2>2. PoolTypeOK'
      BY <1>10, <1>a, PoolStepTyped, WorkerTyped DEF BuildController
    <2>3. ManagerTypeOK' /\ LocalsOK'
      BY <1>10, <1>a, WorkerTyped
      DEF BuildController, Goto, runVars, environmentVars, ManagerTypeOK, TypeInv, LocalsOK
    <2> QED
      BY <1>b, <2>1, <2>2, <2>3
  <1>11. ASSUME NEW w \in Workers, RestoreGuest(w)
        PROVE  TypeInv'
    <2>1. QueueTypeOK'
      BY <1>11, <1>a, QueueStepTyped, WorkerTyped DEF RestoreGuest
    <2>2. PoolTypeOK'
      BY <1>11, <1>a, PoolStepTyped, WorkerTyped DEF RestoreGuest
    <2>3. ManagerTypeOK' /\ LocalsOK'
      BY <1>11, <1>a, WorkerTyped
      DEF RestoreGuest, Goto, runVars, environmentVars, ManagerTypeOK, TypeInv, LocalsOK
    <2> QED
      BY <1>b, <2>1, <2>2, <2>3
  <1>12. ASSUME NEW w \in Workers, DropSample(w)
        PROVE  TypeInv'
    <2>1. QueueTypeOK'
      BY <1>12, <1>a, QueueStepTyped, WorkerTyped DEF DropSample, JobStates, ActiveStates
    <2>2. PoolTypeOK'
      BY <1>12, <1>a, PoolStepTyped, WorkerTyped DEF DropSample
    <2>3. ManagerTypeOK' /\ LocalsOK'
      BY <1>12, <1>a, WorkerTyped
      DEF DropSample, Goto, runVars, environmentVars, ManagerTypeOK, TypeInv, LocalsOK
    <2> QED
      BY <1>b, <2>1, <2>2, <2>3
  <1>13. ASSUME NEW w \in Workers, Detonate(w)
        PROVE  TypeInv'
    <2>1. QueueTypeOK'
      BY <1>13, <1>a, QueueStepTyped, WorkerTyped DEF Detonate, JobStates, ActiveStates
    <2>2. PoolTypeOK'
      BY <1>13, <1>a, PoolStepTyped, WorkerTyped DEF Detonate
    <2>3. ManagerTypeOK' /\ LocalsOK'
      BY <1>13, <1>a, WorkerTyped
      DEF Detonate, Goto, runVars, environmentVars, ManagerTypeOK, TypeInv, LocalsOK
    <2> QED
      BY <1>b, <2>1, <2>2, <2>3
  <1>14. ASSUME NEW w \in Workers, Collect(w)
        PROVE  TypeInv'
    <2>1. QueueTypeOK'
      BY <1>14, <1>a, QueueStepTyped, WorkerTyped DEF Collect, JobStates, TerminalStates
    <2>2. PoolTypeOK'
      BY <1>14, <1>a, PoolStepTyped, WorkerTyped DEF Collect
    <2>3. ManagerTypeOK' /\ LocalsOK'
      BY <1>14, <1>a, WorkerTyped
      DEF Collect, Goto, runVars, environmentVars, ManagerTypeOK, TypeInv, LocalsOK
    <2> QED
      BY <1>b, <2>1, <2>2, <2>3
  <1>15. ASSUME NEW w \in Workers, SaveReport(w)
        PROVE  TypeInv'
    <2>1. QueueTypeOK'
      BY <1>15, <1>a, QueueStepTyped, WorkerTyped DEF SaveReport
    <2>2. PoolTypeOK'
      BY <1>15, <1>a, PoolStepTyped, WorkerTyped DEF SaveReport
    <2>3. ManagerTypeOK' /\ LocalsOK'
      BY <1>15, <1>a, WorkerTyped
      DEF SaveReport, TeardownStart, Goto, runVars, environmentVars, ManagerTypeOK, TypeInv, LocalsOK
    <2> QED
      BY <1>b, <2>1, <2>2, <2>3
  <1>16. ASSUME NEW w \in Workers, RunFails(w)
        PROVE  TypeInv'
    <2>1. QueueTypeOK'
      BY <1>16, <1>a, QueueStepTyped, WorkerTyped DEF RunFails, Fail, HandleFailure, JobStates, TerminalStates
    <2>2. PoolTypeOK'
      BY <1>16, <1>a, PoolStepTyped, WorkerTyped DEF RunFails, Fail
    <2>3. ManagerTypeOK' /\ LocalsOK'
      BY <1>16, <1>a, WorkerTyped
      DEF RunFails, Fail, HandleFailure, TeardownStart, Goto, runVars, environmentVars, ManagerTypeOK, TypeInv, LocalsOK
    <2> QED
      BY <1>b, <2>1, <2>2, <2>3
  <1>17. ASSUME NEW w \in Workers, SaveFails(w)
        PROVE  TypeInv'
    <2>1. QueueTypeOK'
      BY <1>17, <1>a, QueueStepTyped, WorkerTyped DEF SaveFails, Fail, HandleFailure, JobStates, TerminalStates
    <2>2. PoolTypeOK'
      BY <1>17, <1>a, PoolStepTyped, WorkerTyped DEF SaveFails, Fail
    <2>3. ManagerTypeOK' /\ LocalsOK'
      BY <1>17, <1>a, WorkerTyped
      DEF SaveFails, Fail, HandleFailure, TeardownStart, Goto, runVars, environmentVars, ManagerTypeOK, TypeInv, LocalsOK
    <2> QED
      BY <1>b, <2>1, <2>2, <2>3
  <1>18. ASSUME NEW w \in Workers, StopGuest(w)
        PROVE  TypeInv'
    <2>1. QueueTypeOK'
      BY <1>18, <1>a, QueueStepTyped, WorkerTyped DEF StopGuest
    <2>2. PoolTypeOK'
      BY <1>18, <1>a, PoolStepTyped, WorkerTyped DEF StopGuest
    <2>3. ManagerTypeOK' /\ LocalsOK'
      BY <1>18, <1>a, WorkerTyped
      DEF StopGuest, Goto, runVars, environmentVars, ManagerTypeOK, TypeInv, LocalsOK
    <2> QED
      BY <1>b, <2>1, <2>2, <2>3
  <1>19. ASSUME NEW w \in Workers, ReleaseGuest(w)
        PROVE  TypeInv'
    <2>1. QueueTypeOK'
      BY <1>19, <1>a, QueueStepTyped, WorkerTyped DEF ReleaseGuest
    <2>2. PoolTypeOK'
      BY <1>19, <1>a, PoolStepTyped, WorkerTyped DEF ReleaseGuest, ManagerTypeOK, TypeInv, LocalsOK
    <2>3. ManagerTypeOK' /\ LocalsOK'
      BY <1>19, <1>a, WorkerTyped
      DEF ReleaseGuest, Goto, runVars, environmentVars, ManagerTypeOK, TypeInv, LocalsOK
    <2> QED
      BY <1>b, <2>1, <2>2, <2>3
  <1>20. ASSUME NEW w \in Workers, RevertGuest(w)
        PROVE  TypeInv'
    <2>1. QueueTypeOK'
      BY <1>20, <1>a, QueueStepTyped, WorkerTyped DEF RevertGuest
    <2>2. PoolTypeOK'
      BY <1>20, <1>a, PoolStepTyped, WorkerTyped DEF RevertGuest
    <2>3. ManagerTypeOK' /\ LocalsOK'
      BY <1>20, <1>a, WorkerTyped
      DEF RevertGuest, Goto, runVars, environmentVars, ManagerTypeOK, TypeInv, LocalsOK
    <2> QED
      BY <1>b, <2>1, <2>2, <2>3
  <1>21. ASSUME NEW w \in Workers, RevertFails(w)
        PROVE  TypeInv'
    <2>1. QueueTypeOK'
      BY <1>21, <1>a, QueueStepTyped, WorkerTyped DEF RevertFails
    <2>2. PoolTypeOK'
      BY <1>21, <1>a, PoolStepTyped, WorkerTyped DEF RevertFails, TypeInv, LocalsOK
    <2>3. ManagerTypeOK' /\ LocalsOK'
      BY <1>21, <1>a, WorkerTyped
      DEF RevertFails, Return, Goto, runVars, environmentVars, ManagerTypeOK, TypeInv, LocalsOK
    <2> QED
      BY <1>b, <2>1, <2>2, <2>3
  <1>22. ASSUME NEW w \in Workers, ReturnGuest(w)
        PROVE  TypeInv'
    <2>1. QueueTypeOK'
      BY <1>22, <1>a, QueueStepTyped, WorkerTyped DEF ReturnGuest
    <2>2. PoolTypeOK'
      BY <1>22, <1>a, PoolStepTyped, WorkerTyped DEF ReturnGuest, TypeInv, LocalsOK
    <2>3. ManagerTypeOK' /\ LocalsOK'
      BY <1>22, <1>a, WorkerTyped
      DEF ReturnGuest, Return, Goto, runVars, environmentVars, ManagerTypeOK, TypeInv, LocalsOK
    <2> QED
      BY <1>b, <2>1, <2>2, <2>3
  <1>23. ASSUME NEW w \in Workers, CancelRun(w)
        PROVE  TypeInv'
    <2>1. QueueTypeOK'
      BY <1>23, <1>a, QueueStepTyped, WorkerTyped DEF CancelRun, JobStates, TerminalStates
    <2>2. PoolTypeOK'
      BY <1>23, <1>a, PoolStepTyped, WorkerTyped DEF CancelRun
    <2>3. ManagerTypeOK' /\ LocalsOK'
      BY <1>23, <1>a, WorkerTyped
      DEF CancelRun, TeardownStart, Goto, runVars, environmentVars, ManagerTypeOK, TypeInv, LocalsOK
    <2> QED
      BY <1>b, <2>1, <2>2, <2>3
  <1>24. ASSUME NEW w \in Workers, CancelTeardown(w)
        PROVE  TypeInv'
    <2>1. QueueTypeOK'
      BY <1>24, <1>a, QueueStepTyped, WorkerTyped DEF CancelTeardown
    <2>2. PoolTypeOK'
      BY <1>24, <1>a, PoolStepTyped, WorkerTyped DEF CancelTeardown
    <2>3. ManagerTypeOK' /\ LocalsOK'
      BY <1>24, <1>a, WorkerTyped
      DEF CancelTeardown, Return, Goto, runVars, environmentVars, ManagerTypeOK, TypeInv, LocalsOK
    <2> QED
      BY <1>b, <2>1, <2>2, <2>3
  <1>25. CASE UNCHANGED vars
    <2>1. QueueTypeOK'
      BY <1>25, <1>a, QueueStepTyped DEF vars
    <2>2. PoolTypeOK'
      BY <1>25, <1>a, PoolStepTyped DEF vars
    <2>3. ManagerTypeOK' /\ LocalsOK'
      BY <1>25, <1>a DEF vars, managerVars, workerVars, runVars, environmentVars,
                        ManagerTypeOK, TypeInv, LocalsOK
    <2> QED
      BY <1>b, <2>1, <2>2, <2>3
  <1> QED
    BY <1>1, <1>2, <1>3, <1>4, <1>5, <1>6, <1>7, <1>8, <1>9, <1>10, <1>11, <1>12, <1>13, <1>14, <1>15, <1>16, <1>17, <1>18, <1>19, <1>20, <1>21, <1>22, <1>23, <1>24, <1>25 DEF Next, Work, OperatorStep

\* Every reachable state is well typed.
THEOREM TypeCorrect == Spec => []TypeOK
  <1>1. Init => TypeInv
    BY TypeInit
  <1>2. TypeInv /\ [Next]_vars => TypeInv'
    BY TypeStep
  <1>3. TypeInv => TypeOK
    BY DEF TypeInv
  <1> QED
    BY <1>1, <1>2, <1>3, PTL DEF Spec

-----------------------------------------------------------------------------
(* Exclusive leases *)

\* What each operation of the pool does to the guests that were not idle: only
\* mark_reverted() and restore() make a guest idle, and only the one they name.
LEMMA StaysOut ==
  ASSUME NEW g \in Guests, TypeOK, guestState[g] # "idle",
         \/ \E h \in Guests, p \in Platforms, j \in Jobs : Acquire(h, p, j)
         \/ \E p \in Platforms : AcquireNothing(p)
         \/ \E h \in Guests, s \in BOOLEAN : Release(h, s)
         \/ \E h \in Guests \ {g} : MarkReverted(h)
         \/ \E h \in Guests : MarkOffline(h)
         \/ \E h \in Guests \ {g} : RestoreToService(h)
         \/ \E h \in Guests : LeaseTimesOut(h)
         \/ UNCHANGED poolVars
  PROVE  guestState'[g] # "idle"
  <1> USE DEF TypeOK, PoolTypeOK, GuestStates
  <1>1. ASSUME NEW h \in Guests, NEW p \in Platforms, NEW j \in Jobs, Acquire(h, p, j)
        PROVE  guestState'[g] # "idle"
    BY <1>1 DEF Acquire
  <1>2. ASSUME NEW p \in Platforms, AcquireNothing(p)
        PROVE  guestState'[g] # "idle"
    BY <1>2 DEF AcquireNothing
  <1>3. ASSUME NEW h \in Guests, NEW s \in BOOLEAN, Release(h, s)
        PROVE  guestState'[g] # "idle"
    BY <1>3 DEF Release
  <1>4. ASSUME NEW h \in Guests \ {g}, MarkReverted(h) \/ RestoreToService(h)
        PROVE  guestState'[g] # "idle"
    BY <1>4 DEF MarkReverted, RestoreToService
  <1>5. ASSUME NEW h \in Guests, MarkOffline(h) \/ LeaseTimesOut(h)
        PROVE  guestState'[g] # "idle"
    BY <1>5 DEF MarkOffline, LeaseTimesOut
  <1>6. CASE UNCHANGED poolVars
    BY <1>6 DEF poolVars
  <1> QED
    BY <1>1, <1>2, <1>3, <1>4, <1>5, <1>6

\* The invariant behind exclusive leases: types, and exclusiveness itself.
LeaseInv == TypeInv /\ LeaseExclusive

\* A step in which no worker gains a guest, and in which the guests that were
\* out of the pool and are still held stay out, keeps leases exclusive.
LEMMA NoNewHolder ==
  ASSUME LeaseExclusive,
         \A w \in Workers, g \in Guests : Holds(w, g)' => Holds(w, g),
         \A w \in Workers, g \in Guests :
             Holds(w, g)' /\ guestState[g] # "idle" => guestState'[g] # "idle"
  PROVE  LeaseExclusive'
  BY DEF LeaseExclusive

\* Every step keeps leases exclusive: a guest is leased only when idle, hence
\* when nobody holds it, and becomes idle only when its one holder lets go.
LEMMA LeaseExclusiveStep == LeaseInv /\ [Next]_vars => LeaseExclusive'
  <1> SUFFICES ASSUME LeaseInv, [Next]_vars PROVE LeaseExclusive'
    OBVIOUS
  <1>a. TypeInv /\ TypeOK /\ LeaseExclusive
    BY DEF LeaseInv, TypeInv
  <1>b. ASSUME \A w \in Workers, g \in Guests : Holds(w, g)' => Holds(w, g),
               \/ \E p \in Platforms : AcquireNothing(p)
               \/ \E h \in Guests, s \in BOOLEAN : Release(h, s)
               \/ \E h \in Guests : MarkOffline(h)
               \/ \E h \in Guests : LeaseTimesOut(h)
               \/ UNCHANGED poolVars
        PROVE  LeaseExclusive'
    BY <1>a, <1>b, StaysOut, NoNewHolder
  <1> USE DEF RunPhases, TeardownPhases, Holds
  <1>1. CASE ClientStep
    BY <1>1, <1>b DEF ClientStep, managerVars, workerVars
  <1>2. CASE LeaseStep
    BY <1>2, <1>b DEF LeaseStep, managerVars, workerVars
  <1>3. ASSUME NEW g \in Guests, OperatorDisables(g)
        PROVE  LeaseExclusive'
    BY <1>3, <1>b DEF OperatorDisables, workerVars
  <1>4. ASSUME NEW g \in Guests, OperatorRestores(g)
        PROVE  LeaseExclusive'
    <2>1. \A w \in Workers : ~Holds(w, g)'
      BY <1>4 DEF OperatorRestores, workerVars
    <2>2. \A w \in Workers, h \in Guests : Holds(w, h)' => Holds(w, h)
      BY <1>4 DEF OperatorRestores, workerVars
    <2>3. \A h \in Guests \ {g} : guestState[h] # "idle" => guestState'[h] # "idle"
      BY <1>4, <1>a, StaysOut DEF OperatorRestores
    <2> QED
      BY <1>a, <2>1, <2>2, <2>3, NoNewHolder
  <1>5. ASSUME NEW w \in Workers, NEW g \in Guests, AcquireGuest(w, g)
        PROVE  LeaseExclusive'
    <2>1. guestState[g] = "idle" /\ guestState'[g] = "leased"
      BY <1>5, <1>a DEF AcquireGuest, Acquire, IdleGuests, IsAvailable, TypeOK, PoolTypeOK
    <2>2. \A v \in Workers : ~Holds(v, g)
      BY <2>1, <1>a DEF LeaseExclusive
    <2>3. \A h \in Guests : guestState[h] # "idle" => guestState'[h] # "idle"
      BY <1>5, <1>a, StaysOut, WorkerTyped DEF AcquireGuest
    <2>4. \A v \in Workers \ {w}, h \in Guests : Holds(v, h)' <=> Holds(v, h)
      BY <1>5, <1>a DEF AcquireGuest, Goto, TypeOK
    <2>5. \A h \in Guests : Holds(w, h)' => h = g
      BY <1>5, <1>a DEF AcquireGuest, Goto, TypeOK
    <2> QED
      BY <1>a, <2>1, <2>2, <2>3, <2>4, <2>5 DEF LeaseExclusive
  <1>6. ASSUME NEW w \in Workers, LookAtPool(w)
        PROVE  LeaseExclusive'
    BY <1>6, <1>a, <1>b DEF LookAtPool, Goto, TypeOK
  <1>7. ASSUME NEW w \in Workers, NEW j \in Jobs, TakeNext(w, j)
        PROVE  LeaseExclusive'
    BY <1>7, <1>a, <1>b DEF TakeNext, Goto, TypeOK
  <1>8. ASSUME NEW w \in Workers, FindNoWork(w)
        PROVE  LeaseExclusive'
    BY <1>8, <1>a, <1>b DEF FindNoWork, Return, Goto, TypeOK
  <1>9. ASSUME NEW w \in Workers, FindNoGuest(w)
        PROVE  LeaseExclusive'
    BY <1>9, <1>a, <1>b, WorkerTyped DEF FindNoGuest, Return, Goto, TypeOK
  <1>10. ASSUME NEW w \in Workers, BuildController(w)
        PROVE  LeaseExclusive'
    BY <1>10, <1>a, <1>b DEF BuildController, Goto, TypeOK
  <1>11. ASSUME NEW w \in Workers, RestoreGuest(w)
        PROVE  LeaseExclusive'
    BY <1>11, <1>a, <1>b DEF RestoreGuest, Goto, TypeOK
  <1>12. ASSUME NEW w \in Workers, DropSample(w)
        PROVE  LeaseExclusive'
    BY <1>12, <1>a, <1>b DEF DropSample, Goto, TypeOK
  <1>13. ASSUME NEW w \in Workers, Detonate(w)
        PROVE  LeaseExclusive'
    BY <1>13, <1>a, <1>b DEF Detonate, Goto, TypeOK
  <1>14. ASSUME NEW w \in Workers, Collect(w)
        PROVE  LeaseExclusive'
    BY <1>14, <1>a, <1>b DEF Collect, Goto, TypeOK
  <1>15. ASSUME NEW w \in Workers, SaveReport(w)
        PROVE  LeaseExclusive'
    BY <1>15, <1>a, <1>b DEF SaveReport, TeardownStart, Goto, TypeOK
  <1>16. ASSUME NEW w \in Workers, RunFails(w)
        PROVE  LeaseExclusive'
    BY <1>16, <1>a, <1>b DEF RunFails, Fail, TeardownStart, Goto, TypeOK
  <1>17. ASSUME NEW w \in Workers, SaveFails(w)
        PROVE  LeaseExclusive'
    BY <1>17, <1>a, <1>b DEF SaveFails, Fail, TeardownStart, Goto, TypeOK
  <1>18. ASSUME NEW w \in Workers, StopGuest(w)
        PROVE  LeaseExclusive'
    BY <1>18, <1>a, <1>b DEF StopGuest, Goto, TypeOK
  <1>19. ASSUME NEW w \in Workers, ReleaseGuest(w)
        PROVE  LeaseExclusive'
    BY <1>19, <1>a, <1>b DEF ReleaseGuest, TypeInv, LocalsOK, Goto, TypeOK
  <1>20. ASSUME NEW w \in Workers, RevertGuest(w)
        PROVE  LeaseExclusive'
    BY <1>20, <1>a, <1>b DEF RevertGuest, Goto, TypeOK
  <1>21. ASSUME NEW w \in Workers, RevertFails(w)
        PROVE  LeaseExclusive'
    BY <1>21, <1>a, <1>b DEF RevertFails, Return, TypeInv, LocalsOK, Goto, TypeOK
  <1>22. ASSUME NEW w \in Workers, CancelRun(w)
        PROVE  LeaseExclusive'
    BY <1>22, <1>a, <1>b DEF CancelRun, TeardownStart, Goto, TypeOK
  <1>23. ASSUME NEW w \in Workers, CancelTeardown(w)
        PROVE  LeaseExclusive'
    BY <1>23, <1>a, <1>b DEF CancelTeardown, Return, Goto, TypeOK
  <1>24. ASSUME NEW w \in Workers, ReturnGuest(w)
        PROVE  LeaseExclusive'
    <2>1. PICK g \in Guests : g = guest[w]
      BY <1>24, <1>a DEF ReturnGuest, TypeInv, LocalsOK
    <2>2. \A v \in Workers : ~Holds(v, g)'
      BY <1>24, <1>a, <2>1 DEF ReturnGuest, Return, Goto, TypeOK, LeaseExclusive
    <2>3. \A v \in Workers, h \in Guests : Holds(v, h)' => Holds(v, h)
      BY <1>24, <1>a DEF ReturnGuest, Return, Goto, TypeOK
    <2>4. \A h \in Guests \ {g} : guestState[h] # "idle" => guestState'[h] # "idle"
      BY <1>24, <1>a, <2>1, StaysOut DEF ReturnGuest
    <2> QED
      BY <1>a, <2>2, <2>3, <2>4, NoNewHolder
  <1>25. CASE UNCHANGED vars
    BY <1>25, <1>b DEF vars, managerVars, workerVars
  <1> QED
    BY <1>1, <1>2, <1>3, <1>4, <1>5, <1>6, <1>7, <1>8, <1>9, <1>10, <1>11, <1>12, <1>13, <1>14, <1>15, <1>16, <1>17, <1>18, <1>19, <1>20, <1>21, <1>22, <1>23, <1>24, <1>25 DEF Next, Work, OperatorStep

\* No two runs ever use one guest, and no guest in use can be leased (pool.py).
THEOREM LeasesAreExclusive == Spec => []LeaseExclusive
  <1>1. Init => LeaseInv
    BY TypeInit DEF Init, LeaseInv, LeaseExclusive, Holds, RunPhases, TeardownPhases
  <1>2. LeaseInv /\ [Next]_vars => LeaseInv'
    BY TypeStep, LeaseExclusiveStep DEF LeaseInv
  <1>3. LeaseInv => LeaseExclusive
    BY DEF LeaseInv
  <1> QED
    BY <1>1, <1>2, <1>3, PTL DEF Spec

-----------------------------------------------------------------------------
(* Clean guests *)

\* When a worker has a controller, and when the guest it holds must be clean.
CleanOK ==
    \A w \in Workers :
        /\ pc[w] \in {"idle", "looking", "taken", "building"} => ~hasController[w]
        /\ pc[w] \in (RunPhases \ {"building"}) \cup {"stopping", "reverting"} => hasController[w]
        /\ pc[w] \in {"building", "releasing"} /\ ~hasController[w] => disk[guest[w]] = {}
        /\ pc[w] \in {"dropping", "returning"} => disk[guest[w]] = {}
        /\ pc[w] = "detonating" => disk[guest[w]] = {job[w]}

CleanInv == LeaseInv /\ IdleIsClean /\ CleanOK

\* A step that changes neither a guest's disk nor makes a guest idle keeps idle
\* guests clean.
LEMMA IdleStaysClean ==
  ASSUME IdleIsClean,
         \A g \in Guests : guestState'[g] = "idle" =>
             disk'[g] = {} \/ (guestState[g] = "idle" /\ disk'[g] = disk[g])
  PROVE  IdleIsClean'
  BY DEF IdleIsClean

\* Every step keeps idle guests clean, and the guest of a run as clean as its
\* phase requires.
LEMMA CleanStep == CleanInv /\ [Next]_vars => IdleIsClean' /\ CleanOK'
  <1> SUFFICES ASSUME CleanInv, [Next]_vars PROVE IdleIsClean' /\ CleanOK'
    OBVIOUS
  <1>a. TypeInv /\ TypeOK /\ LeaseExclusive /\ IdleIsClean /\ CleanOK
    BY DEF CleanInv, LeaseInv, TypeInv
  <1>b. ASSUME UNCHANGED disk,
               \/ \E h \in Guests, p \in Platforms, j \in Jobs : Acquire(h, p, j)
               \/ \E p \in Platforms : AcquireNothing(p)
               \/ \E h \in Guests, s \in BOOLEAN : Release(h, s)
               \/ \E h \in Guests : MarkOffline(h)
               \/ \E h \in Guests : LeaseTimesOut(h)
               \/ UNCHANGED poolVars
        PROVE  IdleIsClean'
    <2>1. \A g \in Guests : guestState'[g] = "idle" => guestState[g] = "idle"
      BY <1>a, <1>b, StaysOut
    <2> QED
      BY <1>a, <1>b, <2>1, IdleStaysClean
  <1>c. ASSUME NEW w \in Workers, pc[w] \in RunPhases \cup TeardownPhases
        PROVE  /\ guest[w] \in Guests
               /\ guestState[guest[w]] # "idle"
               /\ \A v \in Workers \ {w} :
                     pc[v] \in RunPhases \cup TeardownPhases => guest[v] # guest[w]
    BY <1>a, <1>c DEF TypeInv, LocalsOK, LeaseExclusive, Holds
  <1> USE DEF RunPhases, TeardownPhases
  <1>1. CASE ClientStep
    BY <1>1, <1>a, <1>b DEF ClientStep, managerVars, workerVars, CleanOK
  <1>2. CASE LeaseStep
    BY <1>2, <1>a, <1>b DEF LeaseStep, managerVars, workerVars, CleanOK
  <1>3. ASSUME NEW g \in Guests, OperatorDisables(g)
        PROVE  IdleIsClean' /\ CleanOK'
    BY <1>3, <1>a, <1>b DEF OperatorDisables, workerVars, CleanOK
  <1>4. ASSUME NEW g \in Guests, OperatorRestores(g)
        PROVE  IdleIsClean' /\ CleanOK'
    <2>1. IdleIsClean'
      BY <1>4, <1>a, IdleStaysClean DEF OperatorRestores, RestoreToService, TypeOK, PoolTypeOK
    <2>2. CleanOK'
      BY <1>4, <1>a DEF OperatorRestores, workerVars, CleanOK, Holds, TypeOK
    <2> QED
      BY <2>1, <2>2
  <1>5. ASSUME NEW w \in Workers, LookAtPool(w)
        PROVE  IdleIsClean' /\ CleanOK'
    <2>1. IdleIsClean'
      BY <1>5, <1>a, <1>b DEF LookAtPool
    <2>2. CleanOK'
      BY <1>5, <1>a, <1>c DEF LookAtPool, Goto, CleanOK, TypeOK
    <2> QED
      BY <2>1, <2>2
  <1>6. ASSUME NEW w \in Workers, NEW j \in Jobs, TakeNext(w, j)
        PROVE  IdleIsClean' /\ CleanOK'
    <2>1. IdleIsClean'
      BY <1>6, <1>a, <1>b DEF TakeNext
    <2>2. CleanOK'
      BY <1>6, <1>a, <1>c DEF TakeNext, Goto, CleanOK, TypeOK
    <2> QED
      BY <2>1, <2>2
  <1>7. ASSUME NEW w \in Workers, FindNoWork(w)
        PROVE  IdleIsClean' /\ CleanOK'
    <2>1. IdleIsClean'
      BY <1>7, <1>a, <1>b DEF FindNoWork
    <2>2. CleanOK'
      BY <1>7, <1>a, <1>c DEF FindNoWork, Return, Goto, CleanOK, TypeOK
    <2> QED
      BY <2>1, <2>2
  <1>8. ASSUME NEW w \in Workers, NEW g \in Guests, AcquireGuest(w, g)
        PROVE  IdleIsClean' /\ CleanOK'
    <2>1. IdleIsClean'
      BY <1>8, <1>a, <1>b, WorkerTyped DEF AcquireGuest
    <2>2. CleanOK'
      BY <1>8, <1>a, <1>c DEF AcquireGuest, Acquire, IdleGuests, IsAvailable, IdleIsClean, Goto, CleanOK, TypeOK
    <2> QED
      BY <2>1, <2>2
  <1>9. ASSUME NEW w \in Workers, FindNoGuest(w)
        PROVE  IdleIsClean' /\ CleanOK'
    <2>1. IdleIsClean'
      BY <1>9, <1>a, <1>b, WorkerTyped DEF FindNoGuest
    <2>2. CleanOK'
      BY <1>9, <1>a, <1>c DEF FindNoGuest, Return, Goto, CleanOK, TypeOK
    <2> QED
      BY <2>1, <2>2
  <1>10. ASSUME NEW w \in Workers, BuildController(w)
        PROVE  IdleIsClean' /\ CleanOK'
    <2>1. IdleIsClean'
      BY <1>10, <1>a, <1>b DEF BuildController
    <2>2. CleanOK'
      BY <1>10, <1>a, <1>c DEF BuildController, Goto, CleanOK, TypeOK
    <2> QED
      BY <2>1, <2>2
  <1>11. ASSUME NEW w \in Workers, RestoreGuest(w)
        PROVE  IdleIsClean' /\ CleanOK'
    <2>1. IdleIsClean'
      BY <1>11, <1>a, IdleStaysClean, <1>c DEF RestoreGuest, poolVars, TypeOK
    <2>2. CleanOK'
      BY <1>11, <1>a, <1>c DEF RestoreGuest, Goto, CleanOK, TypeOK
    <2> QED
      BY <2>1, <2>2
  <1>12. ASSUME NEW w \in Workers, DropSample(w)
        PROVE  IdleIsClean' /\ CleanOK'
    <2>1. IdleIsClean'
      BY <1>12, <1>a, IdleStaysClean, <1>c DEF DropSample, poolVars, TypeOK
    <2>2. CleanOK'
      BY <1>12, <1>a, <1>c DEF DropSample, Goto, CleanOK, TypeOK
    <2> QED
      BY <2>1, <2>2
  <1>13. ASSUME NEW w \in Workers, Detonate(w)
        PROVE  IdleIsClean' /\ CleanOK'
    <2>1. IdleIsClean'
      BY <1>13, <1>a, <1>b DEF Detonate
    <2>2. CleanOK'
      BY <1>13, <1>a, <1>c DEF Detonate, Goto, CleanOK, TypeOK
    <2> QED
      BY <2>1, <2>2
  <1>14. ASSUME NEW w \in Workers, Collect(w)
        PROVE  IdleIsClean' /\ CleanOK'
    <2>1. IdleIsClean'
      BY <1>14, <1>a, <1>b DEF Collect
    <2>2. CleanOK'
      BY <1>14, <1>a, <1>c DEF Collect, Goto, CleanOK, TypeOK
    <2> QED
      BY <2>1, <2>2
  <1>15. ASSUME NEW w \in Workers, SaveReport(w)
        PROVE  IdleIsClean' /\ CleanOK'
    <2>1. IdleIsClean'
      BY <1>15, <1>a, <1>b DEF SaveReport
    <2>2. CleanOK'
      BY <1>15, <1>a, <1>c DEF SaveReport, TeardownStart, Goto, CleanOK, TypeOK
    <2> QED
      BY <2>1, <2>2
  <1>16. ASSUME NEW w \in Workers, RunFails(w)
        PROVE  IdleIsClean' /\ CleanOK'
    <2>1. IdleIsClean'
      BY <1>16, <1>a, IdleStaysClean, <1>c DEF RunFails, Fail, poolVars, TypeOK
    <2>2. CleanOK'
      BY <1>16, <1>a, <1>c DEF RunFails, Fail, TeardownStart, Goto, CleanOK, TypeOK
    <2> QED
      BY <2>1, <2>2
  <1>17. ASSUME NEW w \in Workers, SaveFails(w)
        PROVE  IdleIsClean' /\ CleanOK'
    <2>1. IdleIsClean'
      BY <1>17, <1>a, <1>b DEF SaveFails, Fail
    <2>2. CleanOK'
      BY <1>17, <1>a, <1>c DEF SaveFails, Fail, TeardownStart, Goto, CleanOK, TypeOK
    <2> QED
      BY <2>1, <2>2
  <1>18. ASSUME NEW w \in Workers, StopGuest(w)
        PROVE  IdleIsClean' /\ CleanOK'
    <2>1. IdleIsClean'
      BY <1>18, <1>a, <1>b DEF StopGuest
    <2>2. CleanOK'
      BY <1>18, <1>a, <1>c DEF StopGuest, Goto, CleanOK, TypeOK
    <2> QED
      BY <2>1, <2>2
  <1>19. ASSUME NEW w \in Workers, ReleaseGuest(w)
        PROVE  IdleIsClean' /\ CleanOK'
    <2>1. IdleIsClean'
      BY <1>19, <1>a, <1>b, <1>c DEF ReleaseGuest, TypeInv, LocalsOK, TypeOK
    <2>2. CleanOK'
      BY <1>19, <1>a, <1>c DEF ReleaseGuest, Goto, CleanOK, TypeOK
    <2> QED
      BY <2>1, <2>2
  <1>20. ASSUME NEW w \in Workers, RevertGuest(w)
        PROVE  IdleIsClean' /\ CleanOK'
    <2>1. IdleIsClean'
      BY <1>20, <1>a, IdleStaysClean, <1>c DEF RevertGuest, poolVars, TypeOK
    <2>2. CleanOK'
      BY <1>20, <1>a, <1>c DEF RevertGuest, Goto, CleanOK, TypeOK
    <2> QED
      BY <2>1, <2>2
  <1>21. ASSUME NEW w \in Workers, RevertFails(w)
        PROVE  IdleIsClean' /\ CleanOK'
    <2>1. IdleIsClean'
      BY <1>21, <1>a, <1>b, <1>c DEF RevertFails
    <2>2. CleanOK'
      BY <1>21, <1>a, <1>c DEF RevertFails, Return, Goto, CleanOK, TypeOK
    <2> QED
      BY <2>1, <2>2
  <1>22. ASSUME NEW w \in Workers, ReturnGuest(w)
        PROVE  IdleIsClean' /\ CleanOK'
    <2>1. IdleIsClean'
      BY <1>22, <1>a, IdleStaysClean, <1>c DEF ReturnGuest, MarkReverted, CleanOK, TypeOK, PoolTypeOK
    <2>2. CleanOK'
      BY <1>22, <1>a, <1>c DEF ReturnGuest, Return, Goto, CleanOK, TypeOK
    <2> QED
      BY <2>1, <2>2
  <1>23. ASSUME NEW w \in Workers, CancelRun(w)
        PROVE  IdleIsClean' /\ CleanOK'
    <2>1. IdleIsClean'
      BY <1>23, <1>a, IdleStaysClean, <1>c DEF CancelRun, poolVars, TypeOK
    <2>2. CleanOK'
      BY <1>23, <1>a, <1>c DEF CancelRun, TeardownStart, Goto, CleanOK, TypeOK
    <2> QED
      BY <2>1, <2>2
  <1>24. ASSUME NEW w \in Workers, CancelTeardown(w)
        PROVE  IdleIsClean' /\ CleanOK'
    <2>1. IdleIsClean'
      BY <1>24, <1>a, <1>b DEF CancelTeardown
    <2>2. CleanOK'
      BY <1>24, <1>a, <1>c DEF CancelTeardown, Return, Goto, CleanOK, TypeOK
    <2> QED
      BY <2>1, <2>2
  <1>25. CASE UNCHANGED vars
    BY <1>25, <1>a, <1>b DEF vars, managerVars, workerVars, CleanOK
  <1> QED
    BY <1>1, <1>2, <1>3, <1>4, <1>5, <1>6, <1>7, <1>8, <1>9, <1>10, <1>11, <1>12, <1>13, <1>14, <1>15, <1>16, <1>17, <1>18, <1>19, <1>20, <1>21, <1>22, <1>23, <1>24, <1>25 DEF Next, Work, OperatorStep

\* The invariant holds of every reachable state.
LEMMA CleanInvariant == Spec => []CleanInv
  <1>1. Init => CleanInv
    BY TypeInit DEF Init, PoolInit, CleanInv, LeaseInv, LeaseExclusive, Holds,
                    IdleIsClean, CleanOK, RunPhases, TeardownPhases
  <1>2. CleanInv /\ [Next]_vars => CleanInv'
    BY TypeStep, LeaseExclusiveStep, CleanStep DEF CleanInv, LeaseInv
  <1> QED
    BY <1>1, <1>2, PTL DEF Spec

\* While a sample runs, its guest carries its traces and no other sample's
\* (manager.py: nothing runs on a guest that was not just reverted).
THEOREM DetonationsAreClean == Spec => []CleanDetonation
  <1>1. CleanInv => CleanDetonation
    BY DEF CleanInv, CleanOK, CleanDetonation
  <1> QED
    BY <1>1, CleanInvariant, PTL

\* A guest that can be leased carries nothing of an earlier sample (pool.py).
THEOREM IdleGuestsAreClean == Spec => []IdleIsClean
  <1>1. CleanInv => IdleIsClean
    BY DEF CleanInv
  <1> QED
    BY <1>1, CleanInvariant, PTL

-----------------------------------------------------------------------------
(* The manager implements GuestLease *)

\* Steps in which every worker keeps its hold and its job leave Users alone.
LEMMA SameUsers ==
  ASSUME \A w \in Workers, g \in Guests :
             /\ Holds(w, g)' <=> Holds(w, g)
             /\ Holds(w, g) => job'[w] = job[w]
  PROVE  Users' = Users
  BY DEF Users

\* Steps that change who uses one guest only.
LEMMA UsersOfOne ==
  ASSUME NEW g \in Guests, NEW S,
         {job'[w] : w \in {v \in Workers : Holds(v, g)'}} = S,
         \A w \in Workers, h \in Guests \ {g} :
             /\ Holds(w, h)' <=> Holds(w, h)
             /\ Holds(w, h) => job'[w] = job[w]
  PROVE  Users' = [Users EXCEPT ![g] = S]
  <1>1. ASSUME NEW h \in Guests \ {g}
        PROVE  {job'[w] : w \in {v \in Workers : Holds(v, h)'}} =
               {job[w] : w \in {v \in Workers : Holds(v, h)}}
    OBVIOUS
  <1>2. Users' = [h \in Guests |-> {job'[w] : w \in {v \in Workers : Holds(v, h)'}}]
    BY DEF Users
  <1>3. ASSUME NEW h \in Guests
        PROVE  {job'[w] : w \in {v \in Workers : Holds(v, h)'}} =
               [Users EXCEPT ![g] = S][h]
    BY <1>1 DEF Users
  <1>4. [Users EXCEPT ![g] = S] = [h \in Guests |-> [Users EXCEPT ![g] = S][h]]
    BY DEF Users
  <1> QED
    BY <1>2, <1>3, <1>4

\* The guest of a worker that holds one has that worker's job as its only user.
LEMMA OneUser ==
  ASSUME LeaseInv, NEW w \in Workers, pc[w] \in RunPhases \cup TeardownPhases
  PROVE  /\ guest[w] \in Guests
         /\ job[w] \in Jobs
         /\ Users[guest[w]] = {job[w]}
  BY DEF LeaseInv, TypeInv, LocalsOK, LeaseExclusive, Holds, Users

\* A worker that returns ends the use of its guest and of no other.
LEMMA ReturnEndsLease ==
  ASSUME CleanInv, NEW w \in Workers, pc[w] \in RunPhases \cup TeardownPhases,
         Return(w), UNCHANGED disk
  PROVE  Lease!Next
  <1>1. PICK g \in Guests : g = guest[w]
    BY OneUser DEF CleanInv
  <1>2. Users[g] # {}
    BY <1>1, OneUser DEF CleanInv
  <1>3. \A v \in Workers : ~Holds(v, g)'
    BY <1>1 DEF Return, Goto, CleanInv, LeaseInv, TypeInv, TypeOK, LeaseExclusive, Holds,
                RunPhases, TeardownPhases
  <1>4. \A v \in Workers, h \in Guests \ {g} :
            /\ Holds(v, h)' <=> Holds(v, h)
            /\ Holds(v, h) => job'[v] = job[v]
    BY <1>1 DEF Return, Goto, CleanInv, LeaseInv, TypeInv, TypeOK, Holds,
                RunPhases, TeardownPhases
  <1>5. {job'[u] : u \in {v \in Workers : Holds(v, g)'}} = {}
    BY <1>3
  <1>6. Users' = [Users EXCEPT ![g] = {}]
    BY <1>4, <1>5, UsersOfOne
  <1>7. Lease!End(g)
    BY <1>2, <1>6 DEF Lease!End
  <1> QED
    BY <1>7 DEF Lease!Next

\* Every step of the manager is a step of GuestLease or leaves it alone.
LEMMA LeaseRefined == CleanInv /\ [Next]_vars => [Lease!Next]_(Lease!leaseVars)
  <1> SUFFICES ASSUME CleanInv, [Next]_vars
               PROVE  Lease!Next \/ UNCHANGED Lease!leaseVars
    OBVIOUS
  <1>a. LeaseInv /\ TypeInv /\ TypeOK /\ LeaseExclusive /\ IdleIsClean /\ CleanOK
    BY DEF CleanInv, LeaseInv, TypeInv
  <1>b. ASSUME UNCHANGED disk,
               \A w \in Workers, g \in Guests :
                   /\ Holds(w, g)' <=> Holds(w, g)
                   /\ Holds(w, g) => job'[w] = job[w]
        PROVE  UNCHANGED Lease!leaseVars
    BY <1>b, SameUsers DEF Lease!leaseVars
  <1>c. ASSUME NEW g \in Guests, disk' = [disk EXCEPT ![g] = {}],
               \A w \in Workers, h \in Guests :
                   /\ Holds(w, h)' <=> Holds(w, h)
                   /\ Holds(w, h) => job'[w] = job[w]
        PROVE  Lease!Next
    BY <1>c, SameUsers DEF Lease!Next, Lease!Revert
  <1>d. ASSUME NEW w \in Workers, pc[w] \in RunPhases \cup TeardownPhases,
               disk[guest[w]] = {},
               disk' = [disk EXCEPT ![guest[w]] = @ \cup {job[w]}],
               \A v \in Workers, h \in Guests :
                   /\ Holds(v, h)' <=> Holds(v, h)
                   /\ Holds(v, h) => job'[v] = job[v]
        PROVE  Lease!Next
    <2>1. PICK g \in Guests, j \in Jobs : g = guest[w] /\ j = job[w]
      BY <1>a, <1>d, OneUser
    <2>2. Lease!Detonate(g, j)
      BY <1>a, <1>d, <2>1, OneUser, SameUsers DEF Lease!Detonate
    <2> QED
      BY <2>2 DEF Lease!Next
  <1>1. CASE ClientStep \/ LeaseStep
    BY <1>1, <1>b DEF ClientStep, LeaseStep, managerVars, workerVars, Holds
  <1>2. ASSUME NEW g \in Guests, OperatorDisables(g)
        PROVE  Lease!Next \/ UNCHANGED Lease!leaseVars
    BY <1>2, <1>b DEF OperatorDisables, workerVars, Holds
  <1>3. ASSUME NEW g \in Guests, OperatorRestores(g)
        PROVE  Lease!Next \/ UNCHANGED Lease!leaseVars
    BY <1>3, <1>c DEF OperatorRestores, workerVars, Holds
  <1>4. ASSUME NEW w \in Workers, LookAtPool(w)
        PROVE  Lease!Next \/ UNCHANGED Lease!leaseVars
    BY <1>4, <1>a, <1>b DEF LookAtPool, Goto, Holds, RunPhases, TeardownPhases, TypeOK
  <1>5. ASSUME NEW w \in Workers, NEW j \in Jobs, TakeNext(w, j)
        PROVE  Lease!Next \/ UNCHANGED Lease!leaseVars
    BY <1>5, <1>a, <1>b DEF TakeNext, Goto, Holds, RunPhases, TeardownPhases, TypeOK
  <1>6. ASSUME NEW w \in Workers, FindNoWork(w)
        PROVE  Lease!Next \/ UNCHANGED Lease!leaseVars
    BY <1>6, <1>a, <1>b DEF FindNoWork, Return, Goto, Holds, RunPhases, TeardownPhases, TypeOK
  <1>7. ASSUME NEW w \in Workers, NEW g \in Guests, AcquireGuest(w, g)
        PROVE  Lease!Next \/ UNCHANGED Lease!leaseVars
    <2>1. PICK j \in Jobs : j = job[w]
      BY <1>7, <1>a, WorkerTyped DEF AcquireGuest
    <2>2. guestState[g] = "idle" /\ UNCHANGED disk
      BY <1>7 DEF AcquireGuest, Acquire, IdleGuests, IsAvailable
    <2>3. \A v \in Workers : ~Holds(v, g)
      BY <1>a, <2>2 DEF LeaseExclusive
    <2>4. /\ Holds(w, g)' /\ job'[w] = j
          /\ \A h \in Guests \ {g} : ~Holds(w, h)' /\ ~Holds(w, h)
      BY <1>7, <1>a, <2>1 DEF AcquireGuest, Goto, Holds, RunPhases, TeardownPhases, TypeOK
    <2>5. \A v \in Workers \ {w}, h \in Guests :
              /\ Holds(v, h)' <=> Holds(v, h)
              /\ job'[v] = job[v]
      BY <1>7, <1>a DEF AcquireGuest, Goto, Holds, TypeOK
    <2>a. {job'[u] : u \in {v \in Workers : Holds(v, g)'}} = {j}
      BY <2>3, <2>4, <2>5
    <2>b. \A v \in Workers, h \in Guests \ {g} :
              /\ Holds(v, h)' <=> Holds(v, h)
              /\ Holds(v, h) => job'[v] = job[v]
      BY <2>4, <2>5
    <2>6. Users' = [Users EXCEPT ![g] = {j}]
      BY <2>a, <2>b, UsersOfOne
    <2>7. Users[g] = {} /\ disk[g] = {}
      BY <1>a, <2>2, <2>3 DEF Users, IdleIsClean
    <2>8. Lease!Begin(g, j)
      BY <2>2, <2>6, <2>7 DEF Lease!Begin
    <2> QED
      BY <2>8 DEF Lease!Next
  <1>8. ASSUME NEW w \in Workers, FindNoGuest(w)
        PROVE  Lease!Next \/ UNCHANGED Lease!leaseVars
    BY <1>8, <1>a, <1>b DEF FindNoGuest, Return, Goto, Holds, RunPhases, TeardownPhases, TypeOK
  <1>9. ASSUME NEW w \in Workers, BuildController(w)
        PROVE  Lease!Next \/ UNCHANGED Lease!leaseVars
    BY <1>9, <1>a, <1>b DEF BuildController, Goto, Holds, RunPhases, TeardownPhases, TypeOK
  <1>10. ASSUME NEW w \in Workers, RestoreGuest(w)
        PROVE  Lease!Next \/ UNCHANGED Lease!leaseVars
    BY <1>10, <1>a, <1>c, OneUser
    DEF RestoreGuest, Goto, Holds, RunPhases, TeardownPhases, TypeOK
  <1>11. ASSUME NEW w \in Workers, DropSample(w)
        PROVE  Lease!Next \/ UNCHANGED Lease!leaseVars
    BY <1>11, <1>a, <1>d
    DEF DropSample, CleanOK, Goto, Holds, RunPhases, TeardownPhases, TypeOK
  <1>12. ASSUME NEW w \in Workers, Detonate(w)
        PROVE  Lease!Next \/ UNCHANGED Lease!leaseVars
    BY <1>12, <1>a, <1>b DEF Detonate, Goto, Holds, RunPhases, TeardownPhases, TypeOK
  <1>13. ASSUME NEW w \in Workers, Collect(w)
        PROVE  Lease!Next \/ UNCHANGED Lease!leaseVars
    BY <1>13, <1>a, <1>b DEF Collect, Goto, Holds, RunPhases, TeardownPhases, TypeOK
  <1>14. ASSUME NEW w \in Workers, SaveReport(w)
        PROVE  Lease!Next \/ UNCHANGED Lease!leaseVars
    BY <1>14, <1>a, <1>b DEF SaveReport, TeardownStart, Goto, Holds, RunPhases, TeardownPhases, TypeOK
  <1>15. ASSUME NEW w \in Workers, RunFails(w)
        PROVE  Lease!Next \/ UNCHANGED Lease!leaseVars
    <2>1. \A v \in Workers, h \in Guests :
              /\ Holds(v, h)' <=> Holds(v, h)
              /\ Holds(v, h) => job'[v] = job[v]
      BY <1>15, <1>a DEF RunFails, Fail, TeardownStart, Goto, Holds, RunPhases, TeardownPhases, TypeOK
    <2>2. CASE UNCHANGED disk
      BY <1>b, <2>1, <2>2
    <2>3. CASE pc[w] = "dropping" /\ disk' = [disk EXCEPT ![guest[w]] = @ \cup {job[w]}]
      BY <1>a, <1>d, <2>1, <2>3 DEF CleanOK, RunPhases
    <2> QED
      BY <1>15, <2>2, <2>3 DEF RunFails
  <1>16. ASSUME NEW w \in Workers, SaveFails(w)
        PROVE  Lease!Next \/ UNCHANGED Lease!leaseVars
    BY <1>16, <1>a, <1>b DEF SaveFails, Fail, TeardownStart, Goto, Holds, RunPhases, TeardownPhases, TypeOK
  <1>17. ASSUME NEW w \in Workers, StopGuest(w)
        PROVE  Lease!Next \/ UNCHANGED Lease!leaseVars
    BY <1>17, <1>a, <1>b DEF StopGuest, Goto, Holds, RunPhases, TeardownPhases, TypeOK
  <1>18. ASSUME NEW w \in Workers, ReleaseGuest(w)
        PROVE  Lease!Next \/ UNCHANGED Lease!leaseVars
    BY <1>18, <1>a, <1>b DEF ReleaseGuest, Goto, Holds, RunPhases, TeardownPhases, TypeOK
  <1>19. ASSUME NEW w \in Workers, RevertGuest(w)
        PROVE  Lease!Next \/ UNCHANGED Lease!leaseVars
    BY <1>19, <1>a, <1>c, OneUser
    DEF RevertGuest, Goto, Holds, RunPhases, TeardownPhases, TypeOK
  <1>20. ASSUME NEW w \in Workers, RevertFails(w)
        PROVE  Lease!Next \/ UNCHANGED Lease!leaseVars
    BY <1>20, ReturnEndsLease DEF RevertFails, TeardownPhases
  <1>21. ASSUME NEW w \in Workers, ReturnGuest(w)
        PROVE  Lease!Next \/ UNCHANGED Lease!leaseVars
    BY <1>21, ReturnEndsLease DEF ReturnGuest, TeardownPhases
  <1>22. ASSUME NEW w \in Workers, CancelTeardown(w)
        PROVE  Lease!Next \/ UNCHANGED Lease!leaseVars
    BY <1>22, ReturnEndsLease DEF CancelTeardown, TeardownPhases
  <1>23. ASSUME NEW w \in Workers, CancelRun(w)
        PROVE  Lease!Next \/ UNCHANGED Lease!leaseVars
    <2>1. \A v \in Workers, h \in Guests :
              /\ Holds(v, h)' <=> Holds(v, h)
              /\ Holds(v, h) => job'[v] = job[v]
      BY <1>23, <1>a DEF CancelRun, TeardownStart, Goto, Holds, RunPhases, TeardownPhases, TypeOK
    <2>2. CASE UNCHANGED disk
      BY <1>b, <2>1, <2>2
    <2>3. CASE pc[w] = "dropping" /\ disk' = [disk EXCEPT ![guest[w]] = @ \cup {job[w]}]
      BY <1>a, <1>d, <2>1, <2>3 DEF CleanOK, RunPhases
    <2> QED
      BY <1>23, <2>2, <2>3 DEF CancelRun
  <1>24. CASE UNCHANGED vars
    BY <1>24, <1>b DEF vars, managerVars, workerVars, Holds
  <1> QED
    BY <1>1, <1>2, <1>3, <1>4, <1>5, <1>6, <1>7, <1>8, <1>9, <1>10, <1>11, <1>12, <1>13, <1>14, <1>15, <1>16, <1>17, <1>18, <1>19, <1>20, <1>21, <1>22, <1>23, <1>24 DEF Next, Work, OperatorStep

\* "One sample per guest at a time, always from a known-clean snapshot"
\* (pool.py): the manager with its pool implements GuestLease.
THEOREM ManagerImplementsLease == Spec => ImplementsLease
  <1>1. Init => Lease!Init
    BY DEF Init, Lease!Init, Users, Holds, RunPhases, TeardownPhases
  <1>2. CleanInv /\ [Next]_vars => [Lease!Next]_(Lease!leaseVars)
    BY LeaseRefined
  <1> QED
    BY <1>1, <1>2, CleanInvariant, PTL DEF Spec, ImplementsLease, Lease!Spec

-----------------------------------------------------------------------------
(* The guests' way through the manager *)

\* The worker has released the guest and is about to revert it or hand it back.
HandsBack(w, g) == Holds(w, g) /\ pc[w] \in {"reverting", "returning"}

\* What holds of one guest.  Between its release and its return a guest is not
\* leased: without that, a late mark_reverted() could free a guest whose failures
\* have reached the limit, or leave a leased one without a run.
GuestOK(g) ==
    /\ guestState[g] \in {"idle", "leased"} => failures[g] < MaxFailures
    /\ guestState[g] \in {"leased", "reverting"} =>
           g \in torn \/ \E w \in Workers : Holds(w, g)
    /\ \A w \in Workers : HandsBack(w, g) =>
           \/ guestState[g] = "offline"
           \/ guestState[g] = "reverting" /\ failures[g] < MaxFailures

PoolInv == LeaseInv /\ \A g \in Guests : GuestOK(g)

-----------------------------------------------------------------------------

\* A guest is as it was, or its lease was reclaimed, or it left service.
Spared(g) ==
    \/ guestState'[g] = guestState[g] /\ failures'[g] = failures[g]
    \/ guestState'[g] = "offline"
    \/ guestState[g] = "leased" /\ guestState'[g] = "reverting"

\* What the pool's operations do to the guests they are not called for: expired
\* leases are reclaimed, nothing else changes.
LEMMA OthersSpared ==
  ASSUME TypeOK, NEW g \in Guests,
         \/ \E h \in Guests \ {g}, p \in Platforms, j \in Jobs : Acquire(h, p, j)
         \/ \E p \in Platforms : AcquireNothing(p)
         \/ \E h \in Guests \ {g}, s \in BOOLEAN : Release(h, s)
         \/ \E h \in Guests \ {g} : MarkReverted(h)
         \/ \E h \in Guests : MarkOffline(h)
         \/ \E h \in Guests \ {g} : RestoreToService(h)
         \/ \E h \in Guests : LeaseTimesOut(h)
         \/ UNCHANGED poolVars
  PROVE  Spared(g)
  <1> USE DEF TypeOK, PoolTypeOK, Spared
  <1>1. ASSUME NEW h \in Guests \ {g}, NEW p \in Platforms, NEW j \in Jobs, Acquire(h, p, j)
        PROVE  Spared(g)
    BY <1>1 DEF Acquire, Abandoned
  <1>2. ASSUME NEW p \in Platforms, AcquireNothing(p)
        PROVE  Spared(g)
    BY <1>2 DEF AcquireNothing, Abandoned
  <1>3. ASSUME NEW h \in Guests \ {g}, NEW s \in BOOLEAN, Release(h, s)
        PROVE  Spared(g)
    BY <1>3 DEF Release
  <1>4. ASSUME NEW h \in Guests \ {g}, MarkReverted(h) \/ RestoreToService(h)
        PROVE  Spared(g)
    BY <1>4 DEF MarkReverted, RestoreToService
  <1>5. ASSUME NEW h \in Guests, MarkOffline(h) \/ LeaseTimesOut(h)
        PROVE  Spared(g)
    BY <1>5 DEF MarkOffline, LeaseTimesOut
  <1>6. CASE UNCHANGED poolVars
    BY <1>6 DEF poolVars
  <1> QED
    BY <1>1, <1>2, <1>3, <1>4, <1>5, <1>6

\* A spared guest whose holders keep it, none of them releasing it now, is fine.
LEMMA SparedStaysOK ==
  ASSUME NEW g \in Guests, GuestOK(g), Spared(g), torn \subseteq torn',
         \A w \in Workers : Holds(w, g) <=> Holds(w, g)',
         \A w \in Workers : HandsBack(w, g)' => HandsBack(w, g)
  PROVE  GuestOK(g)'
  <1>1. CASE guestState'[g] = guestState[g] /\ failures'[g] = failures[g]
    BY <1>1 DEF GuestOK
  <1>2. CASE guestState'[g] = "offline"
    BY <1>2 DEF GuestOK
  <1>3. CASE guestState[g] = "leased" /\ guestState'[g] = "reverting"
    BY <1>3 DEF GuestOK
  <1> QED
    BY <1>1, <1>2, <1>3 DEF Spared

\* Every step keeps every guest in order.
LEMMA PoolStep == PoolInv /\ [Next]_vars => \A g \in Guests : GuestOK(g)'
  <1> SUFFICES ASSUME PoolInv, [Next]_vars, NEW h \in Guests PROVE GuestOK(h)'
    OBVIOUS
  <1>a. LeaseInv /\ TypeInv /\ TypeOK /\ LeaseExclusive /\ GuestOK(h)
    BY DEF PoolInv, LeaseInv, TypeInv
  <1>b. ASSUME torn \subseteq torn',
               \A w \in Workers : Holds(w, h) <=> Holds(w, h)',
               \A w \in Workers : HandsBack(w, h)' => HandsBack(w, h),
               \/ \E p \in Platforms : AcquireNothing(p)
               \/ \E g \in Guests \ {h}, s \in BOOLEAN : Release(g, s)
               \/ \E g \in Guests \ {h} : MarkReverted(g)
               \/ \E g \in Guests : MarkOffline(g)
               \/ \E g \in Guests : LeaseTimesOut(g)
               \/ UNCHANGED poolVars
        PROVE  GuestOK(h)'
    BY <1>a, <1>b, OthersSpared, SparedStaysOK
  <1> USE DEF RunPhases, TeardownPhases, Holds, HandsBack
  <1>1. CASE ClientStep
    BY <1>1, <1>b DEF ClientStep, managerVars, workerVars, environmentVars
  <1>2. CASE LeaseStep
    BY <1>2, <1>b DEF LeaseStep, managerVars, workerVars, environmentVars
  <1>3. ASSUME NEW g \in Guests, OperatorDisables(g)
        PROVE  GuestOK(h)'
    BY <1>3, <1>b DEF OperatorDisables, workerVars
  <1>4. ASSUME NEW g \in Guests, OperatorRestores(g)
        PROVE  GuestOK(h)'
    <2>1. CASE g = h
      <3>1. guestState'[h] = "idle" /\ failures'[h] = 0
        BY <1>4, <1>a, <2>1 DEF OperatorRestores, RestoreToService, TypeOK, PoolTypeOK
      <3>2. \A w \in Workers : ~Holds(w, h)'
        BY <1>4, <2>1 DEF OperatorRestores, workerVars
      <3> QED
        BY <3>1, <3>2 DEF GuestOK
    <2>2. CASE g # h
      <3>1. Spared(h)
        BY <1>4, <1>a, <2>2, OthersSpared DEF OperatorRestores
      <3> QED
        BY <1>4, <1>a, <3>1, SparedStaysOK DEF OperatorRestores, workerVars, environmentVars
    <2> QED
      BY <2>1, <2>2
  <1>5. ASSUME NEW w \in Workers, NEW g \in Guests, AcquireGuest(w, g)
        PROVE  GuestOK(h)'
    <2>1. guestState[g] = "idle" /\ torn' = torn
      BY <1>5 DEF AcquireGuest, Acquire, IdleGuests, IsAvailable, environmentVars
    <2>2. \A v \in Workers : ~Holds(v, g)
      BY <1>a, <2>1 DEF LeaseExclusive
    <2>3. /\ pc'[w] = "building" /\ guest'[w] = g
          /\ ~Holds(w, h)
          /\ \A v \in Workers \ {w} : /\ Holds(v, h)' <=> Holds(v, h)
                                      /\ HandsBack(v, h)' <=> HandsBack(v, h)
      BY <1>5, <1>a DEF AcquireGuest, Goto, TypeOK
    <2>4. CASE g = h
      <3>1. guestState'[h] = "leased" /\ failures'[h] = failures[h]
        BY <1>5, <1>a, <2>1, <2>4 DEF AcquireGuest, Acquire, Abandoned, TypeOK, PoolTypeOK
      <3>2. Holds(w, h)'
        BY <2>3, <2>4
      <3>3. \A v \in Workers : ~HandsBack(v, h)'
        BY <2>2, <2>3, <2>4
      <3> QED
        BY <1>a, <2>1, <2>4, <3>1, <3>2, <3>3 DEF GuestOK
    <2>5. CASE g # h
      <3>1. Spared(h)
        BY <1>5, <1>a, <2>5, OthersSpared, WorkerTyped DEF AcquireGuest
      <3>2. ~Holds(w, h)'
        BY <2>3, <2>5
      <3> QED
        BY <1>a, <2>1, <2>3, <3>1, <3>2, SparedStaysOK
    <2> QED
      BY <2>4, <2>5
  <1>6. ASSUME NEW w \in Workers, LookAtPool(w)
        PROVE  GuestOK(h)'
    BY <1>6, <1>a, <1>b DEF LookAtPool, Goto, TypeOK, environmentVars
  <1>7. ASSUME NEW w \in Workers, NEW j \in Jobs, TakeNext(w, j)
        PROVE  GuestOK(h)'
    BY <1>7, <1>a, <1>b DEF TakeNext, Goto, TypeOK, environmentVars
  <1>8. ASSUME NEW w \in Workers, FindNoWork(w)
        PROVE  GuestOK(h)'
    BY <1>8, <1>a, <1>b DEF FindNoWork, Return, Goto, TypeOK, environmentVars
  <1>9. ASSUME NEW w \in Workers, FindNoGuest(w)
        PROVE  GuestOK(h)'
    BY <1>9, <1>a, <1>b, WorkerTyped DEF FindNoGuest, Return, Goto, TypeOK, environmentVars
  <1>10. ASSUME NEW w \in Workers, BuildController(w)
        PROVE  GuestOK(h)'
    BY <1>10, <1>a, <1>b DEF BuildController, Goto, TypeOK, environmentVars
  <1>11. ASSUME NEW w \in Workers, RestoreGuest(w)
        PROVE  GuestOK(h)'
    BY <1>11, <1>a, <1>b DEF RestoreGuest, Goto, TypeOK, environmentVars
  <1>12. ASSUME NEW w \in Workers, DropSample(w)
        PROVE  GuestOK(h)'
    BY <1>12, <1>a, <1>b DEF DropSample, Goto, TypeOK, environmentVars
  <1>13. ASSUME NEW w \in Workers, Detonate(w)
        PROVE  GuestOK(h)'
    BY <1>13, <1>a, <1>b DEF Detonate, Goto, TypeOK, environmentVars
  <1>14. ASSUME NEW w \in Workers, Collect(w)
        PROVE  GuestOK(h)'
    BY <1>14, <1>a, <1>b DEF Collect, Goto, TypeOK, environmentVars
  <1>15. ASSUME NEW w \in Workers, SaveReport(w)
        PROVE  GuestOK(h)'
    BY <1>15, <1>a, <1>b DEF SaveReport, TeardownStart, Goto, TypeOK, environmentVars
  <1>16. ASSUME NEW w \in Workers, RunFails(w)
        PROVE  GuestOK(h)'
    BY <1>16, <1>a, <1>b DEF RunFails, Fail, TeardownStart, Goto, TypeOK, environmentVars
  <1>17. ASSUME NEW w \in Workers, SaveFails(w)
        PROVE  GuestOK(h)'
    BY <1>17, <1>a, <1>b DEF SaveFails, Fail, TeardownStart, Goto, TypeOK, environmentVars
  <1>18. ASSUME NEW w \in Workers, StopGuest(w)
        PROVE  GuestOK(h)'
    BY <1>18, <1>a, <1>b DEF StopGuest, Goto, TypeOK, environmentVars
  <1>19. ASSUME NEW w \in Workers, ReleaseGuest(w)
        PROVE  GuestOK(h)'
    <2>1. /\ Release(guest[w], succeeded[w]) /\ torn' = torn
          /\ guest[w] \in Guests /\ succeeded[w] \in BOOLEAN /\ Holds(w, guest[w])
      BY <1>19, <1>a DEF ReleaseGuest, TypeInv, LocalsOK, TypeOK, environmentVars
    <2>2. \A v \in Workers : Holds(v, h)' <=> Holds(v, h)
      BY <1>19, <1>a DEF ReleaseGuest, Goto, TypeOK
    <2>3. CASE guest[w] = h
      <3>1. \/ guestState'[h] = "offline"
            \/ guestState'[h] = "reverting" /\ failures'[h] < MaxFailures
        BY <1>a, <2>1, <2>3 DEF Release, TypeOK, PoolTypeOK
      <3>2. Holds(w, h)'
        BY <2>1, <2>2, <2>3
      <3> QED
        BY <3>1, <3>2 DEF GuestOK
    <2>4. CASE guest[w] # h
      <3>1. \A v \in Workers : HandsBack(v, h)' => HandsBack(v, h)
        BY <1>19, <1>a, <2>4 DEF ReleaseGuest, Goto, TypeOK
      <3>2. Spared(h)
        BY <1>a, <2>1, <2>4, OthersSpared
      <3> QED
        BY <1>a, <2>1, <2>2, <3>1, <3>2, SparedStaysOK
    <2> QED
      BY <2>3, <2>4
  <1>20. ASSUME NEW w \in Workers, RevertGuest(w)
        PROVE  GuestOK(h)'
    BY <1>20, <1>a, <1>b DEF RevertGuest, Goto, TypeOK, environmentVars
  <1>21. ASSUME NEW w \in Workers, RevertFails(w) \/ ReturnGuest(w) \/ CancelTeardown(w)
        PROVE  GuestOK(h)'
    <2>1. Return(w) /\ guest[w] \in Guests /\ Holds(w, guest[w]) /\ torn \subseteq torn'
      BY <1>21, <1>a DEF RevertFails, ReturnGuest, CancelTeardown, TypeInv, LocalsOK,
                         environmentVars
    <2>2. \A v \in Workers : /\ HandsBack(v, h)' <=> v # w /\ HandsBack(v, h)
                             /\ Holds(v, h)' <=> v # w /\ Holds(v, h)
      BY <1>a, <2>1 DEF Return, Goto, TypeOK
    <2>3. CASE guest[w] # h
      <3>1. Spared(h)
        BY <1>21, <1>a, <2>1, <2>3, OthersSpared DEF RevertFails, ReturnGuest, CancelTeardown
      <3>2. ~Holds(w, h)
        BY <2>3
      <3> QED
        BY <1>a, <2>1, <2>2, <3>1, <3>2, SparedStaysOK
    <2>4. CASE guest[w] = h
      <3>1. \A v \in Workers : ~Holds(v, h)'
        BY <1>a, <2>1, <2>2, <2>4 DEF LeaseExclusive
      <3>2. CASE RevertFails(w)
        <4>1. guestState'[h] = "offline"
          BY <1>a, <2>1, <2>4, <3>2 DEF RevertFails, MarkOffline, TypeOK, PoolTypeOK
        <4> QED
          BY <3>1, <4>1 DEF GuestOK
      <3>3. CASE ReturnGuest(w)
        <4>1. HandsBack(w, h) /\ MarkReverted(h)
          BY <2>1, <2>4, <3>3 DEF ReturnGuest
        <4>2. \/ guestState'[h] = "offline"
              \/ guestState'[h] = "idle" /\ failures'[h] < MaxFailures
          BY <1>a, <4>1 DEF GuestOK, MarkReverted, TypeOK, PoolTypeOK
        <4> QED
          BY <3>1, <4>2 DEF GuestOK
      <3>4. CASE CancelTeardown(w)
        <4>1. h \in torn' /\ UNCHANGED <<guestState, failures>>
          BY <2>4, <3>4 DEF CancelTeardown, poolVars
        <4> QED
          BY <1>a, <3>1, <4>1 DEF GuestOK
      <3> QED
        BY <1>21, <3>2, <3>3, <3>4
    <2> QED
      BY <2>3, <2>4
  <1>22. ASSUME NEW w \in Workers, CancelRun(w)
        PROVE  GuestOK(h)'
    BY <1>22, <1>a, <1>b DEF CancelRun, TeardownStart, Goto, TypeOK
  <1>23. CASE UNCHANGED vars
    BY <1>23, <1>b DEF vars, managerVars, workerVars, environmentVars
  <1> QED
    BY <1>1, <1>2, <1>3, <1>4, <1>5, <1>6, <1>7, <1>8, <1>9, <1>10, <1>11, <1>12,
       <1>13, <1>14, <1>15, <1>16, <1>17, <1>18, <1>19, <1>20, <1>21, <1>22, <1>23
    DEF Next, Work, OperatorStep

\* The guests' invariant holds in every reachable state.
LEMMA PoolInvariant == Spec => []PoolInv
  <1>1. Init => PoolInv
    <2> SUFFICES ASSUME Init PROVE PoolInv
      OBVIOUS
    <2>1. TypeInv
      BY TypeInit
    <2>2. LeaseExclusive
      BY DEF Init, LeaseExclusive, Holds, RunPhases, TeardownPhases
    <2>3. \A g \in Guests : GuestOK(g)
      BY DEF Init, PoolInit, GuestOK, HandsBack, Holds, RunPhases, TeardownPhases
    <2> QED
      BY <2>1, <2>2, <2>3 DEF PoolInv, LeaseInv
  <1>2. PoolInv /\ [Next]_vars => PoolInv'
    BY TypeStep, LeaseExclusiveStep, PoolStep DEF PoolInv, LeaseInv
  <1> QED
    BY <1>1, <1>2, PTL DEF Spec

\* A guest in service has fewer failures in a row than the limit: the count a
\* reclaimed lease adds is looked at by the release of the run that lost it, and
\* only after that can the guest be handed back (pool.py release, mark_reverted).
THEOREM FailuresQuarantine == Spec => []QuarantineHolds
  <1>1. PoolInv => QuarantineHolds
    BY DEF PoolInv, GuestOK, QuarantineHolds
  <1> QED
    BY <1>1, PoolInvariant, PTL

\* A guest that is leased or being reverted has a run that will give it back, or
\* lost that run to a cancellation in the teardown (manager.py _teardown).
THEOREM GuestsAreNotLost == Spec => []NoLostGuest
  <1>1. PoolInv => NoLostGuest
    BY DEF PoolInv, GuestOK, NoLostGuest
  <1> QED
    BY <1>1, PoolInvariant, PTL

-----------------------------------------------------------------------------
(* Out of service until restored *)

\* The pool's operations leave an offline guest offline, except release() of that
\* guest and restore(), which also forgets its failures.
LEMMA StaysOffline ==
  ASSUME TypeOK, NEW g \in Guests, guestState[g] = "offline",
         \/ \E h \in Guests, p \in Platforms, j \in Jobs : Acquire(h, p, j)
         \/ \E p \in Platforms : AcquireNothing(p)
         \/ \E h \in Guests \ {g}, s \in BOOLEAN : Release(h, s)
         \/ \E h \in Guests : MarkReverted(h)
         \/ \E h \in Guests : MarkOffline(h)
         \/ \E h \in Guests : RestoreToService(h)
         \/ \E h \in Guests : LeaseTimesOut(h)
         \/ UNCHANGED poolVars
  PROVE  \/ guestState'[g] = "offline"
         \/ guestState'[g] = "idle" /\ failures'[g] = 0
  <1> USE DEF TypeOK, PoolTypeOK
  <1>1. ASSUME NEW h \in Guests, NEW p \in Platforms, NEW j \in Jobs, Acquire(h, p, j)
        PROVE  guestState'[g] = "offline"
    BY <1>1 DEF Acquire, Abandoned, IdleGuests, IsAvailable
  <1>2. ASSUME NEW p \in Platforms, AcquireNothing(p)
        PROVE  guestState'[g] = "offline"
    BY <1>2 DEF AcquireNothing, Abandoned
  <1>3. ASSUME NEW h \in Guests \ {g}, NEW s \in BOOLEAN, Release(h, s)
        PROVE  guestState'[g] = "offline"
    BY <1>3 DEF Release
  <1>4. ASSUME NEW h \in Guests, MarkReverted(h) \/ MarkOffline(h) \/ LeaseTimesOut(h)
        PROVE  guestState'[g] = "offline"
    BY <1>4 DEF MarkReverted, MarkOffline, LeaseTimesOut
  <1>5. ASSUME NEW h \in Guests, RestoreToService(h)
        PROVE  \/ guestState'[g] = "offline"
               \/ guestState'[g] = "idle" /\ failures'[g] = 0
    BY <1>5 DEF RestoreToService
  <1>6. CASE UNCHANGED poolVars
    BY <1>6 DEF poolVars
  <1> QED
    BY <1>1, <1>2, <1>3, <1>4, <1>5, <1>6

\* What a step does to the pool: it calls one of its operations, and release()
\* only on a guest that its run has not released yet.
LEMMA PoolEffect ==
  ASSUME TypeInv, [Next]_vars
  PROVE  \/ \E h \in Guests, p \in Platforms, j \in Jobs : Acquire(h, p, j)
         \/ \E p \in Platforms : AcquireNothing(p)
         \/ \E h \in Guests, s \in BOOLEAN : Unreleased(h) /\ Release(h, s)
         \/ \E h \in Guests : MarkReverted(h)
         \/ \E h \in Guests : MarkOffline(h)
         \/ \E h \in Guests : RestoreToService(h)
         \/ \E h \in Guests : LeaseTimesOut(h)
         \/ UNCHANGED poolVars
  <1> DEFINE Effect ==
         \/ \E h \in Guests, p \in Platforms, j \in Jobs : Acquire(h, p, j)
         \/ \E p \in Platforms : AcquireNothing(p)
         \/ \E h \in Guests, s \in BOOLEAN : Unreleased(h) /\ Release(h, s)
         \/ \E h \in Guests : MarkReverted(h)
         \/ \E h \in Guests : MarkOffline(h)
         \/ \E h \in Guests : RestoreToService(h)
         \/ \E h \in Guests : LeaseTimesOut(h)
         \/ UNCHANGED poolVars
  <1> SUFFICES Effect
    OBVIOUS
  <1>1. CASE ClientStep
    BY <1>1 DEF ClientStep
  <1>2. CASE LeaseStep
    BY <1>2 DEF LeaseStep
  <1>3. CASE OperatorStep
    BY <1>3 DEF OperatorStep, OperatorDisables, OperatorRestores
  <1>4. ASSUME NEW w \in Workers, NEW g \in Guests, AcquireGuest(w, g)
        PROVE  Effect
    BY <1>4, WorkerTyped DEF AcquireGuest
  <1>5. ASSUME NEW w \in Workers, NEW j \in Jobs, TakeNext(w, j)
        PROVE  Effect
    BY <1>5 DEF TakeNext
  <1>6. ASSUME NEW w \in Workers, FindNoGuest(w)
        PROVE  Effect
    BY <1>6, WorkerTyped DEF FindNoGuest
  <1>7. ASSUME NEW w \in Workers, ReleaseGuest(w)
        PROVE  Effect
    <2>1. guest[w] \in Guests /\ succeeded[w] \in BOOLEAN /\ Unreleased(guest[w])
      BY <1>7 DEF ReleaseGuest, TypeInv, TypeOK, LocalsOK, TeardownPhases, Unreleased, Holds
    <2> QED
      BY <1>7, <2>1 DEF ReleaseGuest
  <1>8. ASSUME NEW w \in Workers, RevertFails(w) \/ ReturnGuest(w)
        PROVE  Effect
    BY <1>8 DEF RevertFails, ReturnGuest, TypeInv, LocalsOK, TeardownPhases
  <1>9. ASSUME NEW w \in Workers,
               \/ LookAtPool(w) \/ FindNoWork(w) \/ BuildController(w) \/ RestoreGuest(w)
               \/ DropSample(w) \/ Detonate(w) \/ Collect(w) \/ SaveReport(w)
               \/ RunFails(w) \/ SaveFails(w) \/ StopGuest(w) \/ RevertGuest(w)
               \/ CancelRun(w) \/ CancelTeardown(w)
        PROVE  Effect
    BY <1>9 DEF LookAtPool, FindNoWork, BuildController, RestoreGuest, DropSample, Detonate,
                Collect, SaveReport, RunFails, SaveFails, Fail, StopGuest, RevertGuest,
                CancelRun, CancelTeardown
  <1>10. CASE UNCHANGED vars
    BY <1>10 DEF vars
  <1> HIDE DEF Effect
  <1> QED
    BY <1>1, <1>2, <1>3, <1>4, <1>5, <1>6, <1>7, <1>8, <1>9, <1>10 DEF Next, Work

\* A guest that is out of service, and that no run has yet to release, comes back
\* only through restore(): the late mark_reverted() of the run that had it does
\* not bring it back (pool.py mark_reverted, restore).
THEOREM OfflineStays == Spec => OfflineUntilRestored
  <1> DEFINE Stays == \A g \in Guests : guestState[g] = "offline" /\ ~Unreleased(g) =>
                         \/ guestState'[g] = "offline"
                         \/ guestState'[g] = "idle" /\ failures'[g] = 0
  <1>1. TypeInv /\ [Next]_vars => Stays
    BY PoolEffect, StaysOffline DEF TypeInv
  <1>2. Init => TypeInv
    BY TypeInit
  <1>3. TypeInv /\ [Next]_vars => TypeInv'
    BY TypeStep
  <1> QED
    BY <1>1, <1>2, <1>3, PTL DEF Spec, OfflineUntilRestored

-----------------------------------------------------------------------------
(* The jobs' way through the manager *)

\* Where a worker answers for its job.
Carrying == RunPhases \cup {"taken"}

Carried(j) == \E w \in Workers : Carries(w, j)

-----------------------------------------------------------------------------
(* The parts of the inductive invariant *)

\* A waiting job is queued and nobody answers for it.
WaitingOK == \A j \in pending : jobState[j] = "queued" /\ ~Carried(j)

\* Two workers never answer for one job.
OneCarrier ==
    \A v, w \in Workers :
        pc[v] \in Carrying /\ pc[w] \in Carrying /\ job[v] = job[w] => v = w

\* The state of a carried job says where its run is.
StateFits(w) ==
    /\ pc[w] = "taken" => jobState[job[w]] = "queued"
    /\ pc[w] = "building" => jobState[job[w]] = "assigned"
    /\ pc[w] \in {"restoring", "dropping"} => jobState[job[w]] = "preparing"
    /\ pc[w] = "detonating" => jobState[job[w]] = "running"
    /\ pc[w] = "collecting" => jobState[job[w]] = "collecting"
    /\ pc[w] = "saving" => jobState[job[w]] = "completed"

StateFollowsPhase == \A w \in Workers : StateFits(w)

\* A job in the completed list is completed for good.
CompletedOK == \A j \in completedJobs : jobState[j] = "completed" /\ ~Carried(j)

\* A job that neither waits nor is carried is over, and in the records.
FinishedOK ==
    \A j \in Jobs : Received(j) /\ j \notin pending /\ ~Carried(j) =>
        /\ jobState[j] \in TerminalStates
        /\ jobState[j] = "completed" => j \in completedJobs
        /\ jobState[j] = "failed" => j \in failedJobs

LifecycleOK == WaitingOK /\ OneCarrier /\ StateFollowsPhase /\ CompletedOK /\ FinishedOK

-----------------------------------------------------------------------------


\* What the invariant says of the job a worker answers for.
LEMMA CarrierState ==
  ASSUME TypeInv, LifecycleOK, NEW w \in Workers, pc[w] \in Carrying
  PROVE  /\ job[w] \in Jobs
         /\ jobState[job[w]] \in {"queued", "completed"} \cup ActiveStates
         /\ Carries(w, job[w])
         /\ job[w] \notin pending
         /\ job[w] \notin completedJobs
         /\ \A v \in Workers \ {w} : ~Carries(v, job[w])
  BY DEF TypeInv, LocalsOK, LifecycleOK, WaitingOK, OneCarrier, StateFollowsPhase,
         StateFits,
         CompletedOK, Carried, Carries, Carrying, RunPhases, ActiveStates

\* A step that leaves the jobs alone, in which every worker stays where it is,
\* restores its guest or answers for no job before and after, keeps them in order.
LEMMA QuietStep ==
  ASSUME LifecycleOK,
         UNCHANGED <<jobState, pending, completedJobs, failedJobs>>,
         \A w \in Workers :
             \/ pc'[w] = pc[w] /\ job'[w] = job[w]
             \/ pc[w] = "restoring" /\ pc'[w] = "dropping" /\ job'[w] = job[w]
             \/ pc[w] \notin Carrying /\ pc'[w] \notin Carrying
  PROVE  LifecycleOK'
  <1>1. \A w \in Workers : \A j : Carries(w, j)' <=> Carries(w, j)
    BY DEF Carries, Carrying, RunPhases
  <1>2. \A j : Carried(j)' <=> Carried(j)
    BY <1>1 DEF Carried
  <1>3. WaitingOK'
    BY <1>2 DEF LifecycleOK, WaitingOK
  <1>4. OneCarrier'
    BY DEF LifecycleOK, OneCarrier, Carrying, RunPhases
  <1>5. StateFollowsPhase'
    BY DEF LifecycleOK, StateFollowsPhase, StateFits, Carrying, RunPhases
  <1>6. CompletedOK'
    BY <1>2 DEF LifecycleOK, CompletedOK
  <1>7. FinishedOK'
    BY <1>2 DEF LifecycleOK, FinishedOK, Received
  <1> QED
    BY <1>3, <1>4, <1>5, <1>6, <1>7 DEF LifecycleOK

\* A run that moves on writes the state of the job it answers for, nobody else's.
LEMMA AdvanceStep ==
  ASSUME TypeInv, LifecycleOK, NEW w \in Workers, pc[w] \in Carrying,
         NEW phase, NEW s,
         \/ phase = "building" /\ s = "assigned"
         \/ phase = "restoring" /\ s = "preparing"
         \/ phase = "detonating" /\ s = "running"
         \/ phase = "collecting" /\ s = "collecting"
         \/ phase = "saving" /\ s = "completed",
         Goto(w, phase), job' = job, Transition(job[w], s),
         UNCHANGED <<completedJobs, failedJobs>>
  PROVE  LifecycleOK'
  <1>a. /\ job[w] \in Jobs
        /\ job[w] \notin pending
        /\ job[w] \notin completedJobs
        /\ Carries(w, job[w])
    BY CarrierState
  <1>b. /\ pc \in [Workers -> Phases]
        /\ jobState \in [Jobs -> JobStates]
        /\ pending \subseteq Jobs
        /\ completedJobs \subseteq Jobs
    BY DEF TypeInv, TypeOK, QueueTypeOK
  <1>c. /\ pc' = [pc EXCEPT ![w] = phase]
        /\ jobState' = [jobState EXCEPT ![job[w]] = s]
        /\ pending' = pending
        /\ phase \in Carrying
    BY DEF Goto, Transition, Carrying, RunPhases
  <1>d. \A v \in Workers : pc'[v] \in Carrying <=> pc[v] \in Carrying
    BY <1>b, <1>c
  <1>1. \A v \in Workers : \A j : Carries(v, j)' <=> Carries(v, j)
    BY <1>d DEF Carries, Carrying
  <1>2. \A j : Carried(j)' <=> Carried(j)
    BY <1>1 DEF Carried
  <1>3. \A j \in Jobs : j # job[w] => jobState'[j] = jobState[j]
    BY <1>b, <1>c
  <1>4. WaitingOK'
    BY <1>a, <1>b, <1>c, <1>2, <1>3 DEF LifecycleOK, WaitingOK
  <1>5. OneCarrier'
    BY <1>d DEF LifecycleOK, OneCarrier
  <1>6. StateFollowsPhase'
    <2> SUFFICES ASSUME NEW v \in Workers, pc'[v] \in Carrying
                 PROVE  StateFits(v)'
      BY DEF StateFollowsPhase, StateFits, Carrying, RunPhases
    <2>1. CASE v = w
      BY <1>a, <1>b, <1>c, <2>1 DEF StateFits
    <2>2. CASE v # w
      <3>1. pc'[v] = pc[v] /\ job[v] # job[w]
        BY <1>b, <1>c, <1>d, <2>2 DEF LifecycleOK, OneCarrier
      <3>2. job[v] \in Jobs /\ jobState'[job[v]] = jobState[job[v]]
        BY <1>3, <1>d, <3>1, CarrierState
      <3> QED
        BY <3>1, <3>2 DEF LifecycleOK, StateFollowsPhase, StateFits
    <2> QED
      BY <2>1, <2>2
  <1>7. CompletedOK'
    BY <1>a, <1>b, <1>2, <1>3 DEF LifecycleOK, CompletedOK
  <1>8. FinishedOK'
    <2>1. Carried(job[w])
      BY <1>a DEF Carried
    <2> QED
      BY <1>c, <1>2, <1>3, <2>1 DEF LifecycleOK, FinishedOK, Received
  <1> QED
    BY <1>4, <1>5, <1>6, <1>7, <1>8 DEF LifecycleOK

\* A worker that lets go of its job has put it back into the queue, or has ended
\* it and entered it in the records its end calls for.
LEMMA LetGoStep ==
  ASSUME TypeInv, LifecycleOK, NEW w \in Workers, pc[w] \in Carrying,
         pc'[w] \notin Carrying,
         \A v \in Workers \ {w} : pc'[v] = pc[v] /\ job'[v] = job[v],
         pending' \subseteq Jobs, completedJobs' \subseteq Jobs,
         \A j \in Jobs \ {job[w]} :
             /\ jobState'[j] = jobState[j]
             /\ j \in pending' <=> j \in pending
             /\ j \in completedJobs' <=> j \in completedJobs
             /\ j \in failedJobs => j \in failedJobs',
         \/ /\ jobState'[job[w]] = "queued"
            /\ job[w] \in pending' /\ job[w] \notin completedJobs'
         \/ /\ jobState'[job[w]] \in {"failed", "cancelled"}
            /\ job[w] \notin pending' /\ job[w] \notin completedJobs'
            /\ jobState'[job[w]] = "failed" => job[w] \in failedJobs'
         \/ /\ jobState'[job[w]] = "completed"
            /\ job[w] \notin pending' /\ job[w] \in completedJobs'
  PROVE  LifecycleOK'
  <1> PICK k \in Jobs : k = job[w]
    BY CarrierState
  <1>a. \A v \in Workers \ {w} : ~Carries(v, k)
    BY CarrierState
  <1>1. \A v \in Workers : \A j : Carries(v, j)' <=> v # w /\ Carries(v, j)
    BY DEF Carries, Carrying
  <1>2. \A j : j # k => (Carried(j)' <=> Carried(j))
    <2>1. \A j : j # k => ~Carries(w, j)
      BY DEF Carries
    <2> QED
      BY <1>1, <2>1 DEF Carried
  <1>3. ~Carried(k)'
    BY <1>a, <1>1 DEF Carried
  <1>4. WaitingOK'
    BY <1>2, <1>3 DEF LifecycleOK, WaitingOK
  <1>5. OneCarrier'
    BY DEF LifecycleOK, OneCarrier
  <1>6. StateFollowsPhase'
    <2> SUFFICES ASSUME NEW v \in Workers, pc'[v] \in Carrying
                 PROVE  StateFits(v)'
      BY DEF StateFollowsPhase, StateFits, Carrying, RunPhases
    <2>1. v # w /\ pc'[v] = pc[v] /\ job'[v] = job[v] /\ job[v] # job[w]
      BY DEF LifecycleOK, OneCarrier
    <2>2. job[v] \in Jobs /\ jobState'[job[v]] = jobState[job[v]]
      BY <2>1, CarrierState
    <2> QED
      BY <2>1, <2>2 DEF LifecycleOK, StateFollowsPhase, StateFits
  <1>7. CompletedOK'
    BY <1>2, <1>3 DEF LifecycleOK, CompletedOK
  <1>8. FinishedOK'
    BY <1>2, <1>3 DEF LifecycleOK, FinishedOK, Received, TerminalStates
  <1> QED
    BY <1>4, <1>5, <1>6, <1>7, <1>8 DEF LifecycleOK

\* A job taken from the queue is nobody else's.
LEMMA TakeStep ==
  ASSUME TypeInv, LifecycleOK, NEW w \in Workers, NEW j \in Jobs, TakeNext(w, j)
  PROVE  LifecycleOK'
  <1>a. /\ pc \in [Workers -> Phases]
        /\ job \in [Workers -> Jobs \cup {NoJob}]
        /\ pending \subseteq Jobs
        /\ completedJobs \subseteq Jobs
    BY DEF TypeInv, TypeOK, QueueTypeOK
  <1>b. /\ pc[w] = "looking"
        /\ pc' = [pc EXCEPT ![w] = "taken"]
        /\ job' = [job EXCEPT ![w] = j]
        /\ j \in pending
        /\ pending' = pending \ {j}
        /\ UNCHANGED <<jobState, completedJobs, failedJobs>>
    BY DEF TakeNext, NextFor, RemoveAll, Candidates, Goto
  <1>c. jobState[j] = "queued" /\ ~Carried(j)
    BY <1>b DEF LifecycleOK, WaitingOK
  <1>1. \A v \in Workers : \A k : Carries(v, k)' <=> Carries(v, k) \/ (v = w /\ k = j)
    BY <1>a, <1>b DEF Carries, RunPhases
  <1>2. \A k : Carried(k)' <=> Carried(k) \/ k = j
    BY <1>1 DEF Carried
  <1>3. WaitingOK'
    BY <1>b, <1>2 DEF LifecycleOK, WaitingOK
  <1>4. OneCarrier'
    <2>1. \A v \in Workers : v # w /\ pc[v] \in Carrying => job[v] # j
      BY <1>c DEF Carried, Carries, Carrying
    <2> QED
      BY <1>a, <1>b, <2>1 DEF LifecycleOK, OneCarrier
  <1>5. StateFollowsPhase'
    BY <1>a, <1>b, <1>c DEF LifecycleOK, StateFollowsPhase, StateFits
  <1>6. CompletedOK'
    BY <1>b, <1>c, <1>2 DEF LifecycleOK, CompletedOK
  <1>7. FinishedOK'
    BY <1>b, <1>2 DEF LifecycleOK, FinishedOK, Received
  <1> QED
    BY <1>3, <1>4, <1>5, <1>6, <1>7 DEF LifecycleOK

\* Submissions, cancellations and expiry touch waiting and new jobs only.
LEMMA ClientKeepsJobs ==
  ASSUME TypeInv, LifecycleOK, ClientStep
  PROVE  LifecycleOK'
  <1>a. /\ jobState \in [Jobs -> JobStates]
        /\ pending \subseteq Jobs
        /\ completedJobs \subseteq Jobs
    BY DEF TypeInv, TypeOK, QueueTypeOK
  <1>b. UNCHANGED <<pc, job, completedJobs, failedJobs>>
    BY DEF ClientStep, managerVars, workerVars, runVars
  <1>1. \A v \in Workers : \A j : Carries(v, j)' <=> Carries(v, j)
    BY <1>b DEF Carries
  <1>2. \A j : Carried(j)' <=> Carried(j)
    BY <1>1 DEF Carried
  <1>3. ASSUME NEW touched \in SUBSET Jobs,
               \A j \in Jobs \ touched : /\ jobState'[j] = jobState[j]
                                         /\ j \in pending' <=> j \in pending,
               \A j \in touched : ~Carried(j) /\ j \notin completedJobs,
               \A j \in touched :
                   \/ jobState'[j] = "queued" /\ j \in pending'
                   \/ jobState'[j] \in {"folded", "cancelled", "expired"} /\ j \notin pending',
               pending' \subseteq Jobs
        PROVE  LifecycleOK'
    <2>1. WaitingOK'
      BY <1>2, <1>3 DEF LifecycleOK, WaitingOK
    <2>2. OneCarrier'
      BY <1>b DEF LifecycleOK, OneCarrier
    <2>3. StateFollowsPhase'
      <3> SUFFICES ASSUME NEW v \in Workers, pc'[v] \in Carrying
                   PROVE  StateFits(v)'
        BY DEF StateFollowsPhase, StateFits, Carrying, RunPhases
      <3>1. job[v] \in Jobs /\ Carried(job[v])
        BY <1>b, CarrierState DEF Carried
      <3>2. jobState'[job[v]] = jobState[job[v]]
        BY <1>3, <3>1
      <3> QED
        BY <1>b, <3>2 DEF LifecycleOK, StateFollowsPhase, StateFits
    <2>4. CompletedOK'
      BY <1>a, <1>b, <1>2, <1>3 DEF LifecycleOK, CompletedOK
    <2>5. FinishedOK'
      BY <1>b, <1>2, <1>3 DEF LifecycleOK, FinishedOK, Received, TerminalStates
    <2> QED
      BY <2>1, <2>2, <2>3, <2>4, <2>5 DEF LifecycleOK
  <1>4. \A j \in pending : ~Carried(j) /\ j \notin completedJobs
    BY DEF LifecycleOK, WaitingOK, CompletedOK
  <1>5. \A j \in Jobs : jobState[j] = "absent" =>
            j \notin pending /\ ~Carried(j) /\ j \notin completedJobs
    BY CarrierState
    DEF LifecycleOK, WaitingOK, CompletedOK, Carried, Carries, Carrying, ActiveStates
  <1>6. ASSUME NEW j \in Jobs, NEW p \in SubmitPriorities, Submit(j, p)
        PROVE  LifecycleOK'
    <2>1. /\ jobState[j] = "absent"
          /\ \A k \in Jobs \ {j} : /\ jobState'[k] = jobState[k]
                                   /\ k \in pending' <=> k \in pending
          /\ \/ jobState'[j] = "queued" /\ j \in pending'
             \/ jobState'[j] = "folded" /\ j \notin pending'
          /\ pending' \subseteq Jobs
      BY <1>6, <1>a, <1>5 DEF Submit, Fold, Enqueue
    <2>2. {j} \in SUBSET Jobs /\ \A k \in {j} : ~Carried(k) /\ k \notin completedJobs
      BY <1>5, <2>1
    <2>3. \A k \in {j} : \/ jobState'[k] = "queued" /\ k \in pending'
                         \/ /\ jobState'[k] \in {"folded", "cancelled", "expired"}
                            /\ k \notin pending'
      BY <2>1
    <2> QED
      BY <1>3, <2>1, <2>2, <2>3
  <1>7. ASSUME NEW j \in Jobs, CancelPending(j)
        PROVE  LifecycleOK'
    <2>1. /\ j \in pending
          /\ \A k \in Jobs \ {j} : /\ jobState'[k] = jobState[k]
                                   /\ k \in pending' <=> k \in pending
          /\ jobState'[j] = "cancelled" /\ j \notin pending'
          /\ pending' \subseteq Jobs
      BY <1>7, <1>a DEF CancelPending, RemoveAll
    <2>2. {j} \in SUBSET Jobs /\ \A k \in {j} : ~Carried(k) /\ k \notin completedJobs
      BY <1>4, <2>1
    <2>3. \A k \in {j} : jobState'[k] = "cancelled" /\ k \notin pending'
      BY <2>1
    <2> QED
      BY <1>3, <2>1, <2>2, <2>3
  <1>8. ASSUME NEW cutoff \in 1..arrivals, ExpireOlderThan(cutoff)
        PROVE  LifecycleOK'
    <2> DEFINE expired == {j \in pending : submittedAt[j] <= cutoff}
    <2>1. /\ expired \in SUBSET Jobs
          /\ expired \subseteq pending
          /\ \A k \in Jobs \ expired : /\ jobState'[k] = jobState[k]
                                       /\ k \in pending' <=> k \in pending
          /\ \A k \in expired : jobState'[k] = "expired" /\ k \notin pending'
          /\ pending' \subseteq Jobs
      BY <1>8, <1>a DEF ExpireOlderThan, RemoveAll
    <2> HIDE DEF expired
    <2> QED
      BY <1>3, <1>4, <2>1
  <1>9. CASE AgeOldest
    BY <1>9, <1>b, QuietStep DEF AgeOldest
  <1> QED
    BY <1>6, <1>7, <1>8, <1>9 DEF ClientStep

\* The failure handler puts the job back or ends it as failed (manager.py
\* _handle_failure), and the worker goes on to the teardown.
LEMMA FailStep ==
  ASSUME TypeInv, TypeInv', LifecycleOK, NEW w \in Workers, pc[w] \in Carrying, Fail(w)
  PROVE  LifecycleOK'
  <1>a. job[w] \in Jobs /\ job[w] \notin pending /\ job[w] \notin completedJobs
    BY CarrierState
  <1>b. /\ pc \in [Workers -> Phases]
        /\ jobState \in [Jobs -> JobStates]
        /\ pending' \subseteq Jobs /\ completedJobs' \subseteq Jobs
    BY DEF TypeInv, TypeOK, QueueTypeOK
  <1>1. /\ pc'[w] \notin Carrying
        /\ \A v \in Workers \ {w} : pc'[v] = pc[v] /\ job'[v] = job[v]
        /\ completedJobs' = completedJobs
    BY <1>b DEF Fail, Goto, TeardownStart, Carrying, RunPhases
  <1>2. CASE Requeue(job[w]) /\ UNCHANGED failedJobs
    BY <1>a, <1>b, <1>1, <1>2, LetGoStep DEF Requeue
  <1>3. CASE Transition(job[w], "failed") /\ failedJobs' = failedJobs \cup {job[w]}
    BY <1>a, <1>b, <1>1, <1>3, LetGoStep DEF Transition
  <1> QED
    BY <1>2, <1>3 DEF Fail, HandleFailure

\* Every step keeps the jobs in order.
LEMMA LifecycleStep == TypeInv /\ LifecycleOK /\ [Next]_vars => LifecycleOK'
  <1> SUFFICES ASSUME TypeInv, LifecycleOK, [Next]_vars PROVE LifecycleOK'
    OBVIOUS
  <1>a. TypeInv'
    BY TypeStep
  <1>b. /\ pc \in [Workers -> Phases]
        /\ job \in [Workers -> Jobs \cup {NoJob}]
        /\ jobState \in [Jobs -> JobStates]
        /\ pending' \subseteq Jobs /\ completedJobs' \subseteq Jobs
    BY <1>a DEF TypeInv, TypeOK, QueueTypeOK
  <1> USE DEF Carrying, RunPhases
  <1>1. CASE ClientStep
    BY <1>1, ClientKeepsJobs
  <1>2. CASE LeaseStep
    BY <1>2, QuietStep DEF LeaseStep, queueVars, managerVars, workerVars, runVars
  <1>3. ASSUME NEW g \in Guests, OperatorDisables(g) \/ OperatorRestores(g)
        PROVE  LifecycleOK'
    BY <1>3, QuietStep DEF OperatorDisables, OperatorRestores, queueVars, workerVars, runVars
  <1>4. ASSUME NEW w \in Workers, LookAtPool(w)
        PROVE  LifecycleOK'
    BY <1>4, <1>b, QuietStep DEF LookAtPool, Goto, queueVars, runVars
  <1>5. ASSUME NEW w \in Workers, NEW j \in Jobs, TakeNext(w, j)
        PROVE  LifecycleOK'
    BY <1>5, TakeStep
  <1>6. ASSUME NEW w \in Workers, FindNoWork(w)
        PROVE  LifecycleOK'
    BY <1>6, <1>b, QuietStep DEF FindNoWork, Return, Goto, queueVars, runVars
  <1>7. ASSUME NEW w \in Workers, NEW g \in Guests, AcquireGuest(w, g)
        PROVE  LifecycleOK'
    BY <1>7, AdvanceStep DEF AcquireGuest
  <1>8. ASSUME NEW w \in Workers, FindNoGuest(w)
        PROVE  LifecycleOK'
    <2>1. /\ pc[w] = "taken" /\ pc'[w] = "idle"
          /\ \A v \in Workers \ {w} : pc'[v] = pc[v] /\ job'[v] = job[v]
          /\ UNCHANGED <<completedJobs, failedJobs>>
      BY <1>8, <1>b DEF FindNoGuest, Return, Goto, runVars
    <2>2. job[w] \in Jobs /\ job[w] \notin completedJobs
      BY <2>1, CarrierState
    <2>3. /\ jobState'[job[w]] = "queued" /\ job[w] \in pending'
          /\ \A j \in Jobs \ {job[w]} : /\ jobState'[j] = jobState[j]
                                        /\ j \in pending' <=> j \in pending
      BY <1>8, <1>b, <2>2 DEF FindNoGuest, Requeue
    <2> QED
      BY <1>b, <2>1, <2>2, <2>3, LetGoStep
  <1>9. ASSUME NEW w \in Workers, BuildController(w) \/ DropSample(w) \/ Detonate(w) \/ Collect(w)
        PROVE  LifecycleOK'
    BY <1>9, AdvanceStep DEF BuildController, DropSample, Detonate, Collect, runVars
  <1>10. ASSUME NEW w \in Workers, RestoreGuest(w)
        PROVE  LifecycleOK'
    BY <1>10, <1>b, QuietStep DEF RestoreGuest, Goto, queueVars, runVars
  <1>11. ASSUME NEW w \in Workers, SaveReport(w)
        PROVE  LifecycleOK'
    <2>1. /\ pc[w] = "saving" /\ pc'[w] \notin Carrying
          /\ \A v \in Workers \ {w} : pc'[v] = pc[v] /\ job'[v] = job[v]
          /\ completedJobs' = completedJobs \cup {job[w]}
          /\ UNCHANGED <<jobState, pending, failedJobs>>
      BY <1>11, <1>b DEF SaveReport, TeardownStart, Goto, queueVars
    <2>2. job[w] \in Jobs /\ job[w] \notin pending /\ jobState[job[w]] = "completed"
      BY <2>1, CarrierState DEF LifecycleOK, StateFollowsPhase, StateFits
    <2> QED
      BY <1>b, <2>1, <2>2, LetGoStep
  <1>12. ASSUME NEW w \in Workers, RunFails(w) \/ SaveFails(w)
        PROVE  LifecycleOK'
    BY <1>12, <1>a, FailStep DEF RunFails, SaveFails
  <1>13. ASSUME NEW w \in Workers, CancelRun(w)
        PROVE  LifecycleOK'
    <2>1. /\ pc[w] \in Carrying /\ pc'[w] \notin Carrying
          /\ \A v \in Workers \ {w} : pc'[v] = pc[v] /\ job'[v] = job[v]
          /\ Transition(job[w], "cancelled")
          /\ UNCHANGED <<completedJobs, failedJobs>>
      BY <1>13, <1>b DEF CancelRun, TeardownStart, Goto, runVars
    <2>2. job[w] \in Jobs /\ job[w] \notin pending /\ job[w] \notin completedJobs
      BY <2>1, CarrierState
    <2> QED
      BY <1>b, <2>1, <2>2, LetGoStep DEF Transition
  <1>14. ASSUME NEW w \in Workers, StopGuest(w) \/ ReleaseGuest(w) \/ RevertGuest(w)
        PROVE  LifecycleOK'
    BY <1>14, <1>b, QuietStep DEF StopGuest, ReleaseGuest, RevertGuest, Goto, queueVars, runVars
  <1>15. ASSUME NEW w \in Workers, RevertFails(w) \/ ReturnGuest(w) \/ CancelTeardown(w)
        PROVE  LifecycleOK'
    BY <1>15, <1>b, QuietStep
    DEF RevertFails, ReturnGuest, CancelTeardown, Return, Goto, queueVars, runVars
  <1>16. CASE UNCHANGED vars
    BY <1>16, QuietStep DEF vars, queueVars, managerVars, workerVars, runVars
  <1> QED
    BY <1>1, <1>2, <1>3, <1>4, <1>5, <1>6, <1>7, <1>8, <1>9, <1>10, <1>11, <1>12, <1>13,
       <1>14, <1>15, <1>16 DEF Next, Work, OperatorStep

-----------------------------------------------------------------------------
(* The deduplication index and the duplicate records *)

\* What a run writes into its job.
RunStates == ActiveStates \cup {"completed", "failed", "cancelled"}

\* What a step does to the queue: it calls one of its methods, and requeue() and
\* the transitions only for a job the worker answers for.
LEMMA QueueEffect ==
  ASSUME TypeInv, [Next]_vars
  PROVE  \/ \E j \in Jobs, p \in SubmitPriorities : Submit(j, p)
         \/ \E j \in Jobs : CancelPending(j)
         \/ \E cutoff \in 1..arrivals : ExpireOlderThan(cutoff)
         \/ \E w \in Workers, j \in Jobs : NextFor(seen[w], j)
         \/ \E w \in Workers : pc[w] \in Carrying /\ Requeue(job[w])
         \/ \E w \in Workers, s \in RunStates : pc[w] \in Carrying /\ Transition(job[w], s)
         \/ UNCHANGED <<jobState, pending, byHash, duplicates>>
  <1> DEFINE Effect ==
         \/ \E j \in Jobs, p \in SubmitPriorities : Submit(j, p)
         \/ \E j \in Jobs : CancelPending(j)
         \/ \E cutoff \in 1..arrivals : ExpireOlderThan(cutoff)
         \/ \E w \in Workers, j \in Jobs : NextFor(seen[w], j)
         \/ \E w \in Workers : pc[w] \in Carrying /\ Requeue(job[w])
         \/ \E w \in Workers, s \in RunStates : pc[w] \in Carrying /\ Transition(job[w], s)
         \/ UNCHANGED <<jobState, pending, byHash, duplicates>>
  <1> SUFFICES Effect
    OBVIOUS
  <1> USE DEF RunStates, ActiveStates, Carrying, RunPhases
  <1>1. CASE ClientStep
    BY <1>1 DEF ClientStep, AgeOldest
  <1>2. CASE LeaseStep \/ OperatorStep
    BY <1>2 DEF LeaseStep, OperatorStep, OperatorDisables, OperatorRestores, queueVars
  <1>3. ASSUME NEW w \in Workers, NEW j \in Jobs, TakeNext(w, j)
        PROVE  Effect
    BY <1>3 DEF TakeNext
  <1>4. ASSUME NEW w \in Workers, FindNoGuest(w)
        PROVE  Effect
    BY <1>4 DEF FindNoGuest
  <1>5. ASSUME NEW w \in Workers, NEW g \in Guests, AcquireGuest(w, g)
        PROVE  Effect
    BY <1>5 DEF AcquireGuest
  <1>6. ASSUME NEW w \in Workers, BuildController(w) \/ DropSample(w) \/ Detonate(w)
        PROVE  Effect
    BY <1>6 DEF BuildController, DropSample, Detonate
  <1>7. ASSUME NEW w \in Workers, Collect(w)
        PROVE  Effect
    BY <1>7 DEF Collect
  <1>8. ASSUME NEW w \in Workers, RunFails(w) \/ SaveFails(w)
        PROVE  Effect
    <2>1. pc[w] \in Carrying /\ HandleFailure(w)
      BY <1>8 DEF RunFails, SaveFails, Fail
    <2>2. Requeue(job[w]) \/ Transition(job[w], "failed")
      BY <2>1 DEF HandleFailure
    <2> QED
      BY <2>1, <2>2
  <1>9. ASSUME NEW w \in Workers, CancelRun(w)
        PROVE  Effect
    BY <1>9 DEF CancelRun
  <1>10. ASSUME NEW w \in Workers,
                \/ LookAtPool(w) \/ FindNoWork(w) \/ RestoreGuest(w) \/ SaveReport(w)
                \/ StopGuest(w) \/ ReleaseGuest(w) \/ RevertGuest(w) \/ RevertFails(w)
                \/ ReturnGuest(w) \/ CancelTeardown(w)
         PROVE  Effect
    BY <1>10 DEF LookAtPool, FindNoWork, RestoreGuest, SaveReport, StopGuest, ReleaseGuest,
                 RevertGuest, RevertFails, ReturnGuest, CancelTeardown, queueVars
  <1>11. CASE UNCHANGED vars
    BY <1>11 DEF vars, queueVars
  <1> HIDE DEF Effect
  <1> QED
    BY <1>1, <1>2, <1>3, <1>4, <1>5, <1>6, <1>7, <1>8, <1>9, <1>10, <1>11 DEF Next, Work

\* The index loses an entry with the job it points at, and gains only entries of
\* jobs that go into the list with them.
LEMMA IndexStep == TypeInv /\ HashIndexSound /\ [Next]_vars => HashIndexSound'
  <1> SUFFICES ASSUME TypeInv, HashIndexSound, [Next]_vars PROVE HashIndexSound'
    OBVIOUS
  <1>a. /\ byHash \in [Samples -> Jobs \cup {NoJob}]
        /\ pending \subseteq Jobs
    BY DEF TypeInv, TypeOK, QueueTypeOK
  <1> USE DEF HashIndexSound
  <1>1. ASSUME NEW j \in Jobs, NEW p \in SubmitPriorities, Submit(j, p)
        PROVE  HashIndexSound'
    BY <1>1, <1>a DEF Submit, Fold, Enqueue
  <1>2. ASSUME NEW gone \in SUBSET Jobs, RemoveAll(gone)
        PROVE  HashIndexSound'
    BY <1>2, <1>a DEF RemoveAll
  <1>3. ASSUME NEW j \in Jobs, CancelPending(j) \/ \E w \in Workers : NextFor(seen[w], j)
        PROVE  HashIndexSound'
    BY <1>2, <1>3 DEF CancelPending, NextFor
  <1>4. ASSUME NEW cutoff \in 1..arrivals, ExpireOlderThan(cutoff)
        PROVE  HashIndexSound'
    <2>1. {j \in pending : submittedAt[j] <= cutoff} \in SUBSET Jobs
      BY <1>a
    <2> QED
      BY <1>2, <1>4, <2>1 DEF ExpireOlderThan
  <1>5. ASSUME NEW w \in Workers, pc[w] \in Carrying, Requeue(job[w])
        PROVE  HashIndexSound'
    <2>1. job[w] \in Jobs
      BY <1>5 DEF TypeInv, LocalsOK, Carrying
    <2> QED
      BY <1>5, <1>a, <2>1 DEF Requeue
  <1>6. ASSUME NEW w \in Workers, NEW s, Transition(job[w], s)
        PROVE  HashIndexSound'
    BY <1>6 DEF Transition
  <1>7. CASE UNCHANGED <<jobState, pending, byHash, duplicates>>
    BY <1>7
  <1> QED
    BY <1>1, <1>3, <1>4, <1>5, <1>6, <1>7, QueueEffect

\* A duplicate is recorded once, on a job of its content that the manager has
\* taken responsibility for; a folded submission is recorded somewhere.
DuplicatesOK ==
    /\ \A k \in Jobs : \A j \in duplicates[k] :
           jobState[j] = "folded" /\ ShaOf[j] = ShaOf[k] /\ Received(k)
    /\ \A k, m \in Jobs : \A j \in duplicates[k] : j \in duplicates[m] => k = m
    /\ \A j \in Jobs : jobState[j] = "folded" => \E k \in Jobs : j \in duplicates[k]

\* Nothing but a fold makes or unmakes a duplicate.
LEMMA DuplicatesStep ==
  TypeInv /\ LifecycleOK /\ HashIndexSound /\ DuplicatesOK /\ [Next]_vars => DuplicatesOK'
  <1> SUFFICES ASSUME TypeInv, LifecycleOK, HashIndexSound, DuplicatesOK, [Next]_vars
               PROVE  DuplicatesOK'
    OBVIOUS
  <1>a. /\ jobState \in [Jobs -> JobStates]
        /\ byHash \in [Samples -> Jobs \cup {NoJob}]
        /\ pending \subseteq Jobs
        /\ duplicates \in [Jobs -> SUBSET Jobs]
    BY DEF TypeInv, TypeOK, QueueTypeOK
  <1>b. ASSUME UNCHANGED duplicates,
               \A j \in Jobs : jobState'[j] = "folded" <=> jobState[j] = "folded",
               \A j \in Jobs : jobState[j] \notin {"absent", "folded"} =>
                                   jobState'[j] \notin {"absent", "folded"}
        PROVE  DuplicatesOK'
    BY <1>a, <1>b DEF DuplicatesOK, Received
  <1>c. \A j \in pending : jobState[j] = "queued"
    BY DEF LifecycleOK, WaitingOK
  <1>1. ASSUME NEW j \in Jobs, NEW p \in SubmitPriorities, Fold(j, p)
        PROVE  DuplicatesOK'
    <2> PICK k \in Jobs : k = byHash[ShaOf[j]]
      BY <1>1, <1>a DEF Fold
    <2>1. /\ jobState[j] = "absent"
          /\ jobState' = [jobState EXCEPT ![j] = "folded"]
          /\ duplicates' = [duplicates EXCEPT ![k] = @ \cup {j}]
      BY <1>1 DEF Fold
    <2>2. jobState[k] = "queued" /\ ShaOf[k] = ShaOf[j]
      BY <1>c DEF HashIndexSound
    <2>b. /\ duplicates'[k] = duplicates[k] \cup {j}
          /\ \A m \in Jobs \ {k} : duplicates'[m] = duplicates[m]
      BY <1>a, <2>1
    <2>3. /\ \A m \in Jobs, i \in Jobs :
                i \in duplicates'[m] <=> i \in duplicates[m] \/ (m = k /\ i = j)
          /\ \A m \in Jobs : duplicates'[m] \subseteq Jobs
          /\ \A m \in Jobs : jobState'[m] = IF m = j THEN "folded" ELSE jobState[m]
          /\ \A m \in Jobs : j \notin duplicates[m]
      BY <1>a, <2>1, <2>b DEF DuplicatesOK
    <2>4. \A m \in Jobs : Received(m)' <=> Received(m)
      BY <2>1, <2>3 DEF Received
    <2>a. Received(k)
      BY <2>2 DEF Received
    <2>5. ASSUME NEW m \in Jobs, NEW i \in duplicates'[m]
          PROVE  jobState'[i] = "folded" /\ ShaOf[i] = ShaOf[m] /\ Received(m)'
      <3>1. CASE i \in duplicates[m]
        <4>1. i \in Jobs /\ jobState[i] = "folded" /\ ShaOf[i] = ShaOf[m] /\ Received(m)
          BY <1>a, <3>1 DEF DuplicatesOK
        <4> QED
          BY <2>3, <2>4, <4>1
      <3>2. CASE i \notin duplicates[m]
        <4>1. m = k /\ i = j
          BY <2>3, <3>2
        <4> QED
          BY <2>2, <2>3, <2>4, <2>a, <4>1
      <3> QED
        BY <3>1, <3>2
    <2>6. ASSUME NEW m \in Jobs, NEW n \in Jobs, NEW i \in duplicates'[m], i \in duplicates'[n]
          PROVE  m = n
      <3>1. CASE i = j
        BY <2>3, <2>6, <3>1
      <3>2. CASE i # j
        <4>1. i \in duplicates[m] /\ i \in duplicates[n]
          BY <2>3, <2>6, <3>2
        <4> QED
          BY <4>1 DEF DuplicatesOK
      <3> QED
        BY <3>1, <3>2
    <2>7. \A i \in Jobs : jobState'[i] = "folded" => \E m \in Jobs : i \in duplicates'[m]
      BY <1>a, <2>3 DEF DuplicatesOK
    <2> QED
      BY <2>5, <2>6, <2>7 DEF DuplicatesOK
  <1>2. ASSUME NEW j \in Jobs, NEW p \in SubmitPriorities, Enqueue(j, p)
        PROVE  DuplicatesOK'
    BY <1>2, <1>a, <1>b DEF Enqueue
  <1>3. ASSUME NEW j \in Jobs, CancelPending(j) \/ \E w \in Workers : NextFor(seen[w], j)
        PROVE  DuplicatesOK'
    BY <1>3, <1>a, <1>b, <1>c DEF CancelPending, NextFor, submissionVars
  <1>4. ASSUME NEW cutoff \in 1..arrivals, ExpireOlderThan(cutoff)
        PROVE  DuplicatesOK'
    BY <1>4, <1>a, <1>b, <1>c DEF ExpireOlderThan, submissionVars
  <1>5. ASSUME NEW w \in Workers, pc[w] \in Carrying, NEW s \in RunStates,
               Requeue(job[w]) \/ Transition(job[w], s)
        PROVE  DuplicatesOK'
    <2>1. job[w] \in Jobs /\ jobState[job[w]] \notin {"absent", "folded"}
      BY <1>5, CarrierState DEF ActiveStates
    <2> QED
      BY <1>5, <1>a, <1>b, <2>1
      DEF Requeue, Transition, submissionVars, RunStates, ActiveStates
  <1>6. CASE UNCHANGED <<jobState, pending, byHash, duplicates>>
    BY <1>6, <1>b
  <1>7. "failed" \in RunStates
    BY DEF RunStates
  <1> QED
    BY <1>1, <1>2, <1>3, <1>4, <1>5, <1>6, <1>7, QueueEffect DEF Submit

-----------------------------------------------------------------------------
(* Attempts and reports *)

\* A job in the queue has a run left: requeue() after a failed run asks for one,
\* and a job that lost the race for a guest had not used its attempt.
RunsOK ==
    /\ \A j \in Jobs : runs[j] <= attempts[j] /\ runs[j] <= MaxAttempts
    /\ \A j \in Jobs : jobState[j] = "absent" \/ j \in pending => runs[j] < MaxAttempts
    /\ \A w \in Workers : pc[w] = "taken" =>
           runs[job[w]] < MaxAttempts /\ runs[job[w]] < attempts[job[w]]

\* Only acquire() spends a run, and requeue() gives back none that was not left.
LEMMA RunsStep == TypeInv /\ LifecycleOK /\ RunsOK /\ [Next]_vars => RunsOK'
  <1> SUFFICES ASSUME TypeInv, LifecycleOK, RunsOK, [Next]_vars PROVE RunsOK'
    OBVIOUS
  <1>a. /\ jobState \in [Jobs -> JobStates]
        /\ pending \subseteq Jobs
        /\ pc \in [Workers -> Phases]
        /\ job \in [Workers -> Jobs \cup {NoJob}]
        /\ attempts \in [Jobs -> Nat]
        /\ runs \in [Jobs -> Nat]
    BY DEF TypeInv, TypeOK, QueueTypeOK
  <1>b. ASSUME UNCHANGED <<attempts, runs>>,
               \A w \in Workers : pc'[w] = "taken" => pc[w] = "taken" /\ job'[w] = job[w],
               \A j \in Jobs : jobState'[j] = "absent" \/ j \in pending' =>
                   jobState[j] = "absent" \/ j \in pending \/ runs[j] < MaxAttempts
        PROVE  RunsOK'
    BY <1>b DEF RunsOK
  <1>c. ASSUME UNCHANGED <<jobState, pending, attempts, runs>>,
               \A w \in Workers : pc'[w] = "taken" => pc[w] = "taken" /\ job'[w] = job[w]
        PROVE  RunsOK'
    BY <1>b, <1>c
  <1>d. ASSUME NEW w \in Workers, pc[w] \in Carrying, NEW s, s # "absent",
               Transition(job[w], s), UNCHANGED <<attempts, runs>>,
               \A v \in Workers : pc'[v] = "taken" => pc[v] = "taken" /\ job'[v] = job[v]
        PROVE  RunsOK'
    <2>1. job[w] \in Jobs
      BY <1>d, CarrierState
    <2>2. pending' = pending /\ \A j \in Jobs : jobState'[j] = "absent" => jobState[j] = "absent"
      BY <1>a, <1>d, <2>1 DEF Transition
    <2> QED
      BY <1>b, <1>d, <2>2
  <1>e. ASSUME NEW w \in Workers, pc[w] \in Carrying, runs[job[w]] < MaxAttempts,
               Requeue(job[w]), UNCHANGED <<attempts, runs>>,
               \A v \in Workers : pc'[v] = "taken" => pc[v] = "taken" /\ job'[v] = job[v]
        PROVE  RunsOK'
    <2>1. job[w] \in Jobs
      BY <1>e, CarrierState
    <2>2. \A j \in Jobs : jobState'[j] = "absent" \/ j \in pending' =>
              jobState[j] = "absent" \/ j \in pending \/ runs[j] < MaxAttempts
      BY <1>a, <1>e, <2>1 DEF Requeue
    <2> QED
      BY <1>b, <1>e, <2>2
  <1> USE DEF Carrying, RunPhases
  <1>1. CASE ClientStep
    <2>1. UNCHANGED <<pc, job, attempts, runs>>
      BY <1>1 DEF ClientStep, managerVars, workerVars, runVars
    <2>2. \A j \in pending : jobState[j] = "queued"
      BY DEF LifecycleOK, WaitingOK
    <2>3. \A j \in Jobs : jobState'[j] = "absent" \/ j \in pending' =>
              jobState[j] = "absent" \/ j \in pending
      BY <1>1, <1>a
      DEF ClientStep, Submit, Fold, Enqueue, CancelPending, ExpireOlderThan, RemoveAll, AgeOldest
    <2> QED
      BY <1>b, <2>1, <2>3
  <1>2. CASE LeaseStep
    BY <1>2, <1>c DEF LeaseStep, queueVars, managerVars, workerVars, runVars
  <1>3. ASSUME NEW g \in Guests, OperatorDisables(g) \/ OperatorRestores(g)
        PROVE  RunsOK'
    BY <1>3, <1>c DEF OperatorDisables, OperatorRestores, queueVars, workerVars, runVars
  <1>4. ASSUME NEW w \in Workers, LookAtPool(w)
        PROVE  RunsOK'
    BY <1>4, <1>a, <1>c DEF LookAtPool, Goto, queueVars, runVars
  <1>5. ASSUME NEW w \in Workers, NEW j \in Jobs, TakeNext(w, j)
        PROVE  RunsOK'
    <2>1. /\ j \in pending /\ pending' = pending \ {j}
          /\ UNCHANGED <<jobState, runs>>
          /\ attempts' = [attempts EXCEPT ![j] = @ + 1]
          /\ pc' = [pc EXCEPT ![w] = "taken"]
          /\ job' = [job EXCEPT ![w] = j]
      BY <1>5 DEF TakeNext, NextFor, RemoveAll, Candidates, Goto
    <2>2. runs[j] < MaxAttempts /\ runs[j] < attempts'[j]
      BY <1>a, <2>1 DEF RunsOK
    <2>3. \A k \in Jobs : attempts[k] <= attempts'[k]
      BY <1>a, <2>1
    <2>4. ASSUME NEW v \in Workers, pc'[v] = "taken"
          PROVE  runs'[job'[v]] < MaxAttempts /\ runs'[job'[v]] < attempts'[job'[v]]
      <3>1. CASE v = w
        BY <1>a, <2>1, <2>2, <3>1
      <3>2. CASE v # w
        <4>1. pc[v] = "taken" /\ job'[v] = job[v] /\ job[v] \in Jobs
          BY <1>a, <2>1, <2>4, <3>2, CarrierState
        <4>2. runs[job[v]] < MaxAttempts /\ runs[job[v]] < attempts[job[v]]
          BY <4>1 DEF RunsOK
        <4>3. attempts'[job[v]] \in Nat /\ attempts[job[v]] <= attempts'[job[v]]
          BY <1>a, <2>1, <2>3, <4>1
        <4> QED
          BY <1>a, <2>1, <4>1, <4>2, <4>3
      <3> QED
        BY <3>1, <3>2
    <2>5. \A k \in Jobs : runs'[k] <= attempts'[k] /\ runs'[k] <= MaxAttempts
      BY <1>a, <2>1 DEF RunsOK
    <2>6. \A k \in Jobs : jobState'[k] = "absent" \/ k \in pending' => runs'[k] < MaxAttempts
      BY <2>1 DEF RunsOK
    <2> QED
      BY <2>4, <2>5, <2>6 DEF RunsOK
  <1>6. ASSUME NEW w \in Workers, FindNoWork(w)
        PROVE  RunsOK'
    BY <1>6, <1>a, <1>c DEF FindNoWork, Return, Goto, queueVars, runVars
  <1>7. ASSUME NEW w \in Workers, NEW g \in Guests, AcquireGuest(w, g)
        PROVE  RunsOK'
    <2> PICK k \in Jobs : k = job[w]
      BY <1>7, CarrierState DEF AcquireGuest
    <2>1. /\ pc[w] = "taken"
          /\ pc' = [pc EXCEPT ![w] = "building"]
          /\ jobState' = [jobState EXCEPT ![k] = "assigned"]
          /\ runs' = [runs EXCEPT ![k] = @ + 1]
          /\ UNCHANGED <<job, pending, attempts>>
      BY <1>7 DEF AcquireGuest, Transition, Goto
    <2>2. runs[k] < MaxAttempts /\ runs[k] < attempts[k]
      BY <2>1 DEF RunsOK
    <2>3. k \notin pending /\ jobState'[k] # "absent"
      BY <1>a, <2>1, CarrierState
    <2>4. \A j \in Jobs \ {k} : runs'[j] = runs[j] /\ jobState'[j] = jobState[j]
      BY <1>a, <2>1
    <2>5. \A j \in Jobs : runs'[j] <= attempts'[j] /\ runs'[j] <= MaxAttempts
      BY <1>a, <2>1, <2>2 DEF RunsOK
    <2>6. \A j \in Jobs : jobState'[j] = "absent" \/ j \in pending' => runs'[j] < MaxAttempts
      BY <2>1, <2>3, <2>4 DEF RunsOK
    <2>7. ASSUME NEW v \in Workers, pc'[v] = "taken"
          PROVE  runs'[job'[v]] < MaxAttempts /\ runs'[job'[v]] < attempts'[job'[v]]
      <3>1. v # w /\ pc[v] = "taken"
        BY <1>a, <2>1, <2>7
      <3>2. job[v] \in Jobs \ {k}
        BY <2>1, <3>1, CarrierState DEF LifecycleOK, OneCarrier
      <3> QED
        BY <2>1, <2>4, <3>1, <3>2 DEF RunsOK
    <2> QED
      BY <2>5, <2>6, <2>7 DEF RunsOK
  <1>8. ASSUME NEW w \in Workers, FindNoGuest(w)
        PROVE  RunsOK'
    <2>1. runs[job[w]] < MaxAttempts
      BY <1>8 DEF FindNoGuest, RunsOK
    <2> QED
      BY <1>8, <1>a, <1>e, <2>1 DEF FindNoGuest, Return, Goto, runVars
  <1>9. ASSUME NEW w \in Workers, BuildController(w) \/ DropSample(w) \/ Detonate(w) \/ Collect(w)
        PROVE  RunsOK'
    BY <1>9, <1>a, <1>d DEF BuildController, DropSample, Detonate, Collect, Goto, runVars
  <1>10. ASSUME NEW w \in Workers, RestoreGuest(w)
        PROVE  RunsOK'
    BY <1>10, <1>a, <1>c DEF RestoreGuest, Goto, queueVars, runVars
  <1>11. ASSUME NEW w \in Workers, SaveReport(w)
        PROVE  RunsOK'
    BY <1>11, <1>a, <1>c DEF SaveReport, Goto, TeardownStart, queueVars
  <1>12. ASSUME NEW w \in Workers, RunFails(w) \/ SaveFails(w)
        PROVE  RunsOK'
    <2>1. /\ pc[w] \in Carrying /\ HandleFailure(w)
          /\ UNCHANGED <<attempts, runs>>
          /\ \A v \in Workers : pc'[v] = "taken" => pc[v] = "taken" /\ job'[v] = job[v]
      BY <1>12, <1>a DEF RunFails, SaveFails, Fail, Goto, TeardownStart
    <2>2. CASE attempts[job[w]] < MaxAttempts /\ Requeue(job[w])
      <3>1. job[w] \in Jobs
        BY <2>1, CarrierState
      <3>2. runs[job[w]] < MaxAttempts
        BY <1>a, <2>2, <3>1 DEF RunsOK
      <3> QED
        BY <1>e, <2>1, <2>2, <3>2
    <2>3. CASE Transition(job[w], "failed")
      BY <1>d, <2>1, <2>3
    <2> QED
      BY <2>1, <2>2, <2>3 DEF HandleFailure
  <1>13. ASSUME NEW w \in Workers, CancelRun(w)
        PROVE  RunsOK'
    BY <1>13, <1>a, <1>d DEF CancelRun, Goto, TeardownStart, runVars
  <1>14. ASSUME NEW w \in Workers, StopGuest(w) \/ ReleaseGuest(w) \/ RevertGuest(w)
        PROVE  RunsOK'
    BY <1>14, <1>a, <1>c DEF StopGuest, ReleaseGuest, RevertGuest, Goto, queueVars, runVars
  <1>15. ASSUME NEW w \in Workers, RevertFails(w) \/ ReturnGuest(w) \/ CancelTeardown(w)
        PROVE  RunsOK'
    BY <1>15, <1>a, <1>c
    DEF RevertFails, ReturnGuest, CancelTeardown, Return, Goto, queueVars, runVars
  <1>16. CASE UNCHANGED vars
    BY <1>16, <1>c DEF vars, queueVars, managerVars, workerVars, runVars
  <1> QED
    BY <1>1, <1>2, <1>3, <1>4, <1>5, <1>6, <1>7, <1>8, <1>9, <1>10, <1>11, <1>12, <1>13,
       <1>14, <1>15, <1>16 DEF Next, Work, OperatorStep

\* A completed job's report is stored, and the run index has a stored report for
\* every content that has a completed job.
ReportsOK ==
    /\ completedJobs \subseteq saved
    /\ \A j \in completedJobs : index[ShaOf[j]] # NoJob
    /\ \A s \in Samples : index[s] # NoJob => index[s] \in saved /\ ShaOf[index[s]] = s

\* save() writes the document, the index and the completed list; a save that
\* fails in between leaves a document more and no index entry less.
LEMMA ReportsStep == TypeInv /\ ReportsOK /\ [Next]_vars => ReportsOK'
  <1> SUFFICES ASSUME TypeInv, ReportsOK, [Next]_vars PROVE ReportsOK'
    OBVIOUS
  <1>a. /\ index \in [Samples -> Jobs \cup {NoJob}]
        /\ saved \subseteq Jobs
        /\ completedJobs \subseteq Jobs
    BY DEF TypeInv, TypeOK
  <1>b. ASSUME saved \subseteq saved', UNCHANGED <<index, completedJobs>>
        PROVE  ReportsOK'
    BY <1>b DEF ReportsOK
  <1>1. CASE ClientStep \/ LeaseStep \/ OperatorStep
    BY <1>1, <1>b
    DEF ClientStep, LeaseStep, OperatorStep, OperatorDisables, OperatorRestores, managerVars, runVars
  <1>2. ASSUME NEW w \in Workers, NEW j \in Jobs, TakeNext(w, j)
        PROVE  ReportsOK'
    BY <1>2, <1>b DEF TakeNext
  <1>3. ASSUME NEW w \in Workers, NEW g \in Guests, AcquireGuest(w, g)
        PROVE  ReportsOK'
    BY <1>3, <1>b DEF AcquireGuest
  <1>4. ASSUME NEW w \in Workers, SaveReport(w)
        PROVE  ReportsOK'
    <2>1. job[w] \in Jobs
      BY <1>4 DEF SaveReport, TypeInv, LocalsOK, RunPhases
    <2>2. /\ saved' = saved \cup {job[w]}
          /\ index' = [index EXCEPT ![ShaOf[job[w]]] = job[w]]
          /\ completedJobs' = completedJobs \cup {job[w]}
      BY <1>4 DEF SaveReport
    <2> QED
      BY <1>a, <2>1, <2>2 DEF ReportsOK
  <1>5. ASSUME NEW w \in Workers, RunFails(w) \/ SaveFails(w)
        PROVE  ReportsOK'
    BY <1>5, <1>b DEF RunFails, SaveFails, Fail
  <1>6. ASSUME NEW w \in Workers,
               \/ LookAtPool(w) \/ FindNoWork(w) \/ FindNoGuest(w) \/ BuildController(w)
               \/ RestoreGuest(w) \/ DropSample(w) \/ Detonate(w) \/ Collect(w)
               \/ StopGuest(w) \/ ReleaseGuest(w) \/ RevertGuest(w) \/ RevertFails(w)
               \/ ReturnGuest(w) \/ CancelRun(w) \/ CancelTeardown(w)
        PROVE  ReportsOK'
    BY <1>6, <1>b DEF LookAtPool, FindNoWork, FindNoGuest, BuildController, RestoreGuest,
                      DropSample, Detonate, Collect, StopGuest, ReleaseGuest, RevertGuest,
                      RevertFails, ReturnGuest, CancelRun, CancelTeardown, runVars
  <1>7. CASE UNCHANGED vars
    BY <1>7, <1>b DEF vars, managerVars, runVars
  <1> QED
    BY <1>1, <1>2, <1>3, <1>4, <1>5, <1>6, <1>7 DEF Next, Work

-----------------------------------------------------------------------------
(* The theorems *)

\* The inductive invariant of the jobs.
JobInv ==
    /\ TypeInv
    /\ LifecycleOK
    /\ HashIndexSound
    /\ DuplicatesOK
    /\ RunsOK
    /\ ReportsOK

\* It holds in every reachable state.
LEMMA JobInvariant == Spec => []JobInv
  <1>1. Init => JobInv
    <2> SUFFICES ASSUME Init PROVE JobInv
      OBVIOUS
    <2>1. TypeInv
      BY TypeInit
    <2>2. LifecycleOK
      BY DEF Init, QueueInit, LifecycleOK, WaitingOK, OneCarrier, StateFollowsPhase, StateFits,
             CompletedOK, FinishedOK, Received, Carrying, RunPhases
    <2>3. HashIndexSound
      BY DEF Init, QueueInit, HashIndexSound
    <2>4. DuplicatesOK
      BY DEF Init, QueueInit, DuplicatesOK
    <2>5. RunsOK
      BY DEF Init, QueueInit, RunsOK
    <2>6. ReportsOK
      BY DEF Init, ReportsOK
    <2> QED
      BY <2>1, <2>2, <2>3, <2>4, <2>5, <2>6 DEF JobInv
  <1>2. JobInv /\ [Next]_vars => JobInv'
    BY TypeStep, LifecycleStep, IndexStep, DuplicatesStep, RunsStep, ReportsStep DEF JobInv
  <1> QED
    BY <1>1, <1>2, PTL DEF Spec

\* No received job is lost or in two places (queue.py, manager.py): it waits, or
\* one worker answers for it, or it is finished and in the records.
THEOREM JobsAreAccounted == Spec => []JobAccounted
  <1>1. JobInv => JobAccounted
    <2> SUFFICES ASSUME JobInv, NEW j \in Jobs, Received(j),
                        NEW carriers, carriers = {w \in Workers : Carries(w, j)}
                 PROVE  \/ j \in pending /\ jobState[j] = "queued" /\ carriers = {}
                        \/ j \notin pending /\ \E w \in Workers : carriers = {w}
                        \/ /\ j \notin pending
                           /\ carriers = {}
                           /\ jobState[j] \in TerminalStates
                           /\ jobState[j] = "completed" => j \in completedJobs
                           /\ jobState[j] = "failed" => j \in failedJobs
      BY DEF JobAccounted
    <2>1. CASE j \in pending
      BY <2>1 DEF JobInv, LifecycleOK, WaitingOK, Carried
    <2>2. CASE j \notin pending /\ ~Carried(j)
      BY <2>2 DEF JobInv, LifecycleOK, FinishedOK, Carried
    <2>3. CASE j \notin pending /\ Carried(j)
      <3>1. PICK w \in Workers : Carries(w, j)
        BY <2>3 DEF Carried
      <3>2. \A v \in Workers : Carries(v, j) => v = w
        BY <3>1 DEF JobInv, LifecycleOK, OneCarrier, Carries, Carrying
      <3>3. carriers = {w}
        BY <3>1, <3>2
      <3> QED
        BY <2>3, <3>3
    <2> QED
      BY <2>1, <2>2, <2>3
  <1> QED
    BY <1>1, JobInvariant, PTL

\* The deduplication index points at waiting jobs of that content (queue.py
\* _pending_by_hash), so no submission is folded into a job that is gone.
THEOREM IndexIsSound == Spec => []HashIndexSound
  <1>1. JobInv => HashIndexSound
    BY DEF JobInv
  <1> QED
    BY <1>1, JobInvariant, PTL

\* Every folded submission stays recorded on exactly one received job of the same
\* content (queue.py _record_duplicate), whatever becomes of that job.
THEOREM DuplicatesAreRecorded == Spec => []DuplicatesRecorded
  <1>1. JobInv => DuplicatesRecorded
    <2> SUFFICES ASSUME JobInv, NEW j \in Jobs, jobState[j] = "folded"
                 PROVE  \E k \in Jobs : /\ \A m \in Jobs : j \in duplicates[m] <=> m = k
                                        /\ ShaOf[k] = ShaOf[j]
                                        /\ Received(k)
      BY DEF DuplicatesRecorded
    <2>1. PICK k \in Jobs : j \in duplicates[k]
      BY DEF JobInv, DuplicatesOK
    <2>2. ShaOf[k] = ShaOf[j] /\ Received(k) /\ \A m \in Jobs : j \in duplicates[m] => m = k
      BY <2>1 DEF JobInv, DuplicatesOK
    <2> QED
      BY <2>1, <2>2
  <1> QED
    BY <1>1, JobInvariant, PTL

\* A job gets at most max_attempts guests (models.py can_retry), although a job
\* that lost the race for a guest is requeued without that test.
THEOREM RunsAreBounded == Spec => []RunsBounded
  <1>1. JobInv => RunsBounded
    BY DEF JobInv, RunsOK, RunsBounded
  <1> QED
    BY <1>1, JobInvariant, PTL

\* The report of a job in the completed list is stored, and its sample leads to a
\* stored report of that content (results.py save, find_by_hash).
THEOREM ReportsAreRetrievable == Spec => []ResultsRetrievable
  <1>1. JobInv => ResultsRetrievable
    <2> SUFFICES ASSUME JobInv, NEW j \in completedJobs
                 PROVE  /\ j \in saved
                        /\ index[ShaOf[j]] \in saved
                        /\ ShaOf[index[ShaOf[j]]] = ShaOf[j]
      BY DEF ResultsRetrievable
    <2>1. j \in Jobs /\ ShaOf[j] \in Samples
      BY DEF JobInv, TypeInv, TypeOK
    <2> QED
      BY <2>1 DEF JobInv, ReportsOK
  <1> QED
    BY <1>1, JobInvariant, PTL

\* A step changes the state of no job that is over: neither a late worker, nor a
\* requeue, nor a withdrawal reaches it (models.py transition).
LEMMA OverStaysOver ==
  ASSUME JobInv, [Next]_vars, NEW j \in Jobs,
         jobState[j] \in {"failed", "expired", "cancelled"} \/ j \in completedJobs
  PROVE  jobState'[j] = jobState[j]
  <1>a. TypeInv /\ LifecycleOK /\ jobState \in [Jobs -> JobStates] /\ pending \subseteq Jobs
    BY DEF JobInv, TypeInv, TypeOK, QueueTypeOK
  <1>b. j \notin pending /\ jobState[j] \notin {"absent", "queued"}
    BY <1>a DEF LifecycleOK, WaitingOK, CompletedOK
  <1>c. \A w \in Workers : pc[w] \in Carrying => job[w] \in Jobs /\ job[w] # j
    BY <1>a, CarrierState DEF ActiveStates
  <1>1. ASSUME NEW k \in Jobs, NEW p \in SubmitPriorities, Submit(k, p)
        PROVE  jobState'[j] = jobState[j]
    BY <1>a, <1>b, <1>1 DEF Submit, Fold, Enqueue
  <1>2. ASSUME NEW k \in Jobs, CancelPending(k) \/ \E w \in Workers : NextFor(seen[w], k)
        PROVE  jobState'[j] = jobState[j]
    BY <1>a, <1>b, <1>2 DEF CancelPending, NextFor
  <1>3. ASSUME NEW cutoff \in 1..arrivals, ExpireOlderThan(cutoff)
        PROVE  jobState'[j] = jobState[j]
    BY <1>a, <1>b, <1>3 DEF ExpireOlderThan
  <1>4. ASSUME NEW w \in Workers, pc[w] \in Carrying, Requeue(job[w])
        PROVE  jobState'[j] = jobState[j]
    BY <1>a, <1>c, <1>4 DEF Requeue
  <1>5. ASSUME NEW w \in Workers, pc[w] \in Carrying, NEW s \in RunStates, Transition(job[w], s)
        PROVE  jobState'[j] = jobState[j]
    BY <1>a, <1>c, <1>5 DEF Transition
  <1> QED
    BY <1>a, <1>1, <1>2, <1>3, <1>4, <1>5, QueueEffect

\* A job that failed, expired, was cancelled or is in the completed list keeps its
\* state through every later step.
THEOREM OverIsOver == Spec => FinishedStaysFinished
  <1>1. JobInv /\ [Next]_vars =>
            \A j \in Jobs :
                jobState[j] \in {"failed", "expired", "cancelled"} \/ j \in completedJobs
                    => jobState'[j] = jobState[j]
    BY OverStaysOver
  <1> QED
    BY <1>1, JobInvariant, PTL DEF Spec, FinishedStaysFinished

=============================================================================
