--------------------------- MODULE QueueUnderLoad ---------------------------
(***************************************************************************)
(* The job queue under an endless stream of submissions: one guest takes   *)
(* job after job and new ones keep arriving.  To keep the stream finite a  *)
(* finished job's identity is used again and the arrival numbers close     *)
(* ranks behind it; the queue only ever compares them.                     *)
(***************************************************************************)
EXTENDS JobQueue

Init == QueueInit

\* next_for(), and a run of the job that succeeds at once.
Dispatch(j) ==
    /\ j \in pending
    /\ \A k \in pending \ {j} : Precedes(j, k)
    /\ RemoveAll({j})
    /\ jobState' = [jobState EXCEPT ![j] = "completed"]
    /\ UNCHANGED submissionVars

\* The identity of a finished or folded job is free for a later submission.
Forget(j) ==
    LET gone == submittedAt[j]
        Closed(n) == IF 0 < gone /\ gone <= n THEN n - 1 ELSE n
    IN  /\ jobState[j] \in {"completed", "folded"}
        /\ jobState' = [jobState EXCEPT ![j] = "absent"]
        /\ submittedAt' = [k \in Jobs |-> IF k = j THEN 0 ELSE Closed(submittedAt[k])]
        /\ arrivals' = Closed(arrivals)
        /\ agedUpTo' = Closed(agedUpTo)
        /\ priority' = [priority EXCEPT ![j] = 0]
        /\ duplicates' = [k \in Jobs |-> IF k = j THEN {} ELSE duplicates[k] \ {j}]
        /\ UNCHANGED <<pending, byHash>>

Take == \E j \in Jobs : Dispatch(j)

Next ==
    \/ \E j \in Jobs, p \in SubmitPriorities : Submit(j, p)
    \/ Take
    \/ AgeOldest
    \/ \E j \in Jobs : Forget(j)

\* Guests keep becoming free and time passes; submitters owe nothing.
FairSpec == Init /\ [][Next]_queueVars /\ WF_queueVars(Take) /\ WF_queueVars(AgeOldest)

-----------------------------------------------------------------------------

\* The variables stay within their ranges while identities are reused.
TypeOK ==
    /\ QueueTypeOK
    /\ \A j, k \in pending : submittedAt[j] = submittedAt[k] => j = k
    /\ agedUpTo <= arrivals

\* A waiting job one level below the top or higher runs, whatever else arrives:
\* once aged it ties with the most urgent and came first (queue.py next_for).
UrgentDrains ==
    \A j \in Jobs :
        j \in pending /\ priority[j] >= Urgent - 1 ~> j \notin pending

\* queue.py: "Jobs therefore age ... so the queue drains under load instead of
\* stalling at the bottom": every waiting job runs.
BulkDrains == \A j \in Jobs : j \in pending ~> j \notin pending
=============================================================================
