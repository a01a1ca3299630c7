--------------------------- MODULE StageOrchestrator ---------------------------
(***************************************************************************)
(* The stage orchestrator (dynamic-sandbox/stages/stage_orchestrator.py):  *)
(* one run of the pipeline for one sample, its ledger of stage results,    *)
(* and what the report (stage_report.py) concludes from it.                *)
(*                                                                         *)
(* The timer of a stage, an error of its action, the abort of an           *)
(* investigator and the cancellation of the task come between any two      *)
(* awaits.  The walk from one stage to the next has no await in it.        *)
(***************************************************************************)
EXTENDS StageActions, Sequences

CONSTANTS
    Cases,      \* the runs: the stages a profile enables, the gates of a sample
    MaxFaults,  \* bound: timeouts, errors and cancellations of stages
    MaxCounts   \* bound: stages whose events reach the events table in time

ASSUME OrchestratorAssumption ==
    /\ Cases \subseteq [enabled : SUBSET Stages, gates : SUBSET Gates]
    /\ MaxFaults \in Nat
    /\ MaxCounts \in Nat

VARIABLES
    profile,    \* PipelineProfile.enabled_stages
    supported,  \* the platform is one the stage configurations name
    next,       \* position of the running or the next stage in StageOrder
    results,    \* PipelineResult.stage_results
    completed,  \* PipelineResult.completed
    aborted,    \* PipelineResult.aborted
    reason,     \* PipelineResult.abort_reason
    hung,       \* a controller call of the running action will not return
    ledgerAtAbort,  \* the length of results when the abort was requested
    faults,     \* faults so far
    counts      \* stages whose events were counted so far

runVars == <<profile, supported, results, completed, aborted, reason>>
vars == <<sampleVars, at, stage, status, actionVars, contextVars, abortRequested, shown,
          runVars, next, hung, ledgerAtAbort, faults, counts>>

StageOrder == <<"boot", "idle", "user_interaction", "internet_simulation",
                "persistence_check", "reboot", "long_execution", "memory_dump">>
Index(s) == CHOOSE i \in 1..Len(StageOrder) : StageOrder[i] = s

\* Mutant of Required: only the stages that start the guest may end the run.
RequiredToBoot(s) == s \in {"boot", "reboot"}

\* Every stage configuration has required=True and no profile changes it.
Required(s) == TRUE

Evasions == {"interaction_gate", "network_gate", "reboot_gate", "time_delay", "in_memory_only"}
Reasons == {"none", "requested", "terminated", "required stage failed"}

\* Inside the wait_for() of _run_stage().
Executing == at \in ActionPhases

Init ==
    /\ \E c \in Cases : profile = c.enabled /\ gates = c.gates
    /\ up = FALSE
    /\ detonated = FALSE
    /\ running = FALSE
    /\ met = {}
    /\ at = "starting"
    /\ stage = NoStage
    /\ status = "running"
    /\ observed = FALSE
    /\ heard = FALSE
    /\ silence = 0
    /\ tick = 0
    /\ memoryFinding = FALSE
    /\ shared = {}
    /\ baseline = FALSE
    /\ persistence = FALSE
    /\ unlisted = {}
    /\ abortRequested = FALSE
    /\ shown = {}
    /\ supported \in BOOLEAN
    /\ next = 1
    /\ results = <<>>
    /\ completed = FALSE
    /\ aborted = FALSE
    /\ reason = "none"
    /\ hung = FALSE
    /\ ledgerAtAbort = 0
    /\ faults = 0
    /\ counts = 0

-----------------------------------------------------------------------------
(* The walk over StageOrder *)

\* The stage has a configuration under the profile, and it applies.
Runnable(i) == StageOrder[i] \in profile /\ supported

Skipped(i) == [stage |-> StageOrder[i], status |-> "skipped", active |-> FALSE, evasion |-> {}]

\* The results of the stages from i to j - 1, none of which is run.
Skips(i, j) == [k \in 1..(j - i) |-> Skipped(i + k - 1)]

\* The stage to run next, from position i on; one past the end if there is none.
FirstRunnable(i) ==
    LET candidates == {j \in i..Len(StageOrder) : Runnable(j)}
    IN  IF candidates = {} THEN Len(StageOrder) + 1
        ELSE CHOOSE j \in candidates : \A k \in candidates : j <= k

BeginStage(i, ledger) ==
    LET j == FirstRunnable(i) IN
    /\ results' = ledger \o Skips(i, j)
    /\ next' = j
    /\ IF j <= Len(StageOrder)
       THEN /\ stage' = StageOrder[j]
            /\ at' = "setup"
            /\ UNCHANGED completed
       ELSE /\ stage' = NoStage
            /\ at' = "ending"
            /\ completed' = TRUE
    /\ UNCHANGED <<aborted, reason>>

\* Mutant of StopForAbort: the generic reason replaces the investigator's.
StopForAbortClobbered(i, ledger) ==
    /\ results' = ledger
    /\ next' = i
    /\ aborted' = TRUE
    /\ reason' = "terminated"
    /\ stage' = NoStage
    /\ at' = "ending"
    /\ UNCHANGED completed

\* The top of the loop: an abort is noticed here, and only here.
StopForAbort(i, ledger) ==
    /\ results' = ledger
    /\ next' = i
    /\ aborted' = TRUE
    /\ reason' = IF reason = "none" THEN "terminated" ELSE reason
    /\ stage' = NoStage
    /\ at' = "ending"
    /\ UNCHANGED completed

\* Mutant of Walk: the abort flag is not looked at between stages.
WalkOnRegardless(i, ledger) ==
    /\ BeginStage(i, ledger)
    \* a new action for the stage
    /\ status' = "running"
    /\ observed' = FALSE
    /\ heard' = FALSE
    /\ silence' = 0
    /\ tick' = 0
    /\ memoryFinding' = FALSE

Walk(i, ledger) ==
    /\ IF abortRequested /\ i <= Len(StageOrder)
       THEN StopForAbort(i, ledger)
       ELSE BeginStage(i, ledger)
    \* a new action for the stage
    /\ status' = "running"
    /\ observed' = FALSE
    /\ heard' = FALSE
    /\ silence' = 0
    /\ tick' = 0
    /\ memoryFinding' = FALSE

\* After the pipeline_start marker.
Start ==
    /\ at = "starting"
    /\ Walk(1, results)
    /\ UNCHANGED <<sampleVars, contextVars, abortRequested, shown, profile, supported,
                   hung, ledgerAtAbort, faults, counts>>

-----------------------------------------------------------------------------
(* One stage *)

RunAction ==
    /\ ~hung
    /\ ExecuteAction
    /\ UNCHANGED <<runVars, next, hung, ledgerAtAbort, faults, counts>>

\* A controller call, in setup() or execute(), that will not return.
Hang ==
    /\ Executing
    /\ ~hung
    /\ faults < MaxFaults
    /\ hung' = TRUE
    /\ faults' = faults + 1
    /\ UNCHANGED <<sampleVars, at, stage, status, actionVars, contextVars, abortRequested,
                   shown, runVars, next, ledgerAtAbort, counts>>

\* Mutant of TimeOut: setup() is outside the wait_for().
TimeOutSparesSetup ==
    /\ Executing /\ at # "setup"
    /\ hung \/ faults < MaxFaults
    /\ at' = "teardown"
    /\ status' = "timed_out"
    /\ hung' = FALSE
    /\ faults' = IF hung THEN faults ELSE faults + 1
    /\ UNCHANGED <<sampleVars, stage, actionVars, contextVars, abortRequested, shown,
                   runVars, next, ledgerAtAbort, counts>>

\* The timer cancels the action wherever it is, hung or slow; what it had only in
\* local variables is lost.
TimeOut ==
    /\ Executing
    /\ hung \/ faults < MaxFaults
    /\ at' = "teardown"
    /\ status' = "timed_out"
    /\ hung' = FALSE
    /\ faults' = IF hung THEN faults ELSE faults + 1
    /\ UNCHANGED <<sampleVars, stage, actionVars, contextVars, abortRequested, shown,
                   runVars, next, ledgerAtAbort, counts>>

\* A controller call raised.
Fail ==
    /\ Executing
    /\ ~hung
    /\ faults < MaxFaults
    /\ at' = "teardown"
    /\ status' = "failed"
    /\ faults' = faults + 1
    /\ UNCHANGED <<sampleVars, stage, actionVars, contextVars, abortRequested, shown,
                   runVars, next, hung, ledgerAtAbort, counts>>

\* Mutant of Inferred: only the stage before this one is looked at.
InferredFromLast(active) ==
    LET prior == {i \in DOMAIN results : i = Len(results) /\ results[i].status = "completed"}
        wasDormant == prior # {} /\ \A i \in prior : ~results[i].active
        defeated ==
            CASE stage = "user_interaction" /\ wasDormant -> {"interaction_gate"}
              [] stage = "internet_simulation" /\ "network_gated" \in shared -> {"network_gate"}
              [] stage = "reboot"
                 /\ shared \cap {"reboot_gated", "persistence_survives_reboot"} # {}
                     -> {"reboot_gate"}
              [] stage = "long_execution" /\ "delayed_activation" \in shared -> {"time_delay"}
              [] stage = "memory_dump" /\ memoryFinding -> {"in_memory_only"}
              [] OTHER -> {}
    IN  IF active THEN defeated ELSE {}

\* Mutant of Inferred: a stage cut short counts against dormancy.
InferredFromAll(active) ==
    LET prior == DOMAIN results
        wasDormant == \A i \in prior : results[i].status = "completed" /\ ~results[i].active
        defeated ==
            CASE stage = "user_interaction" /\ wasDormant -> {"interaction_gate"}
              [] stage = "internet_simulation" /\ "network_gated" \in shared -> {"network_gate"}
              [] stage = "reboot"
                 /\ shared \cap {"reboot_gated", "persistence_survives_reboot"} # {}
                     -> {"reboot_gate"}
              [] stage = "long_execution" /\ "delayed_activation" \in shared -> {"time_delay"}
              [] stage = "memory_dump" /\ memoryFinding -> {"in_memory_only"}
              [] OTHER -> {}
    IN  IF active THEN defeated ELSE {}

\* _infer_evasion(), with the results before this stage's.
Inferred(active) ==
    LET prior == {i \in DOMAIN results : results[i].status = "completed"}
        wasDormant == prior # {} /\ \A i \in prior : ~results[i].active
        defeated ==
            CASE stage = "user_interaction" /\ wasDormant -> {"interaction_gate"}
              [] stage = "internet_simulation" /\ "network_gated" \in shared -> {"network_gate"}
              [] stage = "reboot"
                 /\ shared \cap {"reboot_gated", "persistence_survives_reboot"} # {}
                     -> {"reboot_gate"}
              [] stage = "long_execution" /\ "delayed_activation" \in shared -> {"time_delay"}
              [] stage = "memory_dump" /\ memoryFinding -> {"in_memory_only"}
              [] OTHER -> {}
    IN  IF active THEN defeated ELSE {}

\* The events table counts enough events in the stage's window.
Counted ==
    IF Awake /\ counts < MaxCounts THEN BOOLEAN ELSE {FALSE}

\* Mutant of StopForFailure: _current_stage is not cleared.
StopStillInStage(ledger) ==
    /\ results' = ledger
    /\ aborted' = TRUE
    /\ reason' = "required stage failed"
    /\ at' = "ending"
    /\ UNCHANGED <<stage, status, actionVars, next, completed>>

\* A required stage that failed ends the run, whatever was said before.
StopForFailure(ledger) ==
    /\ results' = ledger
    /\ aborted' = TRUE
    /\ reason' = "required stage failed"
    /\ stage' = NoStage
    /\ at' = "ending"
    /\ UNCHANGED <<status, actionVars, next, completed>>

\* teardown(), the result, and on to the next stage.
EndStage ==
    /\ at = "teardown"
    /\ \E counted \in Counted :
          LET active == observed \/ counted
              result == [stage |-> stage, status |-> status, active |-> active,
                         evasion |-> Inferred(active)]
          IN  /\ IF status = "failed" /\ Required(stage)
                 THEN StopForFailure(Append(results, result))
                 ELSE Walk(next + 1, Append(results, result))
              /\ counts' = IF counted THEN counts + 1 ELSE counts
    /\ UNCHANGED <<sampleVars, contextVars, abortRequested, shown, profile, supported,
                   hung, ledgerAtAbort, faults>>

\* The task is cancelled at an await: the run returns no result, and the stage it
\* was in, torn down or not, is in no ledger.
Cancel ==
    /\ at # "done"
    /\ faults < MaxFaults
    /\ faults' = faults + 1
    /\ at' = "done"
    /\ stage' = NoStage
    /\ hung' = FALSE
    /\ UNCHANGED <<sampleVars, status, actionVars, contextVars, abortRequested, shown,
                   runVars, next, ledgerAtAbort, counts>>

\* The finally block: the risk score and the pipeline_end marker.
End ==
    /\ at = "ending"
    /\ at' = "done"
    /\ UNCHANGED <<sampleVars, stage, status, actionVars, contextVars, abortRequested, shown,
                   runVars, next, hung, ledgerAtAbort, faults, counts>>

\* request_abort(), at any await of the run.
RequestAbort ==
    /\ ~abortRequested
    /\ at # "done"
    /\ abortRequested' = TRUE
    /\ reason' = "requested"
    /\ ledgerAtAbort' = Len(results)
    /\ UNCHANGED <<sampleVars, at, stage, status, actionVars, contextVars, shown, profile,
                   supported, next, results, completed, aborted, hung, faults, counts>>

\* A stalling sample's time is up.
Elapse ==
    /\ DelayPasses
    /\ UNCHANGED <<runVars, next, hung, ledgerAtAbort, faults, counts>>

Done == at = "done" /\ UNCHANGED vars

Next ==
    \/ Start \/ RunAction \/ Hang \/ TimeOut \/ Fail \/ EndStage \/ Cancel \/ End
    \/ RequestAbort \/ Elapse
    \/ Done

Spec == Init /\ [][Next]_vars

\* The event loop runs the orchestrator and its timers: an action goes on unless a
\* call of it hangs, and then its timer ends it.  Nobody owes an abort, an error or
\* a cancellation, and a sample may stall for ever.
FairSpec == Spec /\ WF_vars(Start \/ RunAction \/ TimeOut \/ EndStage \/ End)

-----------------------------------------------------------------------------
(* The report *)

\* PipelineResult.activation_stage: the first stage with activity.
ActiveAt == {i \in DOMAIN results : results[i].active}

\* _coverage_summary(): boot defeats no evasion class and is not looked at.
CompleteCoverage ==
    \A s \in Stages \ {"boot"} :
        \E i \in DOMAIN results : results[i].stage = s /\ results[i].status = "completed"

-----------------------------------------------------------------------------
(* Properties *)

StageResults == [stage : Stages,
                 status : {"skipped", "completed", "aborted", "timed_out", "failed"},
                 active : BOOLEAN, evasion : SUBSET Evasions]

\* Every variable has its type; a stage is current exactly while it runs.
TypeOK ==
    /\ ActionTypeOK
    /\ at \in ActionPhases \cup {"starting", "teardown", "ending", "done"}
    /\ (stage # NoStage) <=> (at \in ActionPhases \cup {"teardown"})
    /\ profile \subseteq Stages
    /\ supported \in BOOLEAN
    /\ next \in 1..(Len(StageOrder) + 1)
    /\ results \in Seq(StageResults)
    /\ completed \in BOOLEAN
    /\ aborted \in BOOLEAN
    /\ reason \in Reasons
    /\ hung \in BOOLEAN
    /\ hung => Executing
    /\ ledgerAtAbort \in 0..Len(StageOrder)
    /\ faults \in 0..MaxFaults
    /\ counts \in 0..MaxCounts

\* A stage reported as completed and dormant was shown no behaviour: a false
\* "dormant" reads as "clean" (stage_orchestrator.py:330-335).  The one exception
\* is the internet simulation, whose final summary replaces the halfway one: a
\* connection seen halfway is forgotten when the final query fails.
DormantIsQuiet ==
    \A i \in DOMAIN results :
        /\ results[i].status = "completed"
        /\ ~results[i].active
        /\ results[i].stage \in shown
        => results[i].stage = "internet_simulation"

\* The sample is said to wait for the user only if it was quiet before
\* (_infer_evasion): an earlier stage that was shown behaviour, or reported some,
\* can only be one that the timer cut short.
GateCreditedAfterQuiet ==
    \A i \in DOMAIN results : "interaction_gate" \in results[i].evasion =>
        \A k \in 1..(i - 1) :
            results[k].active \/ results[k].stage \in shown => results[k].status = "timed_out"

\* A sample that does wait for the user, and acts in the interaction stage after a
\* completed one, is found out: the gate is credited whatever cut other stages short,
\* unless the guest's own processes passed for its children at boot.
InteractionGateFound ==
    "interaction" \in gates /\ "boot" \notin unlisted =>
        \A i \in DOMAIN results :
            /\ results[i].stage = "user_interaction"
            /\ results[i].active
            /\ \E k \in 1..(i - 1) : results[k].status = "completed"
            => "interaction_gate" \in results[i].evasion

\* No activity is attributed to a stage before the one that opens the sample's
\* gates (test_stages.py, test_detects_reboot_gated_sample), except where a query of
\* before failed: without a baseline the guest's own autostart entries pass for the
\* sample's, without a process list its own processes do.
ActivationNotEarly ==
    \A i \in ActiveAt :
        /\ results[i].stage = "persistence_check" => baseline
        /\ results[i].stage \notin unlisted
        =>  /\ "interaction" \in gates => i >= Index("user_interaction")
            /\ "network" \in gates => i >= Index("internet_simulation")
            /\ "reboot" \in gates => i >= Index("reboot")

\* The ledger names every stage once and in order, skipped ones included; an
\* aborted or failed stage is the last of it; a run called completed went through
\* all of them with no failure, and is not called aborted.
LedgerFaithful ==
    /\ \A i \in DOMAIN results :
          /\ results[i].stage = StageOrder[i]
          /\ (results[i].status = "skipped") <=> ~Runnable(i)
          /\ results[i].status \in {"aborted", "failed"} => i = Len(results)
    /\ completed => /\ Len(results) = Len(StageOrder)
                    /\ \A i \in DOMAIN results : results[i].status # "failed"
                    /\ ~aborted

\* An abort lands: whatever the controller does, at most the stage that was
\* running is added to the ledger afterwards.
AbortLands == abortRequested => Len(results) <= ledgerAtAbort + 1

\* The reason an investigator gave stays on record (stage_orchestrator.py:127-132)
\* unless a required stage failed, and that reason is only given for one.
AbortExplained ==
    /\ abortRequested => reason \in {"requested", "required stage failed"}
    /\ aborted => reason # "none"
    /\ reason = "required stage failed" =>
          results # <<>> /\ results[Len(results)].status = "failed"

\* The pipeline ends although controller calls may hang, errors may happen and
\* samples may stall: the timers see to it.
PipelineEnds == <>(at = "done")

\* What test_stages.py:357 asks of the coverage section: "A partial run must never
\* read as full coverage."
FullCoverageIsWhole ==
    at = "done" /\ CompleteCoverage =>
        \A i \in DOMAIN results : results[i].status = "completed"
=============================================================================
