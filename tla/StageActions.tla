----------------------------- MODULE StageActions -----------------------------
(***************************************************************************)
(* The eight stage actions of the dynamic-analysis pipeline                *)
(* (dynamic-sandbox/stages/stage_actions.py): what happens on the guest    *)
(* during a stage, and what the stage remembers of it.                     *)
(*                                                                         *)
(* A step is what an action does between two awaits that matter: the ones  *)
(* at which the stage's timer, an abort or an error can end it, and the    *)
(* sleeps in which it looks at the abort flag.  The guest is outside:      *)
(* asked about the sample it answers TRUE (behaviour) or FALSE, and        *)
(* TRUE only when a detonated sample has had every gate it waits for       *)
(* opened; a failed query answers FALSE, as the controllers' {} and [] do. *)
(* A query that is compared with an earlier one which failed is different: *)
(* whatever the guest runs by itself then passes for the sample's.         *)
(***************************************************************************)
EXTENDS Naturals

CONSTANTS
    Ticks,  \* bound: polls of the idle and long-execution stages
    Grace   \* early_exit_grace_sec, in ticks

ASSUME ActionsAssumption == Ticks \in Nat \ {0} /\ Grace \in Nat

Stages == {"boot", "idle", "user_interaction", "internet_simulation",
           "persistence_check", "reboot", "long_execution", "memory_dump"}
Gates == {"interaction", "network", "reboot", "delay"}
SharedFlags == {"network_gated", "persistence_survives_reboot", "reboot_gated",
                "delayed_activation"}
\* Where the action's own code is: setup(), then up to three parts of execute().
ActionPhases == {"setup", "run", "rest", "look"}
NoStage == "none"

VARIABLES
    gates,           \* what the sample waits for before it acts
    up,              \* the guest runs and its agent answers
    detonated,       \* the sample was executed since the snapshot restore
    running,         \* it still runs: a reboot may end it for good
    met,             \* the gates that have opened
    at,              \* where the pipeline is: an ActionPhase, or the orchestrator's
    stage,           \* StageOrchestrator._current_stage
    status,          \* result.status of that stage
    observed,        \* StageAction.activity_observed
    heard,           \* behaviour in the action's local variables, not yet in observed
    silence,         \* long execution: polls since dead_since, 0 when it is None
    tick,            \* polls so far
    memoryFinding,   \* a finding's title speaks of memory
    shared,          \* StageContext.shared
    baseline,        \* StageContext.baseline_state is not empty
    persistence,     \* StageContext.persistence_entries is not empty
    unlisted,        \* stages whose process list of before, pre_procs, is empty
    abortRequested,  \* StageContext.abort_requested
    shown            \* the stages in which an answer of the guest showed behaviour

sampleVars == <<gates, up, detonated, running, met>>
actionVars == <<observed, heard, silence, tick, memoryFinding>>
contextVars == <<shared, baseline, persistence, unlisted>>

ActionTypeOK ==
    /\ gates \subseteq Gates
    /\ up \in BOOLEAN
    /\ detonated \in BOOLEAN
    /\ running \in BOOLEAN
    /\ met \subseteq Gates
    /\ stage \in Stages \cup {NoStage}
    /\ status \in {"running", "completed", "aborted", "timed_out", "failed"}
    /\ observed \in BOOLEAN
    /\ heard \in BOOLEAN
    /\ silence \in 0..Ticks
    /\ tick \in 0..Ticks
    /\ memoryFinding \in BOOLEAN
    /\ shared \subseteq SharedFlags
    /\ baseline \in BOOLEAN
    /\ persistence \in BOOLEAN
    /\ unlisted \subseteq {"boot", "reboot"}
    /\ abortRequested \in BOOLEAN
    /\ shown \subseteq Stages

-----------------------------------------------------------------------------
(* The guest *)

\* Every gate of the sample has opened since it was detonated.
Awake == detonated /\ gates \subseteq met

\* What a query about the sample's behaviour can return.
Answers == IF Awake /\ up /\ running THEN BOOLEAN ELSE {FALSE}

\* The guest's answer, kept for the properties.
Shows(answer) == shown' = IF answer THEN shown \cup {stage} ELSE shown

\* The time a stalling sample waits for is over.
DelayPasses ==
    /\ detonated
    /\ "delay" \in gates \ met
    /\ met' = met \cup {"delay"}
    /\ UNCHANGED <<gates, up, detonated, running, at, stage, status, actionVars,
                   contextVars, abortRequested, shown>>

\* The processes that were not there before: without a list of before, all.
NewProcesses == IF stage \in unlisted THEN {FALSE, up} ELSE Answers

\* The list of processes of before, which may be refused.
ListProcesses ==
    \E listed \in {FALSE, up} :
        unlisted' = IF listed THEN unlisted ELSE unlisted \cup {stage}

-----------------------------------------------------------------------------
(* Steps common to the actions *)

In(s, phase) == stage = s /\ at = phase

\* execute() returned; _run_stage() notes whether the run was aborted meanwhile.
Return ==
    /\ at' = "teardown"
    /\ status' = IF abortRequested THEN "aborted" ELSE "completed"

Goto(phase) == at' = phase /\ UNCHANGED status

\* _sleep_interruptible() returned False and the action gives up.
GiveUp ==
    /\ abortRequested
    /\ Return
    /\ UNCHANGED <<sampleVars, stage, actionVars, contextVars, abortRequested, shown>>

\* Only the guest and the sample are touched.
OnGuest == UNCHANGED <<gates, stage, actionVars, contextVars, abortRequested, shown>>

\* The action listens: the sample is left alone.
Listening == UNCHANGED <<sampleVars, stage, abortRequested>>

-----------------------------------------------------------------------------
(* Stages 1 to 4 *)

\* restore_snapshot(), start_guest(), await_agent(): no result stops the stage.
BootSetup ==
    /\ In("boot", "setup")
    /\ up' \in BOOLEAN
    /\ detonated' = FALSE
    /\ running' = FALSE
    /\ met' = {}
    /\ Goto("run")
    /\ OnGuest

\* The baseline and the processes of before, drop_sample() and execute_sample():
\* each may be refused, and none of them stops the stage.
Detonate ==
    /\ In("boot", "run")
    /\ baseline' \in {FALSE, up}
    /\ ListProcesses
    /\ detonated' \in {FALSE, up}
    /\ running' = detonated'
    /\ Goto("look")
    /\ UNCHANGED <<gates, up, met, stage, actionVars, shared, persistence, abortRequested,
                   shown>>

\* The sleep is interruptible but its result is not looked at.
BootLook ==
    /\ In("boot", "look")
    /\ \E children \in NewProcesses : observed' = children /\ Shows(children)
    /\ Return
    /\ Listening
    /\ UNCHANGED <<heard, silence, tick, memoryFinding, contextVars>>

IdleSleep ==
    /\ In("idle", "run")
    /\ \/ GiveUp
       \/ /\ ~abortRequested
          /\ Goto("look")
          /\ Listening
          /\ UNCHANGED <<actionVars, contextVars, shown>>

\* Mutant of IdleLook: each poll's connections replace the earlier ones.
IdleLookKeepsLastPoll ==
    /\ In("idle", "look")
    /\ tick' = tick + 1
    /\ \E connections \in Answers : heard' = connections /\ Shows(connections)
    /\ IF tick' = Ticks
       THEN observed' = heard' /\ Return
       ELSE UNCHANGED observed /\ Goto("run")
    /\ Listening
    /\ UNCHANGED <<silence, memoryFinding, contextVars>>

\* Mutant of IdleLook: the end of the loop counts as activity, connections or not.
IdleLookAlwaysActive ==
    /\ In("idle", "look")
    /\ tick' = tick + 1
    /\ \E connections \in Answers : heard' = (heard \/ connections) /\ Shows(connections)
    /\ IF tick' = Ticks
       THEN observed' = TRUE /\ Return
       ELSE UNCHANGED observed /\ Goto("run")
    /\ Listening
    /\ UNCHANGED <<silence, memoryFinding, contextVars>>

\* The recent connections; only the end of the loop turns them into activity.
IdleLook ==
    /\ In("idle", "look")
    /\ tick' = tick + 1
    /\ \E connections \in Answers : heard' = (heard \/ connections) /\ Shows(connections)
    /\ IF tick' = Ticks
       THEN observed' = heard' /\ Return
       ELSE UNCHANGED observed /\ Goto("run")
    /\ Listening
    /\ UNCHANGED <<silence, memoryFinding, contextVars>>

\* Synthetic input, which the guest may refuse; refusals are swallowed.
UserInput ==
    /\ In("user_interaction", "run")
    /\ \/ GiveUp
       \/ /\ ~abortRequested
          /\ tick = 0
          /\ tick' = 1
          /\ met' \in {met} \cup (IF up THEN {met \cup {"interaction"}} ELSE {})
          /\ UNCHANGED <<gates, up, detonated, running, at, status, stage, observed,
                         heard, silence, memoryFinding, contextVars, abortRequested, shown>>
       \/ /\ ~abortRequested
          /\ tick = 1
          /\ Goto("look")
          /\ Listening
          /\ UNCHANGED <<actionVars, contextVars, shown>>

UserLook ==
    /\ In("user_interaction", "look")
    /\ \E events \in Answers : observed' = events /\ Shows(events)
    /\ Return
    /\ Listening
    /\ UNCHANGED <<heard, silence, tick, memoryFinding, contextVars>>

NetworkUp ==
    /\ In("internet_simulation", "setup")
    /\ met' = IF up THEN met \cup {"network"} ELSE met
    /\ Goto("run")
    /\ UNCHANGED <<up, detonated, running>>
    /\ OnGuest

\* The halfway summary; a silent sample gets more convincing responses.
NetworkHalfway ==
    /\ In("internet_simulation", "run")
    /\ \/ GiveUp
       \/ /\ ~abortRequested
          /\ \E connections \in Answers : heard' = connections /\ Shows(connections)
          /\ Goto("rest")
          /\ Listening
          /\ UNCHANGED <<observed, silence, tick, memoryFinding, contextVars>>

NetworkSleep ==
    /\ In("internet_simulation", "rest")
    /\ \/ GiveUp
       \/ /\ ~abortRequested
          /\ Goto("look")
          /\ Listening
          /\ UNCHANGED <<actionVars, contextVars, shown>>

\* The final summary replaces the halfway one.
NetworkLook ==
    /\ In("internet_simulation", "look")
    /\ \E connections \in Answers, queries \in Answers :
          /\ heard' = connections
          /\ observed' = (connections \/ queries)
          /\ shared' = IF connections THEN shared \cup {"network_gated"} ELSE shared
          /\ Shows(connections \/ queries)
    /\ Return
    /\ Listening
    /\ UNCHANGED <<silence, tick, memoryFinding, baseline, persistence, unlisted>>

-----------------------------------------------------------------------------
(* Stages 5 to 8 *)

\* Autostart entries of the guest itself pass for the sample's without a baseline.
Autostart == IF baseline THEN Answers ELSE {FALSE, up}

\* The diff against the baseline.
PersistenceDiff ==
    /\ In("persistence_check", "run")
    /\ \E entries \in Autostart :
          /\ persistence' = (persistence \/ entries)
          /\ observed' = entries
          /\ Shows(entries)
    /\ Return
    /\ Listening
    /\ UNCHANGED <<heard, silence, tick, memoryFinding, shared, baseline, unlisted>>

\* The processes of before, then graceful and forced; the agent may not come
\* back, which ends the stage, or come back for the first time.
Reboot ==
    /\ In("reboot", "run")
    /\ ListProcesses
    /\ \E rebooted, back \in BOOLEAN :
          /\ IF rebooted
             THEN met' = met \cup {"reboot"} /\ running' \in {FALSE, running}
             ELSE UNCHANGED <<met, running>>
          /\ up' = back
          /\ IF back THEN Goto("rest") ELSE Return
    /\ UNCHANGED <<gates, detonated, stage, actionVars, shared, baseline, persistence,
                   abortRequested, shown>>

\* The settling sleep.
RebootSettle ==
    /\ In("reboot", "rest")
    /\ tick = 0
    /\ \/ GiveUp
       \/ /\ ~abortRequested
          /\ Goto("look")
          /\ Listening
          /\ UNCHANGED <<actionVars, contextVars, shown>>

\* Which persistence entries fired (one without a name or a path matches any
\* process), and which processes are new.
RebootLook ==
    /\ In("reboot", "look")
    /\ \E fired \in {FALSE, persistence /\ up}, new \in NewProcesses :
          /\ observed' = (fired \/ new)
          /\ shared' = shared \cup (IF fired THEN {"persistence_survives_reboot"} ELSE {})
                              \cup (IF new THEN {"reboot_gated"} ELSE {})
          /\ Shows(fired \/ new)
    /\ tick' = 1
    /\ Goto("rest")
    /\ Listening
    /\ UNCHANGED <<heard, silence, memoryFinding, baseline, persistence, unlisted>>

\* The rest of the budget, interruptible.
RebootRest ==
    /\ In("reboot", "rest")
    /\ tick = 1
    /\ Return
    /\ Listening
    /\ UNCHANGED <<actionVars, contextVars, shown>>

LongSleep ==
    /\ In("long_execution", "run")
    /\ \/ GiveUp
       \/ /\ ~abortRequested
          /\ Goto("look")
          /\ Listening
          /\ UNCHANGED <<actionVars, contextVars, shown>>

\* One poll: activity after silence is delayed activation; a dead and silent
\* sample ends the stage early, and the periodic input may fall into this poll.
LongLook ==
    /\ In("long_execution", "look")
    /\ tick' = tick + 1
    /\ \E events \in Answers, nudged, alive \in BOOLEAN :
          /\ heard' = (heard \/ events)
          /\ Shows(events)
          /\ shared' = IF events /\ silence > 0
                       THEN shared \cup {"delayed_activation"} ELSE shared
          /\ silence' = IF events THEN 0 ELSE silence + 1
          /\ met' = IF nudged /\ up THEN met \cup {"interaction"} ELSE met
          /\ IF tick' = Ticks \/ (~alive /\ silence' > Grace + 1)
             THEN observed' = heard' /\ Return
             ELSE UNCHANGED observed /\ Goto("run")
    /\ UNCHANGED <<gates, up, detonated, running, stage, memoryFinding, baseline,
                   persistence, unlisted, abortRequested>>

\* The full and the per-process dumps: "Full memory dump captured".
DumpMemory ==
    /\ In("memory_dump", "run")
    /\ memoryFinding' \in {FALSE, up}
    /\ Goto("look")
    /\ Listening
    /\ UNCHANGED <<observed, heard, silence, tick, contextVars, shown>>

\* Extractions, volatility plugins and YARA: inventory is no activity, though its
\* findings speak of memory too.
ExamineMemory ==
    /\ In("memory_dump", "look")
    /\ \E evidence \in Answers : observed' = evidence /\ Shows(evidence)
    /\ memoryFinding' \in {memoryFinding, memoryFinding \/ up}
    /\ Return
    /\ Listening
    /\ UNCHANGED <<heard, silence, tick, contextVars>>

\* The other actions inherit a setup() that does nothing the model keeps.
PlainSetup ==
    /\ at = "setup"
    /\ stage \notin {"boot", "internet_simulation"}
    /\ Goto("run")
    /\ Listening
    /\ UNCHANGED <<actionVars, contextVars, shown>>

ExecuteAction ==
    \/ PlainSetup
    \/ BootSetup \/ Detonate \/ BootLook
    \/ IdleSleep \/ IdleLook
    \/ UserInput \/ UserLook
    \/ NetworkUp \/ NetworkHalfway \/ NetworkSleep \/ NetworkLook
    \/ PersistenceDiff
    \/ Reboot \/ RebootSettle \/ RebootLook \/ RebootRest
    \/ LongSleep \/ LongLook
    \/ DumpMemory \/ ExamineMemory
=============================================================================
