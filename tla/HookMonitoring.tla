---------------------------- MODULE HookMonitoring ----------------------------
(***************************************************************************)
(* API monitoring from end to end: a sample runs under the guest agent,    *)
(* the agent's batches reach the host over an ordered channel, and         *)
(* StageHookMonitor (hooks/stage_integration.py) feeds them to the hook    *)
(* engine call by call, for the stage the pipeline is in at that moment.   *)
(*                                                                         *)
(* Sample, agent timer, host and pipeline are concurrent.  ingest_batch()  *)
(* has no await: no stage begins or ends while a batch is being ingested.  *)
(***************************************************************************)
EXTENDS HookEngine, FiniteSets

CONSTANTS
    Programs,   \* platform -> what a sample may do: sequences of steps
    StageOrder  \* the stages the pipeline brackets with enter_stage/exit_stage

VARIABLES
    todo,         \* the steps the sample has not taken
    pending,      \* the calls of the received batch still to be ingested
    stage,        \* StageHookMonitor._current_stage
    startChains,  \* the chains there were when the stage was entered
    startCalls,   \* _stage_start_call_count
    rollups,      \* stage_rollups
    made,         \* history: the sample's calls, as they were
    logged        \* history: pid -> the calls the engine logged, as it decoded them

monitorVars == <<pending, stage, startChains, startCalls, rollups>>
historyVars == <<made, logged>>
vars == <<agentVars, engineVars, monitorVars, historyVars, todo>>

StageNames == {StageOrder[i] : i \in DOMAIN StageOrder}
NoStage == "none"

\* What the samples may do, step by step.
SampleSteps == UNION {{prog[i] : i \in DOMAIN prog} : prog \in UNION {Programs[p] : p \in Platforms}}

ASSUME SampleAssumption ==
    /\ \A p \in Platforms : Programs[p] \subseteq Seq(SampleSteps)
    /\ \A step \in SampleSteps : step.n \in Nat \ {0} /\ step.wait \in Nat
    /\ NoStage \notin StageNames

Init ==
    /\ AgentInit
    /\ EngineInit
    /\ todo \in Programs[platform]
    /\ pending = <<>>
    /\ stage = NoStage
    /\ startChains = {} /\ startCalls = 0
    /\ rollups = Empty
    /\ made = <<>>
    /\ logged = Empty

-----------------------------------------------------------------------------
(* The sample: external *)

SampleCalls ==
    /\ todo # <<>>
    /\ LET step == Head(todo)
       IN  /\ now' = now + step.wait
           /\ Observe(step)
           /\ made' = Append(made, [raw |-> step.raw, pid |-> step.pid, at |-> now',
                                    n |-> step.n, marks |-> step.shows,
                                    handle |-> step.handle])
    /\ todo' = Tail(todo)
    /\ UNCHANGED <<platform, engineVars, monitorVars, logged>>

TimerFires == FlushTimer /\ UNCHANGED <<engineVars, monitorVars, historyVars, todo>>

-----------------------------------------------------------------------------
(* StageHookMonitor *)

ReceiveBatch ==
    /\ pending = <<>>
    /\ channel # <<>>
    /\ pending' = Head(channel)
    /\ channel' = Tail(channel)
    /\ UNCHANGED <<platform, now, guestRate, batch, lastFlush, failedSends, engineVars,
                   stage, startChains, startCalls, rollups, historyVars, todo>>

\* One turn of the loop of ingest_batch().
IngestNext ==
    /\ pending # <<>>
    /\ LET call == Head(pending)
       IN  /\ Ingest(call, stage)
           /\ logged' = IF total' - suppressed' = total - suppressed THEN logged
                        ELSE Put(logged, call.pid, Append(At(logged, call.pid, <<>>),
                                                          Last(window'[call.pid])))
    /\ pending' = Tail(pending)
    /\ UNCHANGED <<agentVars, stage, startChains, startCalls, rollups, made, todo>>

\* Mutant of EnterStage: where the chains stood is not noted.
EnterStageUnmarked(s) ==
    /\ pending = <<>>
    /\ stage = NoStage
    /\ s \notin DOMAIN rollups
    /\ stage' = s
    /\ startCalls' = total
    /\ UNCHANGED <<agentVars, engineVars, pending, startChains, rollups, historyVars, todo>>

EnterStage(s) ==
    /\ pending = <<>>
    /\ stage = NoStage
    /\ s \notin DOMAIN rollups
    /\ \A i \in DOMAIN StageOrder :
          s = StageOrder[i] => \A j \in 1..(i - 1) : StageOrder[j] \in DOMAIN rollups
    /\ stage' = s
    /\ startChains' = chains
    /\ startCalls' = total
    /\ UNCHANGED <<agentVars, engineVars, pending, rollups, historyVars, todo>>

\* The calls of a stage by API, out of the engine's per-stage counters.
ByApi(s) ==
    [a \in {k[2] : k \in {x \in DOMAIN stageCounts : x[1] = s}} |-> stageCounts[<<s, a>>]]

\* exit_stage(): the chains and calls since enter_stage(), and the calls by
\* API that were logged under this stage.
Rollup(s) ==
    [calls |-> total - startCalls,
     chains |-> chains \ startChains,
     byApi |-> ByApi(s),
     active |-> total > startCalls \/ chains \ startChains # {}]

ExitStage ==
    /\ pending = <<>>
    /\ stage # NoStage
    /\ rollups' = Put(rollups, stage, Rollup(stage))
    /\ stage' = NoStage
    /\ UNCHANGED <<agentVars, engineVars, pending, startChains, startCalls, historyVars,
                   todo>>

\* stage_findings(): one per rule, for the severe ones.
StageFindings(s) ==
    {c.rule : c \in {d \in rollups[s].chains : d.severity \in {"high", "critical"}}}

\* Everything has been said: nothing is under way any more.
Drained == todo = <<>> /\ batch = NoRecords /\ channel = <<>> /\ pending = <<>>
Finished == Drained /\ stage = NoStage /\ DOMAIN rollups = StageNames

Next ==
    \/ SampleCalls
    \/ TimerFires
    \/ ReceiveBatch
    \/ IngestNext
    \/ \E s \in StageNames : EnterStage(s)
    \/ ExitStage
    \/ Finished /\ UNCHANGED vars

\* The timer is setInterval's, the host receives what the channel delivers, and
\* the loop over a batch goes on (only IngestNext shortens pending); the sample
\* and the pipeline owe nobody a step.
Fairness ==
    /\ WF_vars(TimerFires)
    /\ WF_vars(ReceiveBatch)
    /\ WF_pending(pending # <<>> /\ pending' = Tail(pending))

Spec == Init /\ [][Next]_vars
FairSpec == Spec /\ Fairness
-----------------------------------------------------------------------------
(* What the runs check *)

RuleIds == {r.id : r \in RuleBook}

\* The state keeps its types; batches on the way are full, or were flushed early.
TypeOK ==
    /\ platform \in Platforms
    /\ now \in Nat /\ lastFlush \in 0..now
    /\ failedSends \in 0..MaxFailedSends
    /\ \A a \in DOMAIN guestRate : guestRate[a].start \in 0..now
    /\ \A i \in DOMAIN channel : channel[i] # NoRecords
    /\ stage \in StageNames \cup {NoStage}
    /\ DOMAIN rollups \subseteq StageNames \ {stage}
    /\ DOMAIN chainCounts \subseteq RuleIds
    /\ DOMAIN callCounts \subseteq Apis /\ DOMAIN hostRate = DOMAIN callCounts
    /\ \A a \in DOMAIN callCounts : callCounts[a] \in Nat \ {0}
    /\ suppressed \in 0..total
    /\ startChains \subseteq chains

\* The call at position i of a history completes the rule: earlier calls of the
\* same process are its other links, in order, within the rule's window, each
\* of them still among the MaxWindow calls remembered.
Completes(rule, history, i) ==
    LET last == Len(rule.seq)
        LinkAt(k, j) ==
            /\ history[j].api = rule.seq[k]
            /\ Satisfies(rule, history[j])
            /\ history[j].at >= history[i].at - rule.window
            /\ CallsFrom(SubSeq(history, 1, i), j + 1) < MaxWindow
    IN  /\ Satisfies(rule, history[i])
        /\ \E f \in [1..(last - 1) -> 1..(i - 1)] :
              \A k \in 1..(last - 1) : LinkAt(k, f[k]) /\ \A m \in 1..(k - 1) : f[m] < f[k]

\* Who completes what: <<pid, position, rule>>.
Matches(histories) ==
    UNION {UNION {{<<p, i, r>> : r \in {q \in RulesEndingIn[histories[p][i].api] :
                                          Completes(q, histories[p], i)}} :
                  i \in DOMAIN histories[p]} : p \in DOMAIN histories}

TrueCounts(histories) ==
    LET matches == Matches(histories)
        Of(id) == {m \in matches : m[3].id = id}
    IN  [id \in {m[3].id : m \in matches} |->
            MapThenSumSet(LAMBDA m : histories[m[1]][m[2]].n, Of(id))]

\* Every match is counted, none twice and none that is not there: the greedy
\* walk back through the window counts what the definition of a chain says
\* (_match_chains(): "Every match is counted").
CountsExact == chainCounts = TrueCounts(logged)

\* A rule's next chain for a process comes no sooner than its window later.
ChainsSpaced ==
    \A r \in RuleBook : \A c, d \in chains :
        /\ c # d
        /\ c.rule = r.id /\ d.rule = r.id
        /\ c.pid = d.pid
        /\ c.at <= d.at
        => d.at - c.at >= r.window

\* A chain that is emitted was completed by a call of its process at its time
\* that no superseding rule matched, and it is not one of many for the same
\* behaviour.
ChainsJustified ==
    LET matches == Matches(logged)
    IN  /\ \A c \in chains : \E m \in matches :
              /\ <<m[1], m[3].id, logged[m[1]][m[2]].at>> = <<c.pid, c.rule, c.at>>
              /\ ~\E o \in matches : o[1] = m[1] /\ o[2] = m[2] /\ o[3].id \in m[3].over
        /\ ChainsSpaced

\* No match goes unreported: for each there is a chain of its own or of a
\* superseding rule, in its process, at most that rule's window before it.
MatchesReported ==
    \A m \in Matches(logged) :
        LET at == logged[m[1]][m[2]].at
        IN  \E c \in chains : \E q \in RuleBook :
                /\ c.rule = q.id /\ q.id \in {m[3].id} \cup m[3].over
                /\ c.pid = m[1]
                /\ at - c.at \in 0..(q.window - 1)

-----------------------------------------------------------------------------
(* From the sample to the finding *)

\* The sample's calls the agent hooks and the host knows, by their canonical
\* names, with what they were really like.
Hooked(call) == call.raw \in DOMAIN Captured[platform] /\ Resolved(call.raw) # {}

Known(calls, pid) ==
    LET Add(known, c) ==
            IF c.pid = pid /\ Hooked(c)
            THEN Append(known, [api |-> Canonical(c.raw), at |-> c.at, n |-> c.n,
                                marks |-> c.marks])
            ELSE known
    IN  FoldLeft(Add, <<>>, calls)

ByProcess(calls) ==
    [p \in {calls[i].pid : i \in DOMAIN calls} |-> Known(calls, p)]

TimesMade(apis) ==
    MapThenSumSet(LAMBDA i : made[i].n,
                  {i \in DOMAIN made : Hooked(made[i]) /\ Canonical(made[i].raw) \in apis})

AllMade == TimesMade(Apis)

\* The Android agent sends a batch again when send() threw; the other loses it.
NothingLost == platform = "android" \/ failedSends = 0

\* Rules on a registry handle are in AutostartWriteCounted.
OnHandle(rule) == "RegSetValue" \in DOMAIN rule.needs

\* What a rule asks of a call that shows it is among the arguments the hook
\* captures: a fact of the rules and the samples alone.  (Where it is not, the
\* rule cannot match, whatever the engine does.)
FactsReported ==
    \A p \in Platforms : \A step \in SampleSteps : \A r \in {q \in RuleBook : ~OnHandle(q)} :
        /\ step.raw \in DOMAIN Captured[p]
        /\ Canonical(step.raw) \in DOMAIN r.needs
        /\ r.needs[Canonical(step.raw)] \in step.shows
        => r.needs[Canonical(step.raw)] \in Evident(step.shows, Captured[p][step.raw])

\* A behaviour in the guest is a match on the host: through hooks that report a
\* name of their own, capture some of the arguments and batch the calls, each
\* rule counts as often as the sample's own calls complete it.
BehaviourCounted ==
    Drained /\ NothingLost /\ suppressed = 0 /\ total = AllMade =>
        LET truth == TrueCounts(ByProcess(made))
        IN  \A r \in {q \in RuleBook : ~OnHandle(q)} :
                At(chainCounts, r.id, 0) = At(truth, r.id, 0)

\* The APIs whose plain number of calls is the finding.
VolumeApis ==
    [mass_deletion |-> {"DeleteFile"},
     heavy_dynamic_resolution |-> {"GetProcAddress"},
     android_sms_burst |-> {"SendSMS", "SendMultipartSMS"},
     android_continuous_tracking |->
        {"RequestLocationUpdates", "GetLastKnownLocation", "FusedLocationUpdates"},
     android_sustained_audio_capture |-> {"AudioRecordRead"},
     android_clipboard_monitoring |-> {"ClipboardRead", "ClipboardCheck"}]

\* A finding on the volume of calls is made exactly when the sample made that
\* many, whatever the guest's and the host's budgets kept from the engine
\* (ingest(): "volume-based detections depend on the true count, not the
\* logged count").
VolumeJudgedOnTruth ==
    Drained /\ NothingLost =>
        LET limit == WindowsVolumes(Empty, Empty) ++ AndroidVolumes(Empty, Empty, 0)
        IN  \A f \in DOMAIN VolumeApis :
                f \in VolumeFindings <=> TimesMade(VolumeApis[f]) >= limit[f][2]

CallsIn(byApi) == MapThenSumSet(LAMBDA a : byApi[a], DOMAIN byApi)

\* A closed stage's rollup holds the chains that were found while it ran, all
\* of them and no other stage's; it accounts for each call logged under the
\* stage, and says the sample acted when a chain was found.
StageLedger ==
    \A s \in DOMAIN rollups :
        /\ rollups[s].chains = {c \in chains : c.stage = s}
        /\ \A a \in Apis : At(rollups[s].byApi, a, 0) = At(stageCounts, <<s, a>>, 0)
        /\ rollups[s].calls >= CallsIn(rollups[s].byApi)
        /\ rollups[s].active <=> rollups[s].calls > 0
        /\ StageFindings(s) # {} => rollups[s].active

\* What the sample did is with the engine in the end: the last batch does not
\* wait for a call that never comes.
CallsReachHost == todo = <<>> ~> Drained

-----------------------------------------------------------------------------
\* "capture it so RegSetValue can be resolved back to a full key path on the
\* host" (hook_installer.py): a value written under an autostart key that was
\* opened first is a match, however the value is named.
AutostartWriteCounted ==
    Drained /\ NothingLost /\ suppressed = 0 /\ total = AllMade =>
        \A i, j \in DOMAIN made :
            /\ i < j
            /\ made[i].raw = "RegCreateKeyExW" /\ "autostart_key" \in made[i].marks
            /\ made[j].raw = "RegSetValueExW" /\ made[j].handle = made[i].handle
            /\ made[j].pid = made[i].pid
            /\ made[j].at - made[i].at <= 30
            => At(chainCounts, "registry_persistence", 0) > 0
=============================================================================
