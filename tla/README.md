# Verification of E-Rakshak

TLA+ models of the parts of E-Rakshak whose correctness depends on the order in
which things happen, TLC configurations that check them on small instances, and
TLAPS proofs of the theorems that matter most for every instance. All line numbers
are those of the repository; `PROJECT.json` maps each definition to its lines.

    tlc -workers 2 -config DetonationFleet.cfg MCDetonationManager   # a run
    tlapm DetonationManagerProofs.tla                                # its proofs
    tlapm StageOrchestratorProofs.tla                                # those of the pipeline
    tlapm CaseIntakeProofs.tla                                       # those of the backend

Further proofs are in modules that extend these; section 4 names them.

## 1. The system

E-Rakshak takes a suspicious file, admits it (`ingestion/`), analyses it
statically (`static-analysis/`), detonates it in a virtual machine
(`dynamic-sandbox/`) under a monitoring agent (`dynamic-sandbox/hooks/`), and turns what
was found into a scored case (`agents/`, `backend/`, `frontend/`).

### Components

| component | code | state it keeps | operations | hard to get right | what makes it correct |
|---|---|---|---|---|---|
| Detonation job queue | `dynamic-sandbox/manager/queue.py`, `models.py`, `intake.py` | pending list, hash index, job records | submit (fold identical samples), next_for, requeue, cancel, expire | several threads; aging against starvation; a requeued job meeting its twin | no job lost or doubled; the index points at waiting jobs only; waiting jobs are dispatched |
| Sandbox pool | `manager/pool.py` | guest states, leases, failure counts | acquire (reclaims expired leases), release, mark_reverted, mark_offline, restore | leases that expire under a live run; quarantine | one run per guest; an assignable guest is clean |
| Detonation manager | `manager/manager.py` | completed and failed lists, the running jobs | run_next, run_job, failure handling, teardown | races between look, take and lease; cancellation at any await; failure at any phase | always from a clean snapshot; attempts bounded; the guest comes back |
| Run result store | `manager/results.py` | run documents, `index.json` | save, get, list | one of two writes failing; unlocked index | a completed job's report can be found |
| Stage orchestrator | `stages/stage_orchestrator.py`, `stage_definitions.py` | the ledger of stage results, current stage, abort flag | run, one stage, request_abort, evasion inference | timers, hung calls, errors, aborts and cancellation at any await | the ledger says what the stages were shown; the run ends |
| Stage actions, controllers | `stages/stage_actions.py`, `controllers.py` | activity and findings of a stage, shared context | eight actions of setup and execute | results in local variables when the timer fires | dormant means nothing was shown |
| Stage report | `stages/stage_report.py` | none | activation, evasion profile, coverage | partial runs | a partial run does not read as a whole one |
| Health, resource monitors | `stages/health_monitor.py`, `resource_monitor.py` | histories, callbacks | start, stop, probe | probe task against stop | status is the worst component's |
| Artifact store | `artifacts/store.py` | content-addressed files, manifest | register, link, verify | file and manifest written separately; same content twice | a registered artifact verifies |
| Memory analysis | `artifacts/memory.py`, `memory_forensics.py` | none | scan a dump | pure | - |
| Timeline builder | `timeline/builder.py` | none | merge and sort | pure | order by time, nothing lost |
| Hook engine | `hooks/` | budgets and batch in the guest; per-process call windows, counters, rate limits, registry handles, stage rollups on the host | hook, batch, flush, send; ingest a call, match chains, findings, enter and exit a stage | bursts at both rate limits; calls of two processes; a batch that arrives in the next stage; a send that throws | a behaviour is counted when it was there and only then; volumes are judged by the true count |
| MobSF adapter | `mobsf/` | none | a script over a service | external | - |
| Ingestion gateway | `ingestion/gateway.py`, `validation.py` | seen hashes and work list in Redis, files, a queue of its own | validate, accept, park | admission in several steps, one failing; Redis away | a sample is entered once and is in one place |
| India scam triage | `ingestion/india_scam_triage.py` | none | score a text | pure | bounded score |
| Ingestion worker | `backend/app/ingestion_worker.py` | the job in hand | pop, analyse, observe, finish | crash between pop and result; a case another writer has | as above, through the worker |
| Case upload, job status | `backend/app/routers/cases.py`, `pipeline_status.py` | jobs in memory and in the database | upload, background analysis, submission, poll | duplicate upload during analysis; writes out of order; stale row; restart | COMPLETED means there is a case; every analysis comes to an end one can see |
| Case store, custody | `backend/app/store.py`, `db.py`, `storage/postgres/schema.sql` | cases in memory and in the database, custody records | save, get | two writers of one case; a row that is refused; swallowed failures | the trail is linear and ends in what the row says |
| Static analysis facade | `backend/app/analysis.py`, `sandbox.py` | none | analyse, import a document, add evidence | a case made anew in parts; documents that say anything | the parts of a case agree |
| Live event processing | `backend/app/event_processor.py`, `sandbox_event_emitter.py`, `routers/live_monitoring.py` | stream, read position, sockets | emit, enrich, store, broadcast | poison messages; restart | no caller in the repository |
| Alert engine | `backend/app/alert_engine.py` | active alerts, suppression window | process event, dismiss | duplicates in the window | no caller in the repository |
| Network intelligence | `backend/app/network_intelligence/`, `geoip.py`, `ioc_extractor.py` | capture processes | capture, parse | subprocess lifecycles | - |
| Accounts, API shell | `backend/app/auth.py`, `main.py`, `search.py` | sessions, indices | start-up, shutdown, request handlers | external services; shutdown under running analyses | - |
| Investigation agents | `agents/` | none | map to ATT&CK, classify, score, investigate, verify the chain of links | rules that interact | bounded, monotone, explained score; verdict and status agree |
| Static analysis engine | `static-analysis/` | none | detect, parse, unwrap, match, report | nesting and size limits; archives that do not open | a finding rests on the file or its members |
| Frontend, deployment | `frontend/`, `infra/`, scripts | - | presentation, start-up | - | - |

### How they interact

The gateway pushes an admitted sample on a Redis list; the ingestion worker pops it
and calls the static analysis; an upload through the API starts the same analysis as
a background task. A sample that is to be detonated becomes an `AnalysisJob` in the
detonation queue. Each call of `DetonationManager.run_next()`, in whatever task or
thread, asks the pool which platforms have an idle guest, takes the best job for one
of them, leases the guest, restores its snapshot, drops the sample and hands the
controller to the stage orchestrator. The orchestrator walks the eight stages and
returns its ledger; the manager collects the artifacts, stores the report and gives
the guest back. The queue and the pool are objects shared under a lock each; there is
no lock over both. In the guest an agent hooks the sample's calls and sends batches of
records; `StageHookMonitor` hands them to the hook engine call by call, under the stage
the pipeline is in when they arrive.

In the backend an upload, a submission and the worker all end in `save_case()`: it puts
the case into memory and then, in one transaction, writes the row and appends a record
to the custody of the sample. An upload also keeps a job, in memory and as a row, that a
client polls. Memory and rows are written by every task of the event loop and read
without a lock.

### What is hard to test

`PROJECT.json`, "hazards", lists these at their lines. In short: steps of two workers
between the pool's lock and the queue's; a lease that ends under its run; an error or
a cancellation at any await, teardown included; two writes of which one fails; a
stage cut short by its timer after it has seen something; aborts at any await;
starvation; bursts at two rate limits in a row, and batches between two stages; partial
admission of a sample; job writes that overtake each other, and stale rows; writers of
one case; a case whose parts are derived again from less than it was made of.

## 2. The modules

| module | models | abstractions |
|---|---|---|
| `JobQueue` | `queue.py` and the job states of `models.py`; one action per method, since each holds the lock throughout | the list sorted before it is read is a set; submission times are arrival numbers; a sample is its content |
| `SandboxPool` | `pool.py`, class `Sandbox` | `last_used_at` is a rank; the lease clock is a flag |
| `GuestLease` | abstract: "one sample per guest at a time, always from a known-clean snapshot" (`pool.py`) | - |
| `DetonationManager` | `manager.py`, composed of the two; implements `GuestLease` | the controller and the pipeline succeed or fail; `disk` is what they leave on a guest |
| `QueueUnderLoad` | the queue under a never-ending stream of submissions | the identity of a finished job is used again |
| `StageActions` | the eight stage actions, and the guest as they see it | a query shows behaviour or does not |
| `StageOrchestrator` | the run of a pipeline, and the conclusions of the report | findings are the facts that later decisions read |
| `HookCatalog` | the monitored API surface and its rate limits (`api_catalog.py`) | name, category and rate of an entry |
| `HookRules` | the behaviour rules and their conditions (`hook_engine.py`) | a rule is its sequence, window, conditions and supersession |
| `HookAgent` | the two generated agents (`hook_installer.py`): exports, captured arguments, budgets, batches, sends | a call carries the marks conditions can be decided from; *n* equal calls of a second are one record |
| `HookEngine` | `HookEngine.ingest()`, matching, deduplication, volume findings | as above; report data left out |
| `HookMonitoring` | sample, agent, channel, `StageHookMonitor` and pipeline, side by side | the channel is ordered |
| `CaseVerdict` | `agents/`: ATT&CK, capabilities, risk score, bands | evidence is the sets of what the rules look for; confidences are hundredths |
| `Investigation` | the investigation and the chain of links | a text is named by what it is about, a hash is the data it is of |
| `StaticEngine` | `static-analysis/`: detection, facts, rules, unwrapping, signatures | a file is its magic, words, atoms, facts and members |
| `CaseAnalysis` | what is accepted, and what `analyze_and_save` and the sandbox make of it | a document is its shape and what it says |
| `IngestQueue` | the gateway's admission and the list it shares with the worker | a sample is its hash |
| `JobStatus` | the jobs in memory and their rows (`pipeline_status.py`) | status, dynamic status and error |
| `CaseStore` | cases in memory, rows, custody, the row lock (`store.py`, `schema.sql`) | a row is the case; a record names its predecessor by position |
| `CaseIntake` | uploads, submissions, gateway, worker, a polling client, restarts, composed of those above | the settings below |
| `DetonationManagerProofs` | the theorems about the manager: leases, refinement, guests and jobs | - |
| `StageOrchestratorProofs` | those about the pipeline: ledger and aborts, conclusions about the sample | - |
| `HookMonitoringProofs` | those about the monitoring: types, stage ledger, deduplication of chains | - |
| `HookChainProofs` | lemmas about windows, matching and the order of calls, and the theorems about the chains that rest on them | - |
| `HookSampleProofs` | what passes the two budgets and what is on its way; the theorems about the volume findings and the behaviours of the sample | - |
| `CaseIntakeProofs` | those about the backend: queue, custody, what a client is told | - |
| `CaseVerdictProofs` | those about the cases it stores: score, indicators, chain of links | - |
| `SumTheorems` | lemmas about sums, folds and least members that several of these need | - |
| `MC...` | the small instances | - |

**Manager: state and steps.** A worker is one call of `run_next()`; `pc` says where it
is, `job`, `guest`, `hasController` and `succeeded` are its local variables. A step
is what it does between two points at which another worker can run: a locked call or
an await of the controller. `LookAtPool`, `TakeNext`, `AcquireGuest`/`FindNoGuest` are
`run_next` up to the lease; `BuildController` to `SaveReport` the try block of
`run_job`; `RunFails`, `SaveFails`, `CancelRun` its handlers; `StopGuest` to
`ReturnGuest` the teardown, which `CancelTeardown` cuts short, because a
`CancelledError` is not an `Exception`. `release()` and `mark_reverted()` address a
guest by its id and ask nobody whose lease it is, and so do the actions.

**Pipeline: state and steps.** `at` is the point in the action's code or the
orchestrator's, `observed` the action's `activity_observed`, `heard` what it still
has in local variables only and loses if its timer fires. `Walk` is the loop of
`run()` from the end of a stage to the start of the next: it has no await and is
part of the step that ends the stage. `EndStage` therefore appends the result, infers
the evasion from the results before it, checks the abort flag and goes on. `Hang` is a
call that does not return, `TimeOut` the timer that ends it or a slow stage, `Fail` an
error, `Cancel` the cancellation of the task, `RequestAbort` an investigator. The guest
is external: it can show behaviour only when a detonated sample has had all its gates
opened, and a failed query shows nothing, as the controllers' empty answers do.

**Monitoring: state and steps.** `SampleCalls` is one step of the sample and all its hook
does: the lookup of the export, the guest's budget, the record in the batch, and the send of
a full one; a call that is hooked at two levels is one record here. `TimerFires` is the
agent's interval flush, `ReceiveBatch` the arrival of the oldest batch, `IngestNext` the
whole of `ingest()` for one record, `EnterStage` and `ExitStage` the pipeline. A batch is
ingested without an await, so no stage begins or ends within one. `made` and `logged` are
history: what the sample did and what the engine wrote down.

**Backend: state and steps.** `run[a]` is where the task of an uploader, a submitter or the
worker is, with its local variables. A step runs from one await to the next. The writes of
a job (`persist`) and of a case (`begin`, `commit`) are steps of their own after the change
in memory, and each may fail. `sending` keeps the contents a dict has had since its write
was asked for, because the write reads it later and may carry any of them; `Overtaken` says
that an older content lands on a newer row. `FindNoCase` is the lookup of an upload and
`StartUpload` what follows its answer, so several uploads may all have found no case; a case
that is found stays, so `RepeatUpload` is one step. `PopUnanswered` is a pop that takes effect
and whose answer is lost. `BeginSave` is the transaction up to the read of
the last custody record: it takes the lock of the row, since a second writer of the same id
waits at the upsert. What a case contains is computed by `Outcome`, a table of
`AnalyzeFile` over the files of the instance. `memory[id].by` remembers that a task still
holds and changes the dict it saved. `Restart` is a crash or a shutdown: the shutdown stops
the worker and closes the database before the tasks are cancelled, so the handler that
reports FAILED reaches memory only and leaves what a crash leaves.

## 3. What is checked

| run | instance | properties |
|---|---|---|
| `fleet` | 2 guests, 2 workers, 2 submissions of one sample, 1 attempt, 1 cancellation, 1 guest disabled, 1 expired lease | `LeaseExclusive`, `CleanDetonation`, `IdleIsClean`: no two samples on a guest, none on a dirty one; `QuarantineHolds`; `NoLostGuest`; `OfflineUntilRestored`; `ImplementsLease` (refinement) |
| `contention` | 1 guest, 2 workers, 2 attempts, 1 cancellation, 1 expired lease | `JobAccounted`: nothing lost or doubled; `HashIndexSound`, `DuplicatesRecorded`; `ResultsRetrievable`; `RunsBounded`; `FinishedStaysFinished` |
| `progress` | 1 guest, 2 workers, 2 samples of its platform and one of another, 1 attempt, fair workers | `GuestComesBack`, `JobSettles`: also behind a job no guest can run |
| `urgent_drains` | 4 identities, the three upper priorities, endless arrivals | `UrgentDrains` |
| `stage_pipeline` | 5 profiles with a sample each, 3 polls, 2 faults, an abort anywhere | `DormantIsQuiet`, `GateCreditedAfterQuiet`, `InteractionGateFound`, `ActivationNotEarly`, `LedgerFaithful`, `AbortLands`, `AbortExplained`, `PipelineEnds` |
| `hook_monitoring` | for each rule the agents can feed, samples in every spelling of its calls; repeats, two processes, floods at each limit; batches of 2, one send that throws, two stages | `CountsExact`, `ChainsJustified`, `MatchesReported`: the engine against the definition of a chain; `BehaviourCounted`, `VolumeJudgedOnTruth`: the engine against the sample; `StageLedger`; `CallsReachHost` |
| `case_intake` | ten settings: a sample uploaded twice with a failing call; watched, with a restart; three writers of one case; a driver that refuses tags, with a restart; one sample in two guises; no database; files that end badly; a packed file and a vague report; an archive, a dump and a queued job; the queue with a Redis outage and a restart | `CustodyLinear`, `VerdictSound`, `CompletedMeansSaved`, `QueuedOnce`, `UploadSettles` |
| `bulk_starves` | as `urgent_drains`, bulk and high priority | `BulkDrains` is violated |
| `save_failure` | 1 worker, 1 guest | `CompletedOrFailed` is violated |
| `lost_lease` | 1 worker, 1 guest, fair | `LostLeaseReclaimed` is violated |
| `partial_coverage` | the whole standard profile, 1 fault | `FullCoverageIsWhole` is violated |
| `hook_autostart` | a key opened and a value written under it | `AutostartWriteCounted` is violated |

**Bounds.** Every race of the manager is between two runs for one guest or two jobs of one
sample, so two of each are there; a third worker adds no new pair. Two attempts are the
first and the retry, and `MaxFailures = 2` makes quarantine happen within them. In
`progress` one attempt is enough: what a job goes through again, it goes through after a
lost race for the guest; a second one makes the liveness check too long. The cancellation,
the operator and the expired lease occur once each, at any step, because what one of them
breaks is seen before a second is needed; they are split over `fleet` and `contention` to
keep each run below half a minute. In `stage_pipeline` each thing a sample can wait for has
a profile with the stages that open it and those around it, every stage is in one of them,
and two faults allow a stage that is cut short before one that fails. `MaxCounts` lets the
events table contribute in one stage. Three polls are enough for activity after silence
after activity. Workers and guests are interchangeable where `SYMMETRY` is used, which no
run with a liveness property does. `CHECK_DEADLOCK FALSE` is set in `contention` and
`lost_lease`, where a lost guest can be the last one, and in the runs of the backend, where
all requests may be dealt with.

`hook_monitoring` runs every rule in each spelling of its calls, with at most one unusual
spelling at a time, the last call doubled; the injections are all orders of three calls out
of four by two processes, with waits at the rule's window and one second beyond it. The
floods lie one below, at and beyond the limits of the guest's and the host's budgets, the
volume findings and the window (`MaxWindow = 2000`, as in the code). Three calls of one
process are the longest repeat in which a deduplicated chain has a successor.

The settings of `case_intake` are pairs or triples, because every race of the backend is
between two writers of one job or one case, or between a writer and a poll. Two polls see a
status go back. One failing call, one restart and one outage each fall anywhere. The files
reach each format, each way an analysis ends (case, unsupported, error), each document
shape, each source of an indicator. `VerdictSound` also compares every score with that of
less evidence, over the evidence the files contain and the sandbox's two profiles.

**Fairness.** `FairSpec` of the manager is weak fairness of each worker's own next
step: the event loop or the thread scheduler runs it, and controller calls return
(`CapeSandboxController` has a client timeout of 30 s). Submitters, operators, clocks
that expire leases and cancellations owe nothing. For the queue it is fairness of
dispatch and of the clock that ages jobs. For the pipeline it is fairness of the
orchestrator's next step *or* its timer; a hung call takes the action's own step away
and only the timer is left, so `PipelineEnds` rests on it. `teardown()` is outside the
timer and is assumed to return. For the monitoring it is fairness of the agent's interval
timer, of the delivery and of the loop over a batch; sample and pipeline owe nothing. For
the backend it is fairness of each task's own next step: the event loop runs it and the
database answers or fails. Requests, polls, failures, outages and restarts owe nothing, and
neither does the pop of the worker.

**Assumptions about the environment.** An operator restores only guests no run holds, and
repairs them. `GuestComesBack` and `JobSettles` are about instances in which nobody is
cancelled and no lease expires (the `lost_lease` run shows why). The golden image is quiet:
queries show behaviour only of a sample that acts. The exceptions are the comparisons with
an earlier query that failed: without a baseline the guest's own autostart entries, and
without the process list of before its own processes, pass for the sample's. An abort is
requested once. Jobs and guests are not added while the manager runs, beyond the
submissions. A commit of the database is durable and atomic, and a second writer of a row
waits for the first. The driver takes a case or refuses it for its tags (`setting.tags`):
whether asyncpg accepts `:ev::jsonb` and tags as they are written was not tried, so both are
modelled. `REDIS_URL` is set. The gateway itself is not restarted.

The events table counts events of a stage only when the sample acts in it; `ActivationNotEarly`
rests on that. `restore()` does not itself ask whether a run holds the guest.

**What the properties excuse.** Where the code does lose something, a property says what holds
besides and does not catch the loss itself:

| property | excuses |
|---|---|
| `NoLostGuest` | a guest whose teardown was cut short (`LostLeaseReclaimed` is about it) |
| `DormantIsQuiet` | the internet simulation; stages cut short |
| `GateCreditedAfterQuiet` | stages cut short |
| `BehaviourCounted`, `VolumeJudgedOnTruth` | a lost batch; the first also calls a budget withheld and arguments no hook captures (`AutostartWriteCounted` is about the handle) |
| `StageLedger` | a late batch counts for the stage that is open when it arrives |
| `CallsReachHost` | a batch lost to a throwing send has left the agent |
| `QueuedOnce` | a sample that is lost, in the worker's hand or on its way to the queue |
| `CompletedMeansSaved` | a case that was in memory only when the backend went down |
| `UploadSettles` | an analysis cut off by a restart; a last status lost or overtaken on its way to its row |
| `VerdictSound` | evidence of a run that did not happen; technique cards; cases that were not computed |

Every property of a passing run has a mutant: a definition changed the way a plausible
error would change it, under which the run finds the property violated.

### Where the code and its documents differ

Five differences have a run:

- *Aging does not drain the queue* (`queue.py:11-12`, `120-121`): one level of promotion
  never lifts a bulk job over new high-priority jobs, two levels above it. `UrgentDrains` is
  the part that holds.
- *A report that cannot be written* requeues a completed job while attempts are left
  (`manager.py:452-456`); the comment at `183-186` says it fails.
- *An expired lease* is reclaimed only inside `acquire()`, which `run_next()` does not
  reach while no guest is idle; the manager's README line 59 says it is reclaimed.
- *Coverage* passes over the boot stage, so that a run whose boot timed out, and whose
  sample may never have run, has complete coverage (`stage_report.py:368-369`), against
  `test_stages.py:357`.
- *Autostart keys*: the engine files an opened key under the call's status and not under the
  handle the agent captured (`hook_engine.py:2310`), so the value written under it is no
  persistence, against the comment at `hook_installer.py:314-315`.

Others are in the models without a run of their own. Four of them contradict what the
repository says outright:

- *A run that never was*: without a sandbox the backend stores one of two canned profiles as a
  completed run (`sandbox.py:50-139`, `WindowsProfile` and `AndroidProfile` in `CaseAnalysis`),
  against "deliberately no fabricated results" and `not_configured` at `10-14`. The flagged
  addresses in it become malicious ones. A technique card is CORROBORATED as soon as there
  is a dynamic result, be it "failed" or "submitted" (`analysis.py:234`).
- *A false "dormant"*: the final summary of the network stage replaces the halfway one
  (`stage_actions.py:566-572`), so a connection seen halfway is forgotten when the final
  query fails, against `stage_orchestrator.py:330-335` and the stages' README line 94.
- *A gate credited to a noisy sample*: a stage cut short by its timer loses what it had in
  local variables and is not looked at when evasion is inferred
  (`stage_orchestrator.py:402-406`), against "only if the sample was quiet before it" at
  `394-398`.
- *Duplicates of nothing*: the gateway enters a hash before it has moved the file and pushed
  the job (`gateway.py:273-309`); when one of these fails, or the job is lost later, the sample
  is refused as a duplicate ever after, against `11-12`.

In the manager: two identical samples both wait after a requeue (`queue.py:130`); an attempt
is spent when no guest is found (`manager.py:159-164`); a guest disabled in the middle of a
run is brought back by that run's release (`pool.py:138`); a reclaimed guest whose run is
gone stays in reversion; cancelling or expiring a job drops the submissions folded into it.
In the pipeline: an abort during the last stage gives a run called completed and not
aborted; a required stage's failure replaces the investigator's abort reason; the network
gate is credited to a sample that was noisy before; `min_duration_sec` ("Never exit before
this", `stage_definitions.py:126`) is enforced nowhere; a boot whose guest never answers
completes or times out and does not end the run; an abort before the sample is executed
still executes it; a quick profile reports the reboot class both tested and untested.

In the monitoring: `CreateRemoteThreadEx` is reported under a name the host does not know
and dropped; many rules ask for APIs that no agent hooks; a remote write is hooked at two
levels and reported twice; `token_impersonation_basic` names a rule that cannot supersede
it; `same_process` is read nowhere; rules named for frequency fire on the first call;
rate-limited calls do not advance the Android signals (`hook_engine.py:2616-2618`); the
Windows agent loses a batch whose send throws; late batches belong to the next stage or to
none.

In the backend: a duplicate upload reports COMPLETED while the first analysis still runs,
and after a crash the job may say so without a case; a new upload after a failed one keeps
the old error; a restart keeps the status of a job (`pipeline_status.py:9-12`) but not its
analysis, so the job stays in progress for ever; two job writes may land in the wrong order, so
that a finished analysis stays at DYNAMIC_ANALYSIS; a status read prefers a stale row to
memory; the worker overwrites a case that was complete and derives nothing from the
sandbox's evidence; a document that names another sample's id replaces that case; dynamic
evidence never changes the score of an upload (`orchestrator.py:18` says "uses static +
dynamic signals"); when the parts of a case are made anew, an address that was explained
is listed among the domains and corroborations drop out; the last connection to an address
decides its class; the bands of verdict and status differ between 20 and 24; the chain of
links always misses one and is never COMPLETE; a plain Mach-O file is accepted and then
unsupported, a file of unknown format named `.exe` is accepted by the upload and refused by
the gateway; what is parked while Redis is away is read by nobody.

## 4. What is proved

`DetonationManagerProofs` proves, for any sets of jobs, samples, platforms, guests and
workers and any bounds that satisfy the modules' named assumptions:

| theorem | statement |
|---|---|
| `TypeCorrect` | `Spec => []TypeOK` |
| `LeasesAreExclusive` | `Spec => []LeaseExclusive` |
| `DetonationsAreClean` | `Spec => []CleanDetonation` |
| `IdleGuestsAreClean` | `Spec => []IdleIsClean` |
| `ManagerImplementsLease` | `Spec => Lease!Spec` |

The assumptions are those of the modules: the constant functions have their types,
"no job" and "no guest" are none, the limits are naturals. TLC evaluates them in every
run.

*The argument.* `TypeOK` is not inductive, because a worker in a phase that uses its job
or its guest must have one: `LocalsOK` says so, and `TypeInv` is both. `LeaseExclusive`
says that two runs never hold one guest and that a held guest is not idle; it is
inductive over `TypeInv`, because only `acquire()` gives a guest to a run and it takes an
idle one, while the releases of a run whose lease was reclaimed change a guest that the
run still holds in the model's sense. `CleanInv` adds where the traces on a guest come
from: a guest that is idle is clean, a run that has restored its guest and not yet
dropped the sample has a clean one, a run that has dropped it has its own sample's
traces and no other's, and a guest about to be returned is clean. Without exclusiveness
another run could dirty it between two of these points, which is why the two go
together. For the refinement each step maps to `Begin`, `Detonate`, `Revert`, `End` or
a stutter, under that invariant. A step of the proof is an action of the specification;
an operator used by several actions has its lemma.

Of the guests and of the jobs, under the same assumptions:

| theorem | statement |
|---|---|
| `FailuresQuarantine` | `Spec => []QuarantineHolds` |
| `GuestsAreNotLost` | `Spec => []NoLostGuest` |
| `OfflineStays` | `Spec => OfflineUntilRestored` |
| `JobsAreAccounted` | `Spec => []JobAccounted` |
| `IndexIsSound` | `Spec => []HashIndexSound` |
| `DuplicatesAreRecorded` | `Spec => []DuplicatesRecorded` |
| `RunsAreBounded` | `Spec => []RunsBounded` |
| `ReportsAreRetrievable` | `Spec => []ResultsRetrievable` |
| `OverIsOver` | `Spec => FinishedStaysFinished` |

*The argument.* Of the guests, `PoolInv` adds to exclusiveness that between its release and
its return a guest is offline, or in reversion with fewer failures than the limit: it is
never leased then. Without that, the `mark_reverted()` of a run could free a guest whose
failures have reached the limit, or take one from the run that has it. The lemma
`OthersSpared` says what the pool's operations do to guests they are not called for.
Of the jobs, `JobInv` is the conjunction of the parts the theorems need of each other.
`LifecycleOK` follows a job: it waits and nobody carries it, or one worker does and its
state is that of the worker's phase, or it is over and recorded. `HashIndexSound` needs it
because a fold is right only while the entry it finds is a job that waits; `DuplicatesOK`
needs the index. `RunsOK` is why attempts bound the runs although `requeue()` after a lost
race for a guest does not look at them: a job that waits or was taken has a run left,
because the attempt it lost was not yet a run. `ReportsOK` says that the index keeps a
stored report for every content that has one, also when the write of the next one fails.
The two action properties follow from the same invariants.

`StageOrchestratorProofs` proves, for any profiles and samples, any number of polls,
faults and counted events:

| theorem | statement |
|---|---|
| `RunTypeCorrect` | `Spec => []TypeOK` |
| `LedgersAreFaithful` | `Spec => []LedgerFaithful` |
| `AbortsLand` | `Spec => []AbortLands` |
| `AbortsAreExplained` | `Spec => []AbortExplained` |

*The argument.* One invariant, `StageInv`, carries all four. `TypeOK` needs `LocalsOK`:
polls and silence stay in their bounds only because the two polling stages count them in
step, and a stage that has ended has a verdict. `LedgerOK` ties the ledger to the place of
the run: while a stage runs, it is the one at position `next`, it is to be run, and the
ledger has one entry for each position before it, none of them failed or aborted.
`AbortOK` remembers how long the ledger was when the abort came: while a stage still runs
nothing has been added since. The actions of a stage leave the ledger alone, which is
shown once for all of them; what remains is the walk from the end of one stage to the
start of the next. Its lemmas say that `FirstRunnable` is the first position to be run
from here, that the entries added on the way are the skipped positions up to it, and that
an abort noticed at the start of the walk adds nothing.

Of what the run concludes about the sample:

| theorem | statement |
|---|---|
| `DormantStagesWereQuiet` | `Spec => []DormantIsQuiet` |
| `GatesAreCreditedAfterQuiet` | `Spec => []GateCreditedAfterQuiet` |
| `InteractionGatesAreFound` | `Spec => []InteractionGateFound` |
| `ActivationsAreNotEarly` | `Spec => []ActivationNotEarly` |

*The argument.* `FindingsInv` adds four parts to `StageInv`. `ShownInTime` and `GatesInTime`
bind the guest to the run: nothing was shown in a stage the run has not come to, and a gate
is open only from the stage that opens it on. `CurrentOK` is about the stage that runs:
what it holds is dated no earlier than the gates allow, and what it was shown is still
somewhere (`Kept`) - in a local variable of a polling loop, in the reboot's note until the
second look, or in the result about to be made. That is where a lost variable would break
it, and the internet simulation, which does lose one, is excepted there as in the property.
`EntriesOK` says of each entry what the three properties say of the ledger, and more of
skipped ones, since the inference passes over them. `EndStage` is the step where the parts
meet: the evasion of a new entry is inferred from the entries before it.

`HookMonitoringProofs` proves, for any rule book, any samples, stages, batch and window
sizes:

| theorem | statement |
|---|---|
| `MonitoringTypes` | `Spec => []TypeOK` |
| `StageLedgerExact` | `Spec => []StageLedger` |
| `BehaviourReportedOncePerWindow` | `Spec => []ChainsSpaced`, the second half of `ChainsJustified` |

Its assumptions: `AgentAssumption` (a batch has a size, failures a bound),
`EngineAssumption` (a rule's identifier is its own, its window a natural number, and it has
a sequence, without which `_match_chains()` raises), `SampleAssumption` (a sample is a
sequence of steps, each of one call or more; no stage is called "none"), and two that are
about no parameter. `HookedAssumption`: every function the agents hook has its canonical
name in the catalog. `ResolvedAssumption`: a name the host resolves stands for one entry,
the one the agent counts the call by, and of the hooked names it fails to resolve only
`CreateRemoteThreadEx`. These are facts of the tables; they rest on names put together
with a suffix, of which the provers know nothing, and TLC evaluates them as they stand.

*The argument.* `MonitorInv` has four parts. `AgentKept` types the sample's side: whatever
is in a batch, on the channel or pending is a report of a step, and only what is not empty
is sent, because the timer looks before it flushes and `emit()` flushes what it has just
added to. `EngineKept` types the counters; it needs `AgentKept` because a report of no
calls would make a counter of none, and `LimitsAreNatural`, that each section of the
catalog gives numbers, because what is within a budget is a difference. `ChainsKept` is why
a rule's chains keep their distance: the last emission noted for a rule and a process is no
earlier than any of its chains, so what `Fresh` compares with the last one holds for all;
and no rule is judged by another's window. `LedgerKept` is about the stage that is open:
the chains it has not found are those from before it, and the calls logged under it are at
most those counted since it was entered. The stages are told apart by the keys of the
counters; a stage that has not begun has none, and nothing is added to one that is closed.

That the calls of a rollup sum to no more than it received is a statement about a sum over
a set. The community modules define it by recursion, and the prover has no induction over
sets. The lemmas of `SumTheorems` go by the smallest set for which a claim fails, which
exists because inclusion is well-founded on the subsets of a finite set: that the table of
partial sums exists, that a sum of naturals is one, that the order of its terms does not
matter, and so that a counter that goes up by *n* takes the sum up by *n*.

`HookChainProofs` proves, for any rule book, what the engine concludes from the calls:

| theorem | statement |
|---|---|
| `EveryMatchIsCounted` | `Spec => []CountsExact` |
| `ChainsAreJustified` | `Spec => []ChainsJustified` |
| `NoMatchGoesUnreported` | `Spec => []MatchesReported` |

The last of them needs one assumption more, `SupersessionAssumption`: windows are not empty
and a rule that supersedes another is superseded by none. `CHAIN_RULES` is like that, as TLC
evaluates, but nothing in the engine enforces it. Of three rules in a row, all completed by
one call, the widest alone would be reported, and it is not among the first one's
`superseded_by`.

*The argument.* `_try_match()` walks back through a bounded window with a countdown of the
links still to find; the property speaks of any calls in the whole history, in order, within
the rule's window, each with fewer than `MAX_WINDOW_CALLS` calls after it. The two meet in
the lemma `MatchingIsExact`, for one call. It rests on three things.
`WalkFinds`: after walking over some positions the countdown is the least number of links
that can be left when the others are found in order among them, so taking the latest fitting
call each time is as good as any choice. `HorizonIs`: stopping at the first call that is too
old loses nothing, which is so only if the history is in the order of time. `WindowEnds`:
the window is the end of the history that begins with the first call that has fewer than
`MAX_WINDOW_CALLS` after it. The folds of the community modules are recursive functions on
sets; what is shown of them goes by the least position or the smallest set for which a claim
fails.

`MatchingInv` carries this over the steps. `HistoryKept` says that each window is the end of
its process's history (`RememberKeepsWindow`) and that the history is in order. The order
comes from far away: `OrderKept` says that the batch being ingested, the batches in the
channel and the batch in the agent were made one after the other, and no sooner than what
has been logged; a batch that is lost or sent again leaves it so. `CountsKept` is
`CountsExact` itself: a later call does not change what an earlier one completed
(`CompletesAsBefore`), so a logged call adds its number to each rule it completes
(`CountsGrow`), and the identifiers keep the rules' sums apart. `EmissionKept` adds to the
first half of `ChainsJustified` that the last emission noted is that of a chain, so that
whatever the deduplication holds back has one; its time is not later than the match's,
again by `OrderKept`.

`HookSampleProofs` proves, for any samples, batch size and rule book, that what the sample
did is what the host concludes:

| theorem | statement |
|---|---|
| `VolumesAreJudgedOnTruth` | `Spec => []VolumeJudgedOnTruth` |
| `BehaviourIsCounted` | `FactsReported => (Spec => []BehaviourCounted)` |

*The argument for the volumes.* The guest's budget keeps calls from being reported and the
host's keeps reported ones from being logged, each by API and second, and a sample can
spread its calls over APIs and seconds as it likes. `VolumeInv` follows, for each finding,
the calls of its APIs that are received or still under way (`Coming`): they are never more
than were made, and unless a batch was lost they are all of them or at least as many as the
budget of one API of the finding (`Enough`). What makes that inductive is `Spent`: what has
passed so far is no less than what any running budget has let through, so when a budget is
used up, its whole limit has passed already (`BudgetLetsPass`) - in this second or before,
which is why budgets that begin again do no harm. The two findings that are judged on a
signal, which only logged calls advance, need the same once more for the host
(`SignalKept`). The tables do the rest: `BudgetsSuffice` goes through the catalog section by
section and finds no API of a finding whose budget is below the finding's threshold. So a
number that has fallen behind the truth has passed the threshold before. On the way a call
is in the batch, in a batch on the channel or pending; `FlushHolds`, `EmitHolds`,
`ObserveHolds` and the lemmas on totals of sequences in `SumTheorems` show that none is lost
or doubled between them, but with a batch.

*The argument for the behaviours.* A rule sees little of a call: its API, its time, how many
it stands for, and whether it meets each rule's condition (`View`). The agent leaves
arguments out and the engine adds a fact of its own, but to the rules that do not ask for a
registry handle both look the same (`ReportShows`, `DecodedShows`), and two histories that
look alike are matched alike (`AlikeCompletes`: same links, same times, as many calls in
between). The rest is the order of things on their way. `Trail(p)` is what process `p`'s
history will look like when the pending calls, then the batches in the channel, then the
agent's batch are ingested: a fold of a fold. Each step of the transport only moves a call
from one part of it to the next, a call the agent reports in full appends to its end, and so
does the call to the sample's own history (`KnownGrows`). That the two are equal is the
invariant `TrailKept`, and it must say when: as long as no batch was lost and nothing was
suppressed, *if* the calls received and under way are as many as were made. With it goes
that they are never more, so that calls a budget has withheld are missing for good and the
premise, once false, stays false. When nothing is under way the histories look alike, so
`EveryMatchIsCounted` gives the counts. The lemmas on folds in `SumTheorems` are about a
table on the subsets of the positions, as the community modules define them.

The hypothesis `FactsReported` is about the constants alone: when a call of a sample shows
what a rule asks of its API, then the hook that reports the call captures an argument that
shows it. Without it the statement is false, and rightly so: a rule may ask for an argument
that no hook captures, and then never matches. TLC evaluates it for the tables of the code
and the samples of the run (`MCFactsReported`); it is a hypothesis of the theorem and not an
assumption of the module, since the other theorems do without it.

`CaseIntakeProofs` proves, for any files, words, signatures and settings that satisfy
`IntakeAssumption` (what is uploaded, queued or found in an archive is a file):

| theorem | statement |
|---|---|
| `QueueSafe` | `Spec => []QueuedOnce` |
| `CustodySafe` | `Spec => []CustodyLinear` |

*The argument.* `QueuedOnce` with the type of the queue is inductive. `QueueSteps` first
reduces the disjuncts of `Next` to the operations of `IngestQueue`; each then has a lemma,
of which the interesting ones are that a fresh hash at either end keeps the queue free of
repetitions and that a pop takes its first one out, whether its answer arrives or not.
`CustodyLinear` is not inductive: the record that a save appends names the length the trail
had when its transaction began. `LockOK` says that a task within a transaction holds its
row, that nobody else does, and that the length it read is still that of the trail. `RunOK`
says that whoever is going to save holds a case with the columns of a row, which leads back
through every step that makes or changes a case (`CaseFromShape` to `RenewedShape`), and
that whoever is going to analyse holds a file the analysis has an outcome for; for the
worker that is because the gateway has let the sample in, so both invariants go together.
All steps but begin, commit and abort are shown to be `LocalStep`s, which disturb neither
lock nor trail, and `CommitKeeps` is where the pieces meet.

Of what a client is told:

| theorem | statement |
|---|---|
| `CompletedAnalysesAreSaved` | `Spec => []CompletedMeansSaved` |

It uses two more assumptions: `None` is not a case (`StoreAssumption`), and the ingestion
worker is not one of the uploaders (`WorkerAssumption`).

*The argument.* The status a client reads may have been on its way for long: from an update
of the dict into a write under way, from there into the row, from the row into a read, and
from the read back into the dict. `JobsOK` says of every copy at each of these places that
it says COMPLETED only for a sample that is `Stored`: in memory, in a row, or forgotten by a
restart. That carries over every step because nothing that is stored stops being so
(`Grows`), which is what a restart could break and why the forgotten are part of it. That a
new COMPLETED is justified is `HoldOK`: an analysis beyond its save has its case stored
under its own id, also when the case was imported with another one and saved under both.
The lemmas `GoesKeeps`, `ReportKeeps` and `SaveKeeps` treat the kinds of steps once, and the
steps of upload, submission and worker are instances of them.

`CaseVerdictProofs` proves what the backend stores of a sample:

| theorem | statement |
|---|---|
| `StoreIsTyped` | `Spec => []TypeOK` |
| `EvidenceIsMonotone` | `EvidenceMonotone`, the first part of `VerdictSound` |
| `VerdictsAreSound` | `Spec => []VerdictSound` |

It adds two assumptions about data to those above: that the compiled rule files hold
finitely many signatures (`SignatureAssumption`), and `EvidenceAssumption`: the results in a
report or a submission come as lists, and a document without a run has no findings of one.

*The argument.* `EvidenceIsMonotone` compares two scores, each made of the number of
techniques, of the points of the capabilities and of rows of a table, all of which the
evidence decides. A rule finds at most one thing, and with more evidence it finds it again
(`Rules`) and is as sure of it (`Tags`). So what the weaker evidence shows can be mapped
into what the stronger one shows without two results meeting (`TechniquesGrow`,
`CapabilitiesGrow`); the sums follow by `SumTheorems`, and cutting them at 0 and 100 keeps
the order. The two runs compared with none have no behaviour chains, whose points may be of
either sign.

`VerdictSound` is not inductive. Between analysis and save, while the sandbox is asked and
after its answer, the case is in an actor's hands, and `WithDynamic` then explains it anew
from its techniques and capabilities and the score it got before the run. So `VerdictInv`
says of whatever an actor holds what the property says of a stored case (`SoundCase`), and
of a case that may yet be explained anew that its score covers the parts the explanation
will name (`Explainable`). Submitted results need not have that: their chains can take
points off, and they are stored without an explanation. The worker only adds the run to a
case and leaves its indicators as they were, which is right because it asks for a run only
where there is none (`ObservedIsSound`). The rows are `Acceptable`, since a save of anything
else fails, and the copies of a job have a status wherever they are on their way
(`JobsTyped`). `StatusInv` is part of the invariant because the locks and the shapes of the
cases are.

The parts of a case have their own lemmas: `ScoreInRange` and `ExplanationAddsUp` for the
sums, `IndicatorsRest` for the classification of the indicators, and `CreatedIsUnbroken`: a
chain of links made by `create_chain()` passes `verify_integrity()`, by the first link for
which it would not. A case comes from an analysis, a report, a dump or a submission; one
lemma for each (`AnalysisIsSound`, `ImportedReportIsSound`, `ImportedCaseIsSound`,
`SubmittedIsSound`) shows that it is sound when it comes into being, and the steps carry it.
Chains of a submission may have any integer for their points: the score stays in its range
because `compute_risk_score()` cuts it on both sides.

*Only model-checked.* Liveness (`CallsReachHost` and the other leads-to properties): the
prover does not reason about fairness and `ENABLED`. Every invariant that a passing run
checks is stated by a theorem; `FactsReported` is evaluated for the code's tables, not
proved of them.

## 5. What is not modelled, and the plan

The table in `PROJECT.json`, "components", gives the reason for each part. Pure functions
over finished data (timeline, memory scanning, narrative), external services and
presentation have no behaviour over time to check. The live event path (stream consumer,
alert engine) is started by nothing in the repository, so there is no run of it to model;
the artifact store has one writer within one run and nobody reads its manifest back.

Within the modelled parts: of the pipeline the wording of findings, scores, event markers,
the progress snapshot and statistics; of the monitoring `risk_contribution` (a logarithm),
evidence texts, summaries, the CAPE configuration and file handle paths; of the backend the
truncation of lists (10 URLs and addresses, 15 keywords, 25 explained strings), geo-IP, the
narrative text, the list and search endpoints, the entropy, classifier and IOC extractor of
the static engine (the case does not use them), the byte layout its parsers walk, and the
risk profiles that only tests call. The alias of an imported case shares a nested dict with
it, and a read of a case consists of several statements: neither is modelled, nor is a
failure of the database between the two reads of a status request. Some details are coarser
than the code: the queries of the memory stage are one step (nothing between them is read by
anyone else); an autostart service is recognised by its start type only, not also by a
missing one (`hook_engine.py:1576-1577`); a URL is what is tagged as one, not any string
with `http` in it (`static_analysis/core/engine.py:253`); the database refuses a case for
its tags only, not for timestamps passed as text (`store.py:60`, `165`,
`pipeline_status.py:151`); the findings and the run that the dump of a case brings along
(`analysis.py:627-654`) are not followed, so `VerdictSound` asks nothing of a case that was
not computed.

Order of the work, most important first:

1. *Done.* The manager: `JobQueue`, `SandboxPool`, `GuestLease`, `DetonationManager`,
   `QueueUnderLoad`, with their proofs. The pipeline: `StageActions`,
   `StageOrchestrator`, with theirs.
2. *Done.* The monitoring: `HookCatalog`, `HookRules`, `HookAgent`, `HookEngine`,
   `HookMonitoring`.
3. *Done.* The backend: `CaseVerdict`, `Investigation`, `StaticEngine`, `CaseAnalysis`,
   `IngestQueue`, `JobStatus`, `CaseStore`, `CaseIntake`, with the proofs of the queue and
   of the custody.
4. *Done.* The proofs of the remaining safety properties of the manager and the pipeline, of
   what a client is told, and of the monitoring's types, ledger and deduplication; that its
   matching is exact, its chains are justified and none is missing, and that volumes are
   judged and behaviours counted by what the sample did; that the stored cases have their
   types and their verdicts hang together.
5. Still worth having: a run for the samples `FactsReported` leaves out, which would list the
   spellings of a call whose hook captures too little for the rules.
