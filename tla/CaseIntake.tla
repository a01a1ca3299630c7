------------------------------ MODULE CaseIntake ------------------------------
(***************************************************************************)
(* The ways a sample becomes a case, running beside each other: uploads    *)
(* and their background analysis (backend/app/routers/cases.py), results   *)
(* that are submitted ready-made, the worker that empties the ingestion    *)
(* queue (backend/app/ingestion_worker.py), a client that asks for the     *)
(* status of an analysis, and restarts of the backend.                     *)
(*                                                                         *)
(* setting is what a behaviour starts from: the file of every uploader,    *)
(* the results of every submitter, the requests the gateway may get        *)
(* ([of, package, permissions]), whether there is a database, what it      *)
(* refuses (tags: the driver does not take a case with capability tags),   *)
(* whether a sandbox is configured, and how many failed calls, polls,      *)
(* restarts and Redis outages there may be (left counts them down).        *)
(*                                                                         *)
(* run[a] is where actor a is: its next step pc, the step after the write  *)
(* it waits for (then), the id and file of its analysis, the case it holds *)
(* and the row it saves.                                                   *)
(***************************************************************************)
EXTENDS CaseAnalysis, CaseStore, JobStatus, IngestQueue

CONSTANT Settings

Worker == "worker"

\* The worker uploads nothing.
ASSUME WorkerAssumption == \A s \in Settings : Worker \notin DOMAIN s.upload

\* A file is one of Contents, and so is what lies in an archive.
ASSUME IntakeAssumption ==
    /\ \A s \in Settings :
          /\ \A u \in DOMAIN s.upload : s.upload[u].of \in DOMAIN Contents
          /\ \A r \in s.ingest : r.of \in DOMAIN Contents
    /\ \A h \in DOMAIN Contents : \A i \in 1..Len(Contents[h].members) :
          Contents[h].members[i].of \in DOMAIN Contents

\* Results come as lists: finitely many rules matched, connections and chains are
\* in order, and a document without a run names nothing that was seen in one.
ASSUME EvidenceAssumption ==
    /\ \A h \in DOMAIN Contents :
          Contents[h].magic \in {"json", "bson"} /\ Contents[h].doc.shape = "report" =>
             LET doc == Contents[h].doc
             IN  /\ "yara" \in DOMAIN doc.static /\ IsFiniteSet(doc.static.yara)
                 /\ doc.dynamic.connections \in
                       Seq([ip : STRING, c2 : BOOLEAN, interval : Nat])
                 /\ doc.dynamic.observed \/ doc.dynamic = NoDynamic
    /\ \A s \in Settings : \A a \in DOMAIN s.submit :
          /\ IsFiniteSet(s.submit[a].static.yara)
          /\ s.submit[a].dynamic.chains \in
                Seq([rule : STRING, severity : STRING, points : Int])

VARIABLES setting, left, run, poll, told, forgotten, excused

intakeVars == <<setting, left, run, poll, told, forgotten, excused>>

vars == <<storeVars, jobVars, queueVars, intakeVars>>

Uploaders  == DOMAIN setting.upload
Submitters == DOMAIN setting.submit
Actors     == Uploaders \cup Submitters \cup {Worker}

Waiting == [pc |-> "waiting", then |-> "", id |-> "", file |-> NoFile,
            case |-> NoCase, row |-> "", event |-> ""]

Init ==
    /\ setting \in Settings
    /\ left = [failures |-> setting.failures, polls |-> setting.polls,
               restarts |-> setting.restarts, outages |-> setting.outages]
    /\ run = [a \in Actors |->
                IF a = Worker THEN [Waiting EXCEPT !.pc = "polling"] ELSE Waiting]
    /\ poll = [id |-> "", row |-> NoJob]
    /\ told = [id |-> "", status |-> "", found |-> FALSE]
    /\ forgotten = {} /\ excused = {}
    /\ InitStore /\ InitJobs(Actors) /\ InitQueue

\* What the analysis of every file comes to; computed once.
Outcome ==
    [h \in DOMAIN Contents |->
        [suffix \in AllowedSuffixes \cup {"mach_o"} |-> AnalyzeFile(h, suffix)]]

Spend(what) == left[what] > 0 /\ left' = [left EXCEPT ![what] = @ - 1]

-----------------------------------------------------------------------------
(* Steps that end in a write *)

Goes(a, pc) == run' = [run EXCEPT ![a].pc = pc]

\* update_job: the write of the row comes before the step then.
Report(a, id, changes, then) ==
    /\ UpdateJob(a, id, changes, setting.database)
    /\ run' = [run EXCEPT ![a].pc = IF setting.database THEN "persist" ELSE then,
                          ![a].then = then, ![a].id = id]

\* save_case: case c, that a holds, under the given id.
Save(a, c, id, event, then) ==
    /\ memory' = Remembered(Shared(memory, a, c), a, id, c)
    /\ UNCHANGED <<rows, custody, holder, tail>>
    /\ run' = [run EXCEPT ![a].pc = IF setting.database THEN "begin" ELSE then,
                          ![a].then = then, ![a].case = c,
                          ![a].row = id, ![a].event = event]

\* The write goes through; what it carries may be older than another's.
Persist(a) ==
    /\ run[a].pc = "persist"
    /\ \E job \in sending[a].values :
          /\ PersistJob(a, job)
          /\ excused' = excused \cup When(Overtaken(a, job), {sending[a].id})
    /\ Goes(a, run[a].then)
    /\ UNCHANGED <<storeVars, queueVars, setting, left, poll, told, forgotten>>

LosePersist(a) ==
    /\ run[a].pc = "persist"
    /\ Spend("failures")
    /\ LoseJobWrite(a)
    /\ excused' = excused \cup {sending[a].id}
    /\ Goes(a, run[a].then)
    /\ UNCHANGED <<storeVars, queueVars, setting, poll, told, forgotten>>

Begin(a) ==
    /\ run[a].pc = "begin"
    /\ BeginSave(a, run[a].row)
    /\ Goes(a, "commit")
    /\ UNCHANGED <<jobVars, queueVars, setting, left, poll, told, forgotten, excused>>

Refused(c) == ~Acceptable(c) \/ (setting.tags /\ c.capabilities # {})

Commit(a) ==
    /\ run[a].pc = "commit"
    /\ ~Refused(run[a].case)
    /\ CommitSave(a, run[a].row, run[a].case, run[a].event)
    /\ Goes(a, run[a].then)
    /\ UNCHANGED <<jobVars, queueVars, setting, left, poll, told, forgotten, excused>>

\* What goes wrong in the transaction is logged, and the work goes on.
Abort(a) ==
    /\ run[a].pc = "commit"
    /\ IF Refused(run[a].case) THEN UNCHANGED left ELSE Spend("failures")
    /\ AbortSave(a, run[a].row)
    /\ Goes(a, run[a].then)
    /\ UNCHANGED <<jobVars, queueVars, setting, poll, told, forgotten, excused>>

-----------------------------------------------------------------------------
(* The upload *)

DynamicStatus(c) ==
    IF c.dynamic.status \in {"absent", "none"} THEN "" ELSE c.dynamic.status

\* The lookup of the case fails when the database does.
Lookup(id, c) ==
    \/ c = GetCase(id, setting.database) /\ UNCHANGED left
    \/ setting.database /\ Spend("failures") /\ c = GetCase(id, FALSE)

RejectUpload(a) ==
    /\ run[a].pc = "waiting"
    /\ Uploaded(setting.upload[a]) = NoFile
    /\ Goes(a, "done")
    /\ UNCHANGED <<storeVars, jobVars, queueVars, setting, left, poll, told,
                   forgotten, excused>>

\* The sample has no case: the answer of the database comes before other steps,
\* so several uploads of it may all have found none.
FindNoCase(a) ==
    LET f == Uploaded(setting.upload[a])
    IN  /\ run[a].pc = "waiting"
        /\ f # NoFile
        /\ Lookup(f.of, NoCase)
        /\ Goes(a, "unknown")
        /\ UNCHANGED <<storeVars, jobVars, queueVars, setting, poll, told, forgotten,
                       excused>>

StartUpload(a) ==
    LET f == Uploaded(setting.upload[a])
    IN  /\ run[a].pc = "unknown"
        /\ f # NoFile
        /\ CreateJob(a, f.of, Changes("UPLOADED", "", ""), setting.database)
        /\ run' = [run EXCEPT
                     ![a].pc = IF setting.database THEN "persist" ELSE "validate",
                     ![a].then = "validate", ![a].id = f.of, ![a].file = f]
        /\ excused' = excused \ {f.of}
        /\ UNCHANGED <<storeVars, queueVars, setting, left, poll, told, forgotten>>

\* The sample has a case: the job is complete, whoever may be at work on it.  A
\* case that is found stays, so its lookup and the report are one step.
RepeatUpload(a) ==
    LET f == Uploaded(setting.upload[a])
    IN  /\ run[a].pc = "waiting"
        /\ f # NoFile
        /\ \E readable \in BOOLEAN :
              LET c == GetCase(f.of, readable)
              IN  /\ c # NoCase
                  /\ Lookup(f.of, c)
                  /\ Report(a, f.of, Changes("COMPLETED", DynamicStatus(c), ""), "done")
        /\ UNCHANGED <<storeVars, queueVars, setting, poll, told, forgotten, excused>>

Validate(a) ==
    /\ run[a].pc = "validate"
    /\ Report(a, run[a].id, Changes("VALIDATING", "", ""), "static")
    /\ UNCHANGED <<storeVars, queueVars, setting, left, poll, told, forgotten, excused>>

StartStatic(a) ==
    /\ run[a].pc = "static"
    /\ Report(a, run[a].id, Changes("STATIC_ANALYSIS", "", ""), "analyse")
    /\ UNCHANGED <<storeVars, queueVars, setting, left, poll, told, forgotten, excused>>

\* Mutant of AfterFailure: only an unsupported format is reported.
ErrorUnreported(kind) == IF kind = "unsupported" THEN "fail" ELSE "done"

\* Every exception, not only that of an unsupported format, ends in FAILED.
AfterFailure(kind) == "fail"

AnalyseUpload(a) ==
    /\ a \in Uploaders
    /\ run[a].pc = "analyse"
    /\ \E r \in {Outcome[run[a].file.of][run[a].file.suffix]} :
          IF r.kind = "case"
          THEN Save(a, [r.case EXCEPT !.analysis = "STATIC_ANALYSIS"], r.case.id,
                    "static_analysis_complete", "analysed")
          ELSE Goes(a, AfterFailure(r.kind)) /\ UNCHANGED storeVars
    /\ UNCHANGED <<jobVars, queueVars, setting, left, poll, told, forgotten, excused>>

\* A case with an id of its own is also kept under that of the file.
SaveAlias(a) ==
    /\ run[a].pc = "analysed"
    /\ run[a].case.id # run[a].id
    /\ Save(a, [run[a].case EXCEPT !.analysis = "DYNAMIC_ANALYSIS"], run[a].id,
            "json_bson_alias", "dynamic")
    /\ UNCHANGED <<jobVars, queueVars, setting, left, poll, told, forgotten, excused>>

StartDynamic(a) ==
    LET c == [run[a].case EXCEPT !.analysis = "DYNAMIC_ANALYSIS"]
    IN  /\ \/ run[a].pc = "dynamic"
           \/ run[a].pc = "analysed" /\ run[a].case.id = run[a].id
        /\ memory' = Shared(memory, a, c)
        /\ UNCHANGED <<rows, custody, holder, tail>>
        /\ UpdateJob(a, run[a].id, Changes("DYNAMIC_ANALYSIS", "", ""), setting.database)
        /\ run' = [run EXCEPT ![a].pc = IF setting.database THEN "persist" ELSE "sandbox",
                              ![a].then = "sandbox", ![a].case = c]
        /\ UNCHANGED <<queueVars, setting, left, poll, told, forgotten, excused>>

\* Evidence that came with the case is not asked for again.
Observe(a) ==
    LET c == run[a].case
        answers == IF c.dynamic.status \in {"absent", "none"}
                   THEN SandboxAnswers(setting.sandbox, run[a].file.suffix, c.platform)
                   ELSE {c.dynamic}
    IN  /\ a \in Uploaders
        /\ run[a].pc = "sandbox"
        /\ \E dynamic \in answers :
              \E renewed \in {WithDynamic(c, dynamic)} :
                  Save(a, renewed, c.id, "dynamic_analysis_checked",
                       IF c.id = run[a].id THEN "complete" ELSE "observed")
        /\ UNCHANGED <<jobVars, queueVars, setting, left, poll, told, forgotten, excused>>

RenewAlias(a) ==
    /\ run[a].pc = "observed"
    /\ Save(a, run[a].case, run[a].id, "dynamic_analysis_checked", "complete")
    /\ UNCHANGED <<jobVars, queueVars, setting, left, poll, told, forgotten, excused>>

Complete(a) ==
    /\ run[a].pc = "complete"
    /\ Report(a, run[a].id, Changes("COMPLETED", DynamicStatus(run[a].case), ""), "done")
    /\ UNCHANGED <<storeVars, queueVars, setting, left, poll, told, forgotten, excused>>

Fail(a) ==
    /\ run[a].pc = "fail"
    /\ Report(a, run[a].id, Changes("FAILED", "", "error"), "done")
    /\ UNCHANGED <<storeVars, queueVars, setting, left, poll, told, forgotten, excused>>

-----------------------------------------------------------------------------
(* Results that are submitted *)

Submit(a) ==
    /\ run[a].pc = "waiting"
    /\ \E c \in {SubmittedCase(setting.submit[a])} :
          Save(a, c, c.id, "static_analysis_complete", "done")
    /\ UNCHANGED <<jobVars, queueVars, setting, left, poll, told, forgotten, excused>>

-----------------------------------------------------------------------------
(* The gateway and the worker *)

Ingest(r) ==
    /\ ValidSample(r.of)
    /\ \/ (Accept(r.of, HighPriority(r.package, r.permissions)) \/ AnswerDuplicate(r.of))
          /\ UNCHANGED left
       \/ Spend("outages") /\ (FailToStore(r.of) \/ FailToPush(r.of) \/ Park(r.of))
    /\ UNCHANGED <<storeVars, jobVars, setting, run, poll, told, forgotten, excused>>

\* The file lies under the name of its hash and of the format found in it.
Pop ==
    /\ run[Worker].pc = "polling"
    /\ Take
    /\ LET h == Head(queue)
       IN  run' = [run EXCEPT ![Worker].pc = "analyse",
                              ![Worker].file = [of |-> h,
                                                suffix |-> DetectFormat(Contents[h])]]
    /\ UNCHANGED <<storeVars, jobVars, setting, left, poll, told, forgotten, excused>>

\* An error of the poll is logged, and the worker polls again.
PopUnanswered ==
    /\ run[Worker].pc = "polling"
    /\ Spend("outages")
    /\ TakeUnanswered
    /\ UNCHANGED <<storeVars, jobVars, setting, run, poll, told, forgotten, excused>>

\* A failure is logged and the job is done with.
AnalyseJob ==
    /\ run[Worker].pc = "analyse"
    /\ \E r \in {Outcome[run[Worker].file.of][run[Worker].file.suffix]} :
          IF r.kind = "case"
          THEN Save(Worker, r.case, r.case.id, "ingested_via_queue",
                    IF r.case.dynamic = Absent THEN "sandbox" ELSE "finish")
          ELSE Goes(Worker, "finish") /\ UNCHANGED storeVars
    /\ UNCHANGED <<jobVars, queueVars, setting, left, poll, told, forgotten, excused>>

\* The worker adds the evidence and derives nothing from it.
ObserveJob ==
    LET c == run[Worker].case
    IN  /\ run[Worker].pc = "sandbox"
        /\ \E dynamic \in SandboxAnswers(setting.sandbox, run[Worker].file.suffix,
                                         c.platform) :
              Save(Worker, [c EXCEPT !.dynamic = dynamic, !.analysis = "COMPLETED"], c.id,
                   "dynamic_analysis_checked", "finish")
        /\ UNCHANGED <<jobVars, queueVars, setting, left, poll, told, forgotten, excused>>

FinishJob ==
    /\ run[Worker].pc = "finish"
    /\ Finish
    /\ run' = [run EXCEPT ![Worker] = [Waiting EXCEPT !.pc = "polling"]]
    /\ UNCHANGED <<storeVars, jobVars, setting, left, poll, told, forgotten, excused>>

-----------------------------------------------------------------------------
(* The status of an analysis *)

Asked == {run[a].id : a \in Uploaders} \ {""}

\* The read of the row comes back after other steps.
AskStatus(id) ==
    /\ poll.id = ""
    /\ Spend("polls")
    /\ poll' = [id |-> id,
                row |-> IF setting.database /\ id \in DOMAIN jobRows THEN jobRows[id]
                        ELSE NoJob]
    /\ UNCHANGED <<storeVars, jobVars, queueVars, setting, run, told, forgotten, excused>>

\* A row replaces the dict; without one, or when the read failed, the dict answers.
AnswerStatus ==
    LET id == poll.id
    IN  /\ id # ""
        /\ \E row \in {poll.row, NoJob} :
              /\ IF row = poll.row THEN UNCHANGED left ELSE Spend("failures")
              /\ IF row = NoJob THEN UNCHANGED jobVars ELSE AdoptRow(id, row)
              /\ LET job == IF row = NoJob THEN JobInMemory(id) ELSE row
                     found == GetCase(id, setting.database) # NoCase
                 IN  told' = [id |-> id, found |-> found,
                              status |-> IF job.status \notin {"", "COMPLETED"}
                                         THEN job.status
                                         ELSE IF found THEN "COMPLETED" ELSE job.status]
        /\ poll' = [id |-> "", row |-> NoJob]
        /\ UNCHANGED <<storeVars, queueVars, setting, run, forgotten, excused>>

-----------------------------------------------------------------------------
(* The backend goes down, by a crash or by a shutdown, and comes up again *)

AtWork(a) == run[a].pc \notin {"waiting", "polling", "off", "done"}

\* A shutdown closes the database before it cancels the analyses, so their
\* last status goes to memory only: it leaves what a crash leaves.  The worker
\* stays off when it does not reach Redis as it starts.
Restart ==
    /\ left.restarts > 0
    /\ ForgetCases /\ ForgetJobs /\ LoseTaken
    /\ forgotten' = forgotten \cup (DOMAIN memory \ DOMAIN rows)
    /\ excused' = excused \cup {run[a].id : a \in {b \in Uploaders : AtWork(b)}}
    /\ \E worker \in {"polling"} \cup (IF left.outages > 0 THEN {"off"} ELSE {}) :
          run' = [a \in Actors |->
                    IF a = Worker THEN [Waiting EXCEPT !.pc = worker]
                    ELSE IF AtWork(a) THEN [Waiting EXCEPT !.pc = "done"] ELSE run[a]]
    /\ left' = [left EXCEPT !.restarts = @ - 1]
    /\ poll' = [id |-> "", row |-> NoJob]
    /\ UNCHANGED <<setting, told>>

-----------------------------------------------------------------------------
(* The system *)

\* The steps an actor takes by itself once its request is in.
UploadStep(a) ==
    \/ Validate(a) \/ StartStatic(a) \/ AnalyseUpload(a) \/ SaveAlias(a)
    \/ StartDynamic(a) \/ Observe(a) \/ RenewAlias(a) \/ Complete(a) \/ Fail(a)

WriteStep(a) == Persist(a) \/ LosePersist(a) \/ Begin(a) \/ Commit(a) \/ Abort(a)

WorkerStep == Pop \/ PopUnanswered \/ AnalyseJob \/ ObserveJob \/ FinishJob

Next ==
    \/ \E a \in Uploaders :
          \/ RejectUpload(a) \/ FindNoCase(a) \/ StartUpload(a) \/ RepeatUpload(a)
          \/ UploadStep(a)
    \/ \E a \in Submitters : Submit(a)
    \/ \E a \in Actors : WriteStep(a)
    \/ \E r \in setting.ingest : Ingest(r)
    \/ WorkerStep
    \/ \E id \in Asked : AskStatus(id)
    \/ AnswerStatus
    \/ Restart

Spec == Init /\ [][Next]_vars

\* The event loop and the database serve every task that is under way.
Fairness ==
    /\ \A a \in UNION {DOMAIN s.upload : s \in Settings} :
          WF_vars(a \in Uploaders /\ (StartUpload(a) \/ UploadStep(a) \/ WriteStep(a)))
    /\ \A a \in (UNION {DOMAIN s.submit : s \in Settings}) \cup {Worker} :
          WF_vars(a \in Actors /\ WriteStep(a))

FairSpec == Spec /\ Fairness

-----------------------------------------------------------------------------
(* Properties *)

Statuses == {"UPLOADED", "VALIDATING", "STATIC_ANALYSIS", "DYNAMIC_ANALYSIS",
             "COMPLETED", "FAILED"}

InProgress == Statuses \ {"COMPLETED", "FAILED"}

StoredCases ==
    {memory[id].case : id \in DOMAIN memory} \cup {rows[id] : id \in DOMAIN rows}

\* The records are what the code keeps: a score is between 0 and 100 in every
\* row and in every case that was computed, and a job always has a status.
TypeOK ==
    /\ \A id \in DOMAIN rows : Acceptable(rows[id])
    /\ \A c \in StoredCases : c.computed => c.risk \in 0..100
    /\ \A id \in DOMAIN jobs : jobs[id].status \in Statuses
    /\ \A id \in DOMAIN jobRows : jobRows[id].status \in Statuses
    /\ \A a \in Actors : run[a].id # "" => run[a].pc # "polling"
    /\ \A id \in DOMAIN holder : holder[id] \in DOMAIN tail

\* store.py promises a hash-chained trail: the rows of a sample follow each
\* other without a fork however saves of it overlap, and the last of them
\* names the score and the status the case has.
CustodyLinear ==
    /\ DOMAIN custody = DOMAIN rows
    /\ \A id \in DOMAIN custody :
          LET trail == custody[id]
          IN  /\ \A i \in 1..Len(trail) : trail[i].previous = i - 1
              /\ Last(trail).risk = rows[id].risk
              /\ Last(trail).status = rows[id].status

PartsSum(c) ==
    c.explanation.yara + c.explanation.mitre + c.explanation.capabilities
    + c.explanation.other

ScoreExplained(c) ==
    \/ c.explanation = NoExplanation
    \/ PartsSum(c) = c.risk
    \/ c.risk = 100 /\ PartsSum(c) >= 100

StatusAgrees(c) ==
    /\ c.status = "malicious" <=> c.assessment.verdict = "MALICIOUS"
    /\ c.assessment.verdict = "CLEAN" => c.status = "clean"

\* No indicator is called malicious or corroborated beyond the dynamic evidence
\* that the case carries.  Whether that evidence is of a run is not asked: without
\* a sandbox it is a canned profile (WindowsProfile, AndroidProfile).
IndicatorsTraceable(c) ==
    LET d == c.dynamic.evidence
        Contacted(ip, flagged) ==
            \E k \in ToSet(d.connections) : k.ip = ip /\ (flagged => k.c2)
    IN  \A i \in c.iocs :
            /\ i.class = "MALICIOUS" => Contacted(i.indicator, TRUE)
            /\ i.state = "CORROBORATED" =>
                  Contacted(i.indicator, FALSE) \/ i.indicator \in d.dns

Score(s, d) == RiskScore(s, d, MapToMitre(s, d), ClassifyCapabilities(s, d))

\* The evidence itself, and with one static finding less.
NoStronger(s) ==
    {s} \cup {[s EXCEPT !.yara = @ \ {y}] : y \in s.yara}
    \cup {[s EXCEPT !.permissions = @ \ {p}] : p \in s.permissions}
    \cup {[s EXCEPT !.imports = @ \ {i}] : i \in s.imports}
    \cup {[s EXCEPT !.urls = {}], [s EXCEPT !.ips = {}], [s EXCEPT !.flags = {}]}

Findable ==
    {StaticEvidence(r) : r \in {x \in {Analyze(h, "exe") : h \in DOMAIN Contents} : ~x.failed}}

\* Less evidence never scores higher, with or without dynamic evidence.
EvidenceMonotone ==
    \A s \in Findable, d \in {NoDynamic, AndroidProfile, WindowsProfile} :
        \A full \in {Score(s, d)} :
            \A w \in NoStronger(s), e \in {d, NoDynamic} : Score(w, e) <= full

\* What a stored case says of its sample hangs together: the explanation adds
\* up to the score, the status and the verdict agree, every indicator rests on
\* evidence the case carries, and no chain of links is broken.
VerdictSound ==
    /\ EvidenceMonotone
    /\ \A c \in StoredCases :
          c.computed => /\ ScoreExplained(c)
                        /\ StatusAgrees(c)
                        /\ IndicatorsTraceable(c)
                        /\ c.chain # "tampered"

\* A client that is told COMPLETED can fetch the case, unless a restart took
\* a case that never reached the database.
CompletedMeansSaved ==
    told.status = "COMPLETED" => told.found \/ told.id \in forgotten

\* Every sample the gateway has entered is in exactly one place: in the queue,
\* once, in the worker's hand, dealt with or lost to a failed call or a restart;
\* and what is yet to be analysed has its file.
QueuedOnce ==
    /\ \A i, j \in 1..Len(queue) : queue[i] = queue[j] => i = j
    /\ Queued \cap taken = {} /\ Queued \cap handled = {} /\ Queued \cap lost = {}
    /\ taken \cap handled = {} /\ taken \cap lost = {} /\ handled \cap lost = {}
    /\ Queued \cup taken \cup handled \cup lost = seen
    /\ Queued \cup taken \subseteq disk

\* The status a poll would be given.
Reported(id) ==
    IF setting.database /\ id \in DOMAIN jobRows THEN jobRows[id].status
    ELSE JobInMemory(id).status

\* In the end no analysis is reported as under way that was not cut off by a
\* restart and whose last status was not lost or overtaken on its way to the row.
UploadSettles ==
    <>[](\A id \in Asked : Reported(id) \in InProgress => id \in excused)
=============================================================================
