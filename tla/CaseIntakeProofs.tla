--------------------------- MODULE CaseIntakeProofs ---------------------------
(***************************************************************************)
(* Proofs about CaseIntake, for every set of files, words, signatures and  *)
(* settings: no sample is lost from the queue, the custody of a sample is  *)
(* one trail, and an analysis that is reported as completed has a case.    *)
(***************************************************************************)
EXTENDS CaseIntake, SequenceTheorems, FiniteSetTheorems, TLAPS

-----------------------------------------------------------------------------
(* The queue *)

QueueInv == queue \in Seq(seen) /\ QueuedOnce

\* What a step of the system may do to the queue.
QueueStep ==
    \/ \E h, urgent : Accept(h, urgent)
    \/ \E h : FailToStore(h) \/ FailToPush(h) \/ AnswerDuplicate(h) \/ Park(h)
    \/ Take \/ TakeUnanswered \/ Finish \/ LoseTaken
    \/ UNCHANGED queueVars

\* The gateway, the worker and a restart change the queue by its operations
\* only, and nothing else touches it.
LEMMA QueueSteps == [Next]_vars => QueueStep
  <1> SUFFICES ASSUME [Next]_vars PROVE QueueStep
    OBVIOUS
  <1>1. ASSUME NEW r \in setting.ingest, Ingest(r)
        PROVE  QueueStep
    BY <1>1 DEF Ingest, QueueStep
  <1>2. CASE WorkerStep
    BY <1>2 DEF WorkerStep, Pop, PopUnanswered, AnalyseJob, ObserveJob, FinishJob, QueueStep
  <1>3. CASE Restart
    BY <1>3 DEF Restart, QueueStep
  <1>4. ASSUME NEW a \in Uploaders,
               RejectUpload(a) \/ FindNoCase(a) \/ StartUpload(a) \/ RepeatUpload(a)
               \/ UploadStep(a)
        PROVE  QueueStep
    <2>1. UNCHANGED queueVars
      BY <1>4 DEF UploadStep, RejectUpload, FindNoCase, StartUpload, RepeatUpload, Validate,
                  StartStatic, AnalyseUpload, SaveAlias, StartDynamic, Observe, RenewAlias,
                  Complete, Fail
    <2> QED
      BY <2>1 DEF QueueStep
  <1>5. ASSUME NEW a \in Submitters, Submit(a)
        PROVE  QueueStep
    BY <1>5 DEF Submit, QueueStep
  <1>6. ASSUME NEW a \in Actors, WriteStep(a)
        PROVE  QueueStep
    BY <1>6 DEF WriteStep, Persist, LosePersist, Begin, Commit, Abort, QueueStep
  <1>7. CASE AnswerStatus \/ \E id \in Asked : AskStatus(id)
    BY <1>7 DEF AnswerStatus, AskStatus, QueueStep
  <1>8. CASE UNCHANGED vars
    BY <1>8 DEF vars, QueueStep
  <1> QED
    BY <1>1, <1>2, <1>3, <1>4, <1>5, <1>6, <1>7, <1>8 DEF Next

\* Entering a fresh sample at either end of the queue keeps it free of repetitions.
LEMMA FreshEntry ==
  ASSUME QueueInv, NEW h, h \notin seen, NEW q,
         q = <<h>> \o queue \/ q = Append(queue, h)
  PROVE  /\ q \in Seq(seen \cup {h})
         /\ \A i, j \in 1..Len(q) : q[i] = q[j] => i = j
         /\ \A i \in 1..Len(q) : q[i] \in Queued \cup {h}
         /\ \A x \in Queued \cup {h} : \E i \in 1..Len(q) : q[i] = x
  <1>1. /\ queue \in Seq(seen) /\ Len(queue) \in Nat
        /\ \A i \in 1..Len(queue) : queue[i] \in seen
        /\ \A i, j \in 1..Len(queue) : queue[i] = queue[j] => i = j
    BY DEF QueueInv, QueuedOnce
  <1>2. CASE q = <<h>> \o queue
    <2>1. /\ q \in Seq(seen \cup {h})
          /\ Len(q) = 1 + Len(queue)
          /\ \A i \in 1..Len(q) : q[i] = IF i = 1 THEN h ELSE queue[i - 1]
      BY <1>1, <1>2
    <2>2. \A i, j \in 1..Len(q) : q[i] = q[j] => i = j
      BY <1>1, <2>1
    <2>3. /\ 1 \in 1..Len(q) /\ q[1] = h
          /\ \A i \in 1..Len(queue) : i + 1 \in 1..Len(q) /\ q[i + 1] = queue[i]
      BY <1>1, <2>1
    <2>4. \A i \in 1..Len(q) : q[i] \in Queued \cup {h}
      BY <1>1, <2>1 DEF Queued
    <2>5. \A x \in Queued \cup {h} : \E i \in 1..Len(q) : q[i] = x
      BY <2>3 DEF Queued
    <2> QED
      BY <2>1, <2>2, <2>4, <2>5
  <1>3. CASE q = Append(queue, h)
    <2>1. /\ q \in Seq(seen \cup {h})
          /\ Len(q) = Len(queue) + 1
          /\ \A i \in 1..Len(q) : q[i] = IF i = Len(queue) + 1 THEN h ELSE queue[i]
      BY <1>1, <1>3
    <2>2. \A i, j \in 1..Len(q) : q[i] = q[j] => i = j
      BY <1>1, <2>1
    <2>3. /\ Len(q) \in 1..Len(q) /\ q[Len(q)] = h
          /\ \A i \in 1..Len(queue) : i \in 1..Len(q) /\ q[i] = queue[i]
      BY <1>1, <2>1
    <2>4. \A i \in 1..Len(q) : q[i] \in Queued \cup {h}
      BY <1>1, <2>1 DEF Queued
    <2>5. \A x \in Queued \cup {h} : \E i \in 1..Len(q) : q[i] = x
      BY <2>3 DEF Queued
    <2> QED
      BY <2>1, <2>2, <2>4, <2>5
  <1> QED
    BY <1>2, <1>3

\* The places a sample can be in and the set of the samples entered.
LEMMA Places ==
  ASSUME QueueInv
  PROVE  /\ Queued \subseteq seen /\ taken \subseteq seen
         /\ handled \subseteq seen /\ lost \subseteq seen
  BY DEF QueueInv, QueuedOnce

\* A sample the gateway accepts was not in any place before.
LEMMA AcceptKeepsQueue ==
  ASSUME QueueInv, NEW h, NEW urgent, Accept(h, urgent)
  PROVE  QueueInv'
  <1>1. h \notin seen
    BY DEF Accept, Fresh
  <1>2. queue' = <<h>> \o queue \/ queue' = Append(queue, h)
    BY DEF Accept
  <1>3. /\ queue' \in Seq(seen')
        /\ \A i, j \in 1..Len(queue') : queue'[i] = queue'[j] => i = j
        /\ Queued' = Queued \cup {h}
    <2>1. seen' = seen \cup {h} /\ Queued' = {queue'[i] : i \in 1..Len(queue')}
      BY DEF Accept, Queued
    <2>2. /\ queue' \in Seq(seen \cup {h})
          /\ \A i, j \in 1..Len(queue') : queue'[i] = queue'[j] => i = j
          /\ \A i \in 1..Len(queue') : queue'[i] \in Queued \cup {h}
          /\ \A x \in Queued \cup {h} : \E i \in 1..Len(queue') : queue'[i] = x
      BY <1>1, <1>2, FreshEntry
    <2> QED
      BY <2>1, <2>2
  <1>4. /\ seen' = seen \cup {h} /\ disk' = disk \cup {h}
        /\ taken' = taken /\ handled' = handled /\ lost' = lost
    BY DEF Accept
  <1> QED
    BY <1>1, <1>3, <1>4, Places DEF QueueInv, QueuedOnce

\* A sample whose file or job could not be stored is lost; its hash stays.
LEMMA LossKeepsQueue ==
  ASSUME QueueInv, NEW h, FailToStore(h) \/ FailToPush(h)
  PROVE  QueueInv'
  <1>1. /\ h \notin seen /\ seen' = seen \cup {h} /\ lost' = lost \cup {h}
        /\ queue' = queue /\ taken' = taken /\ handled' = handled
        /\ disk \subseteq disk'
    BY DEF FailToStore, FailToPush, Fresh
  <1>2. Queued' = Queued /\ queue' \in Seq(seen')
    BY <1>1 DEF Queued, QueueInv
  <1> QED
    BY <1>1, <1>2, Places DEF QueueInv, QueuedOnce

\* A pop takes the first sample out of the queue, into the worker's hand or, when
\* its answer is lost, into nobody's.
LEMMA TakeKeepsQueue ==
  ASSUME QueueInv, Take \/ TakeUnanswered
  PROVE  QueueInv'
  <1>1. /\ queue \in Seq(seen) /\ queue # <<>> /\ Len(queue) \in Nat
        /\ queue' = Tail(queue) /\ taken = {}
        /\ \/ taken' = {queue[1]} /\ lost' = lost
           \/ taken' = {} /\ lost' = lost \cup {queue[1]}
        /\ UNCHANGED <<seen, disk, handled>>
    BY DEF Take, TakeUnanswered, QueueInv
  <1>2. /\ queue' \in Seq(seen) /\ Len(queue) >= 1 /\ Len(queue') = Len(queue) - 1
        /\ \A i \in 1..Len(queue') : queue'[i] = queue[i + 1]
    BY <1>1
  <1>3. \A i, j \in 1..Len(queue) : queue[i] = queue[j] => i = j
    BY DEF QueueInv, QueuedOnce
  <1>4. \A i, j \in 1..Len(queue') : queue'[i] = queue'[j] => i = j
    BY <1>1, <1>2, <1>3
  <1>5. Queued' = Queued \ {queue[1]}
    <2>1. Queued' = {queue'[i] : i \in 1..Len(queue')}
      BY DEF Queued
    <2>2. Queued' \subseteq Queued \ {queue[1]}
      BY <1>1, <1>2, <1>3, <2>1 DEF Queued
    <2>3. ASSUME NEW i \in 1..Len(queue), queue[i] # queue[1]
          PROVE  queue[i] \in Queued'
      <3>1. i - 1 \in 1..Len(queue') /\ queue'[i - 1] = queue[i]
        BY <1>1, <1>2, <2>3
      <3> QED
        BY <2>1, <3>1
    <2> QED
      BY <1>1, <2>2, <2>3 DEF Queued
  <1>6. queue[1] \in Queued
    BY <1>1, <1>2 DEF Queued
  <1> QED
    BY <1>1, <1>2, <1>4, <1>5, <1>6 DEF QueueInv, QueuedOnce

\* Every operation of the queue keeps its invariant.
LEMMA QueueStepKeeps == QueueInv /\ QueueStep => QueueInv'
  <1> SUFFICES ASSUME QueueInv, QueueStep PROVE QueueInv'
    OBVIOUS
  <1>1. ASSUME NEW h, AnswerDuplicate(h) \/ Park(h)
        PROVE  QueueInv'
    <2>1. UNCHANGED <<seen, queue, taken, handled, lost>> /\ disk \subseteq disk'
      BY <1>1 DEF AnswerDuplicate, Park
    <2> QED
      BY <2>1 DEF QueueInv, QueuedOnce, Queued
  <1>2. CASE Finish \/ LoseTaken
    <2>1. /\ UNCHANGED <<seen, queue, disk>> /\ taken' = {}
          /\ handled' \cup lost' = handled \cup lost \cup taken
          /\ handled' \subseteq handled \cup taken /\ lost' \subseteq lost \cup taken
          /\ handled' = handled \/ lost' = lost
      BY <1>2 DEF Finish, LoseTaken
    <2>2. Queued' = Queued
      BY <2>1 DEF Queued
    <2> QED
      BY <2>1, <2>2 DEF QueueInv, QueuedOnce
  <1>3. CASE UNCHANGED queueVars
    BY <1>3 DEF queueVars, QueueInv, QueuedOnce, Queued
  <1> QED
    BY <1>1, <1>2, <1>3, AcceptKeepsQueue, LossKeepsQueue, TakeKeepsQueue DEF QueueStep

\* The gateway starts with nothing entered.
LEMMA InitQueueInv == Init => QueueInv
  <1> SUFFICES ASSUME Init PROVE QueueInv
    OBVIOUS
  <1>1. /\ queue = <<>> /\ seen = {} /\ taken = {} /\ handled = {} /\ lost = {}
        /\ Len(queue) = 0
    BY DEF Init, InitQueue
  <1>2. queue \in Seq(seen) /\ Queued = {}
    BY <1>1 DEF Queued
  <1> QED
    BY <1>1, <1>2 DEF QueueInv, QueuedOnce

\* For whatever comes in and whatever fails: a sample that was entered is in
\* the queue once, in the worker's hand, dealt with or lost, and never in two
\* of these places.
THEOREM QueueSafe == Spec => []QueuedOnce
  <1>1. QueueInv /\ [Next]_vars => QueueInv'
    BY QueueSteps, QueueStepKeeps
  <1>2. QueueInv => QueuedOnce
    BY DEF QueueInv
  <1> QED
    BY InitQueueInv, <1>1, <1>2, PTL DEF Spec

-----------------------------------------------------------------------------
(* What every actor holds *)

USE IntakeAssumption

ActorFields == {"pc", "then", "id", "file", "case", "row", "event"}

CaseFields == {"id", "risk", "status", "platform", "ftype"}

IsCase(c) == CaseFields \subseteq DOMAIN c

Analysable(f) ==
    /\ f.of \in DOMAIN Contents
    /\ f.suffix \in AllowedSuffixes \cup {"mach_o"}

\* The steps at which an actor holds a case, and those before it analyses its file.
Holding == {"begin", "commit", "analysed", "dynamic", "sandbox", "observed"}

Reading == {"validate", "static", "analyse"}

ActorOK(r) ==
    /\ ActorFields \subseteq DOMAIN r
    /\ r.then # "commit"
    /\ r.pc \in Holding \/ r.then \in Holding => IsCase(r.case)
    /\ r.pc \in Reading \/ r.then \in Reading => Analysable(r.file)

RunOK ==
    /\ setting \in Settings
    /\ DOMAIN run = Actors
    /\ \A a \in Actors : ActorOK(run[a])
    /\ \A h \in seen : h \in DOMAIN Contents /\ ValidSample(h)

\* A case that is made of conclusions has the fields a row needs.
LEMMA CaseFromShape ==
  ASSUME NEW id, NEW s, NEW shown, NEW explained, NEW g, NEW indicators, NEW cards,
         NEW assessment
  PROVE  IsCase(CaseFrom(id, s, shown, explained, g, indicators, cards, assessment))
  BY DEF CaseFrom, IsCase, CaseFields

\* The conclusions of CaseOf are those of CaseFrom.
LEMMA CaseOfShape ==
  ASSUME NEW id, NEW s, NEW judged, NEW shown, NEW explained
  PROVE  IsCase(CaseOf(id, s, judged, shown, explained))
  BY CaseFromShape DEF CaseOf, Judged

\* So has every case an analysis comes to, imported or computed.
LEMMA AnalysisShape ==
  ASSUME NEW h, NEW suffix, AnalyzeFile(h, suffix).kind = "case"
  PROVE  IsCase(AnalyzeFile(h, suffix).case)
  <1>1. ASSUME NEW kind, Fails(kind).kind = "case", kind \in {"error", "unsupported"}
        PROVE  FALSE
    BY <1>1 DEF Fails
  <1>2. ASSUME NEW doc, ImportReport(h, doc).kind = "case"
        PROVE  IsCase(ImportReport(h, doc).case)
    BY <1>1, <1>2, CaseOfShape DEF ImportReport, Succeeds, IsCase
  <1>3. ASSUME NEW doc
        PROVE  IsCase(ImportCase(h, doc).case)
    BY DEF ImportCase, Succeeds, IsCase, CaseFields
  <1>4. ASSUME NEW report, FromReport(report).kind = "case"
        PROVE  IsCase(FromReport(report).case)
    BY <1>1, <1>4, CaseOfShape DEF FromReport, Succeeds
  <1>5. ASSUME NEW kind, ReadDocument(h, kind).kind = "case"
        PROVE  IsCase(ReadDocument(h, kind).case)
    BY <1>1, <1>2, <1>3, <1>5 DEF ReadDocument
  <1> QED
    BY <1>4, <1>5 DEF AnalyzeFile

\* The table of outcomes holds what the analysis of each file comes to.
LEMMA OutcomeShape ==
  ASSUME NEW f, Analysable(f), Outcome[f.of][f.suffix].kind = "case"
  PROVE  IsCase(Outcome[f.of][f.suffix].case)
  <1>1. Outcome[f.of][f.suffix] = AnalyzeFile(f.of, f.suffix)
    BY DEF Outcome, Analysable
  <1> QED
    BY <1>1, AnalysisShape

\* Dynamic evidence adds to a case and takes no field away.
LEMMA RenewedShape ==
  ASSUME NEW c, IsCase(c), NEW dynamic
  PROVE  IsCase(WithDynamic(c, dynamic))
  BY DEF WithDynamic, Renewed, IsCase

\* What an upload hands on, and what the gateway lets in, can be analysed.
LEMMA UploadedAnalysable ==
  ASSUME setting \in Settings, NEW a \in Uploaders, Uploaded(setting.upload[a]) # NoFile
  PROVE  Analysable(Uploaded(setting.upload[a]))
  <1> DEFINE f == setting.upload[a]
             c == Contents[f.of]
             samples == {i \in 1..Len(c.members) :
                           c.members[i].suffix \in AllowedSuffixes \ {"zip"}}
             i == CHOOSE j \in samples : TRUE
  <1>1. f.of \in DOMAIN Contents
    BY DEF Uploaders
  <1>2. CASE f.suffix # "zip"
    BY <1>1, <1>2 DEF Uploaded, Analysable
  <1>3. CASE f.suffix = "zip"
    <2>1. /\ ZipSample(c) # NoFile /\ Uploaded(f) = ZipSample(c)
      BY <1>3 DEF Uploaded
    <2>2. /\ Cardinality(samples) = 1
          /\ ZipSample(c) = [of |-> c.members[i].of, suffix |-> c.members[i].suffix]
      BY <2>1 DEF ZipSample
    <2> HIDE DEF samples
    <2>3. samples # {}
      BY <2>2, FS_EmptySet
    <2>4. i \in samples
      BY <2>3
    <2>5. /\ i \in 1..Len(c.members)
          /\ c.members[i].suffix \in AllowedSuffixes
      BY <2>4 DEF samples
    <2>6. c.members[i].of \in DOMAIN Contents
      BY <1>1, <2>5
    <2> HIDE DEF i, c
    <2> QED
      BY <2>1, <2>2, <2>5, <2>6 DEF Analysable
  <1> QED
    BY <1>2, <1>3

\* What the gateway lets in has a format the analysis knows.
LEMMA ValidAnalysable ==
  ASSUME NEW h \in DOMAIN Contents, ValidSample(h)
  PROVE  Analysable([of |-> h, suffix |-> DetectFormat(Contents[h])])
  <1>1. DetectFormat(Contents[h]) \in {"apk", "exe", "dll", "elf", "mach_o", "json", "bson"}
    BY DEF ValidSample, DetectFormat, Declared
  <1> QED
    BY <1>1 DEF Analysable, AllowedSuffixes

-----------------------------------------------------------------------------
(* The steps of one actor *)

\* Nobody but a moves.
OthersStay(a) ==
    /\ DOMAIN run' = DOMAIN run
    /\ \A b \in Actors \ {a} : run'[b] = run[b]

\* A step that only moves a on.
LEMMA GoesStep ==
  ASSUME RunOK, NEW a \in Actors, NEW pc, Goes(a, pc),
         pc \in Holding => IsCase(run[a].case),
         pc \in Reading => Analysable(run[a].file)
  PROVE  OthersStay(a) /\ ActorOK(run'[a]) /\ run'[a].pc = pc /\ run'[a].row = run[a].row
  <1>1. ActorOK(run[a]) /\ DOMAIN run = Actors
    BY DEF RunOK
  <1>2. /\ DOMAIN run' = DOMAIN run
        /\ \A b \in Actors \ {a} : run'[b] = run[b]
        /\ run'[a] = [run[a] EXCEPT !.pc = pc]
    BY <1>1 DEF Goes
  <1>3. /\ DOMAIN run'[a] = DOMAIN run[a] /\ run'[a].pc = pc
        /\ \A x \in ActorFields \ {"pc"} : run'[a][x] = run[a][x]
    BY <1>1, <1>2 DEF ActorOK, ActorFields
  <1> QED
    BY <1>1, <1>2, <1>3 DEF OthersStay, ActorOK, ActorFields

\* A step that reports a status and waits for its row.
LEMMA ReportStep ==
  ASSUME RunOK, NEW a \in Actors, NEW id, NEW changes, NEW then,
         Report(a, id, changes, then),
         then \notin Holding,
         then \in Reading => Analysable(run[a].file)
  PROVE  OthersStay(a) /\ ActorOK(run'[a]) /\ run'[a].pc # "commit"
  <1>1. ActorOK(run[a]) /\ DOMAIN run = Actors
    BY DEF RunOK
  <1> DEFINE pc == IF setting.database THEN "persist" ELSE then
  <1>2. /\ DOMAIN run' = DOMAIN run
        /\ \A b \in Actors \ {a} : run'[b] = run[b]
        /\ run'[a] = [[[run[a] EXCEPT !.pc = pc] EXCEPT !.then = then] EXCEPT !.id = id]
    BY <1>1 DEF Report
  <1> HIDE DEF pc
  <1>3. /\ DOMAIN run'[a] = DOMAIN run[a] /\ run'[a].pc = pc /\ run'[a].then = then
        /\ \A x \in ActorFields \ {"pc", "then", "id"} : run'[a][x] = run[a][x]
    BY <1>1, <1>2 DEF ActorOK, ActorFields
  <1> QED
    BY <1>1, <1>2, <1>3 DEF OthersStay, ActorOK, ActorFields, pc, Holding, Reading

\* A step that saves a case and waits for its transaction.
LEMMA SaveStep ==
  ASSUME RunOK, NEW a \in Actors, NEW c, NEW id, NEW event, NEW then,
         Save(a, c, id, event, then), IsCase(c),
         then # "commit", then \notin Reading
  PROVE  /\ OthersStay(a) /\ ActorOK(run'[a]) /\ run'[a].pc # "commit"
         /\ UNCHANGED <<rows, custody, holder, tail>>
  <1>1. ActorOK(run[a]) /\ DOMAIN run = Actors
    BY DEF RunOK
  <1> DEFINE pc == IF setting.database THEN "begin" ELSE then
  <1>2. /\ DOMAIN run' = DOMAIN run
        /\ \A b \in Actors \ {a} : run'[b] = run[b]
        /\ run'[a] = [[[[[run[a] EXCEPT !.pc = pc] EXCEPT !.then = then] EXCEPT !.case = c]
                        EXCEPT !.row = id] EXCEPT !.event = event]
    BY <1>1 DEF Save
  <1> HIDE DEF pc
  <1>3. /\ DOMAIN run'[a] = DOMAIN run[a] /\ run'[a].pc = pc /\ run'[a].then = then
        /\ run'[a].case = c /\ run'[a].file = run[a].file
    BY <1>1, <1>2 DEF ActorOK, ActorFields
  <1>4. UNCHANGED <<rows, custody, holder, tail>>
    BY DEF Save
  <1> QED
    BY <1>1, <1>2, <1>3, <1>4 DEF OthersStay, ActorOK, ActorFields, pc, Holding, Reading

\* A step of a that neither ends nor begins a transaction.
LocalStep(a) ==
    /\ OthersStay(a) /\ ActorOK(run'[a])
    /\ run[a].pc # "commit" /\ run'[a].pc # "commit"
    /\ UNCHANGED <<rows, custody, holder, tail, setting, seen>>

\* The write of a status touches no case.
LEMMA WriteLocal ==
  ASSUME RunOK, NEW a \in Actors, Persist(a) \/ LosePersist(a)
  PROVE  LocalStep(a)
  <1>1. ActorOK(run[a])
    BY DEF RunOK
  <1>2. /\ run[a].pc = "persist" /\ Goes(a, run[a].then)
        /\ UNCHANGED <<rows, custody, holder, tail, setting, seen>>
    BY DEF Persist, LosePersist, storeVars, queueVars
  <1> QED
    BY <1>1, <1>2, GoesStep DEF LocalStep, ActorOK

\* Neither does the answer to an upload.
LEMMA RequestLocal ==
  ASSUME RunOK, NEW a \in Uploaders,
         RejectUpload(a) \/ FindNoCase(a) \/ StartUpload(a) \/ RepeatUpload(a)
  PROVE  LocalStep(a)
  <1>1. a \in Actors /\ ActorOK(run[a]) /\ DOMAIN run = Actors /\ setting \in Settings
    BY DEF RunOK, Actors
  <1>2. CASE RejectUpload(a)
    <2>1. /\ run[a].pc = "waiting" /\ Goes(a, "done")
          /\ UNCHANGED <<rows, custody, holder, tail, setting, seen>>
      BY <1>2 DEF RejectUpload, storeVars, queueVars
    <2> QED
      BY <1>1, <2>1, GoesStep DEF LocalStep, Holding, Reading
  <1>3. CASE RepeatUpload(a)
    <2>1. /\ run[a].pc = "waiting"
          /\ \E id, changes : Report(a, id, changes, "done")
          /\ UNCHANGED <<rows, custody, holder, tail, setting, seen>>
      BY <1>3 DEF RepeatUpload, storeVars, queueVars
    <2> QED
      BY <1>1, <2>1, ReportStep DEF LocalStep, Holding, Reading
  <1>4. CASE StartUpload(a)
    <2> DEFINE f == Uploaded(setting.upload[a])
               pc == IF setting.database THEN "persist" ELSE "validate"
    <2>1. /\ run[a].pc = "unknown" /\ f # NoFile
          /\ run' = [run EXCEPT ![a].pc = pc, ![a].then = "validate",
                                ![a].id = f.of, ![a].file = f]
          /\ UNCHANGED <<rows, custody, holder, tail, setting, seen>>
      BY <1>4 DEF StartUpload, storeVars, queueVars
    <2>2. Analysable(f)
      BY <1>1, <2>1, UploadedAnalysable
    <2> HIDE DEF f, pc
    <2>3. /\ OthersStay(a)
          /\ run'[a] = [[[[run[a] EXCEPT !.pc = pc] EXCEPT !.then = "validate"]
                          EXCEPT !.id = f.of] EXCEPT !.file = f]
      BY <1>1, <2>1 DEF OthersStay
    <2>4. /\ DOMAIN run'[a] = DOMAIN run[a] /\ run'[a].pc = pc
          /\ run'[a].then = "validate" /\ run'[a].file = f
      BY <1>1, <2>3 DEF ActorOK, ActorFields
    <2> QED
      BY <1>1, <2>1, <2>2, <2>3, <2>4 DEF LocalStep, ActorOK, Holding, Reading, pc
  <1>5. CASE FindNoCase(a)
    <2>1. /\ run[a].pc = "waiting" /\ Goes(a, "unknown")
          /\ UNCHANGED <<rows, custody, holder, tail, setting, seen>>
      BY <1>5 DEF FindNoCase, storeVars, queueVars
    <2> QED
      BY <1>1, <2>1, GoesStep DEF LocalStep, Holding, Reading
  <1> QED
    BY <1>2, <1>3, <1>4, <1>5

\* No step of an analysis ends or begins a transaction.
LEMMA UploadLocal ==
  ASSUME RunOK, NEW a \in Uploaders, UploadStep(a)
  PROVE  LocalStep(a)
  <1>1. /\ a \in Actors /\ ActorOK(run[a]) /\ DOMAIN run = Actors
        /\ run[a].pc \in Holding => IsCase(run[a].case)
        /\ run[a].pc \in Reading => Analysable(run[a].file)
    BY DEF RunOK, Actors, ActorOK
  <1>2. CASE Validate(a) \/ StartStatic(a) \/ Complete(a) \/ Fail(a)
    <2>1. /\ UNCHANGED <<rows, custody, holder, tail, setting, seen>>
          /\ \/ run[a].pc = "validate" /\ \E id, ch : Report(a, id, ch, "static")
             \/ run[a].pc = "static" /\ \E id, ch : Report(a, id, ch, "analyse")
             \/ run[a].pc = "complete" /\ \E id, ch : Report(a, id, ch, "done")
             \/ run[a].pc = "fail" /\ \E id, ch : Report(a, id, ch, "done")
      BY <1>2 DEF Validate, StartStatic, Complete, Fail, storeVars, queueVars
    <2> QED
      BY <1>1, <2>1, ReportStep DEF LocalStep, Holding, Reading
  <1>3. CASE AnalyseUpload(a)
    <2>1. PICK r \in {Outcome[run[a].file.of][run[a].file.suffix]} :
             IF r.kind = "case"
             THEN Save(a, [r.case EXCEPT !.analysis = "STATIC_ANALYSIS"], r.case.id,
                       "static_analysis_complete", "analysed")
             ELSE Goes(a, AfterFailure(r.kind)) /\ UNCHANGED storeVars
      BY <1>3 DEF AnalyseUpload
    <2>2. run[a].pc = "analyse" /\ UNCHANGED <<setting, seen>>
      BY <1>3 DEF AnalyseUpload, queueVars
    <2>3. CASE r.kind = "case"
      <3>1. IsCase([r.case EXCEPT !.analysis = "STATIC_ANALYSIS"])
        BY <1>1, <2>1, <2>2, <2>3, OutcomeShape DEF Reading, IsCase
      <3> QED
        BY <1>1, <2>1, <2>2, <2>3, <3>1, SaveStep DEF LocalStep, Reading
    <2>4. CASE r.kind # "case"
      BY <1>1, <2>1, <2>2, <2>4, GoesStep DEF LocalStep, AfterFailure, Holding, Reading, storeVars
    <2> QED
      BY <2>3, <2>4
  <1>4. CASE SaveAlias(a) \/ RenewAlias(a)
    <2>1. /\ UNCHANGED <<setting, seen>>
          /\ \/ /\ run[a].pc = "analysed"
                /\ \E id, e : Save(a, [run[a].case EXCEPT !.analysis = "DYNAMIC_ANALYSIS"],
                                   id, e, "dynamic")
             \/ /\ run[a].pc = "observed"
                /\ \E id, e : Save(a, run[a].case, id, e, "complete")
      BY <1>4 DEF SaveAlias, RenewAlias, queueVars
    <2>2. /\ IsCase(run[a].case)
          /\ IsCase([run[a].case EXCEPT !.analysis = "DYNAMIC_ANALYSIS"])
      BY <1>1, <2>1 DEF Holding, IsCase
    <2> QED
      BY <1>1, <2>1, <2>2, SaveStep DEF LocalStep, Reading
  <1>5. CASE StartDynamic(a)
    <2> DEFINE c == [run[a].case EXCEPT !.analysis = "DYNAMIC_ANALYSIS"]
               pc == IF setting.database THEN "persist" ELSE "sandbox"
    <2>1. /\ run[a].pc \in {"dynamic", "analysed"}
          /\ run' = [run EXCEPT ![a].pc = pc, ![a].then = "sandbox", ![a].case = c]
          /\ UNCHANGED <<rows, custody, holder, tail, setting, seen>>
      BY <1>5 DEF StartDynamic, queueVars
    <2>2. IsCase(c)
      BY <1>1, <2>1 DEF Holding, IsCase
    <2> HIDE DEF c, pc
    <2>3. /\ OthersStay(a)
          /\ run'[a] = [[[run[a] EXCEPT !.pc = pc] EXCEPT !.then = "sandbox"] EXCEPT !.case = c]
      BY <1>1, <2>1 DEF OthersStay
    <2>4. /\ DOMAIN run'[a] = DOMAIN run[a] /\ run'[a].pc = pc
          /\ run'[a].then = "sandbox" /\ run'[a].case = c
      BY <1>1, <2>3 DEF ActorOK, ActorFields
    <2> QED
      BY <1>1, <2>1, <2>2, <2>3, <2>4 DEF LocalStep, ActorOK, Holding, Reading, pc
  <1>6. CASE Observe(a)
    <2>1. /\ run[a].pc = "sandbox" /\ UNCHANGED <<setting, seen>>
          /\ \E dynamic, id, e : \E then \in {"complete", "observed"} :
                Save(a, WithDynamic(run[a].case, dynamic), id, e, then)
      BY <1>6 DEF Observe, queueVars
    <2>2. PICK dynamic, id, e, then :
             /\ then \in {"complete", "observed"}
             /\ Save(a, WithDynamic(run[a].case, dynamic), id, e, then)
      BY <2>1
    <2>3. IsCase(WithDynamic(run[a].case, dynamic))
      BY <1>1, <2>1, RenewedShape DEF Holding
    <2> QED
      BY <1>1, <2>1, <2>2, <2>3, SaveStep DEF LocalStep, Reading
  <1> QED
    BY <1>2, <1>3, <1>4, <1>5, <1>6 DEF UploadStep

\* Nor does a submission.
LEMMA SubmitLocal ==
  ASSUME RunOK, NEW a \in Submitters, Submit(a)
  PROVE  LocalStep(a)
  <1>1. a \in Actors
    BY DEF Actors
  <1>2. /\ run[a].pc = "waiting" /\ UNCHANGED <<setting, seen>>
        /\ \E id, e : Save(a, SubmittedCase(setting.submit[a]), id, e, "done")
    BY DEF Submit, queueVars
  <1>3. IsCase(SubmittedCase(setting.submit[a]))
    BY CaseOfShape DEF SubmittedCase, IsCase
  <1> QED
    BY <1>1, <1>2, <1>3, SaveStep DEF LocalStep, Reading

\* Nor does the worker: what it takes has been let in by the gateway.
LEMMA WorkerLocal ==
  ASSUME RunOK, QueueInv, WorkerStep
  PROVE  LocalStep(Worker)
  <1>1. /\ Worker \in Actors /\ ActorOK(run[Worker]) /\ DOMAIN run = Actors
        /\ run[Worker].pc \in Holding => IsCase(run[Worker].case)
        /\ run[Worker].pc \in Reading => Analysable(run[Worker].file)
    BY DEF RunOK, Actors, ActorOK
  <1>2. CASE Pop
    <2> DEFINE f == [of |-> Head(queue), suffix |-> DetectFormat(Contents[Head(queue)])]
    <2>1. /\ run[Worker].pc = "polling" /\ queue # <<>>
          /\ run' = [run EXCEPT ![Worker].pc = "analyse", ![Worker].file = f]
          /\ UNCHANGED <<rows, custody, holder, tail, setting, seen>>
      BY <1>2 DEF Pop, Take, storeVars
    <2>2. Head(queue) \in seen
      BY <2>1 DEF QueueInv
    <2>3. Analysable(f)
      BY <2>2, ValidAnalysable DEF RunOK
    <2> HIDE DEF f
    <2>4. /\ OthersStay(Worker)
          /\ run'[Worker] = [[run[Worker] EXCEPT !.pc = "analyse"] EXCEPT !.file = f]
      BY <1>1, <2>1 DEF OthersStay
    <2>5. /\ DOMAIN run'[Worker] = DOMAIN run[Worker] /\ run'[Worker].pc = "analyse"
          /\ run'[Worker].file = f /\ run'[Worker].then = run[Worker].then
          /\ run'[Worker].case = run[Worker].case
      BY <1>1, <2>4 DEF ActorOK, ActorFields
    <2> QED
      BY <1>1, <2>1, <2>3, <2>4, <2>5 DEF LocalStep, ActorOK, Holding, Reading
  <1>3. CASE AnalyseJob
    <2>1. PICK r \in {Outcome[run[Worker].file.of][run[Worker].file.suffix]} :
             IF r.kind = "case"
             THEN Save(Worker, r.case, r.case.id, "ingested_via_queue",
                       IF r.case.dynamic = Absent THEN "sandbox" ELSE "finish")
             ELSE Goes(Worker, "finish") /\ UNCHANGED storeVars
      BY <1>3 DEF AnalyseJob
    <2>2. run[Worker].pc = "analyse" /\ UNCHANGED <<setting, seen>>
      BY <1>3 DEF AnalyseJob, queueVars
    <2>3. CASE r.kind = "case"
      <3>1. IsCase(r.case)
        BY <1>1, <2>1, <2>2, <2>3, OutcomeShape DEF Reading
      <3> QED
        BY <1>1, <2>1, <2>2, <2>3, <3>1, SaveStep DEF LocalStep, Reading
    <2>4. CASE r.kind # "case"
      BY <1>1, <2>1, <2>2, <2>4, GoesStep DEF LocalStep, Holding, Reading, storeVars
    <2> QED
      BY <2>3, <2>4
  <1>4. CASE ObserveJob
    <2>1. /\ run[Worker].pc = "sandbox" /\ UNCHANGED <<setting, seen>>
          /\ \E dynamic, id, e :
                Save(Worker, [run[Worker].case EXCEPT !.dynamic = dynamic,
                                                      !.analysis = "COMPLETED"],
                     id, e, "finish")
      BY <1>4 DEF ObserveJob, queueVars
    <2>2. PICK dynamic, id, e :
             Save(Worker, [run[Worker].case EXCEPT !.dynamic = dynamic,
                                                   !.analysis = "COMPLETED"],
                  id, e, "finish")
      BY <2>1
    <2> DEFINE c == [run[Worker].case EXCEPT !.dynamic = dynamic, !.analysis = "COMPLETED"]
    <2>3. IsCase(c)
      BY <1>1, <2>1 DEF Holding, IsCase
    <2>4. Save(Worker, c, id, e, "finish")
      BY <2>2
    <2> HIDE DEF c
    <2> QED
      BY <1>1, <2>1, <2>3, <2>4, SaveStep DEF LocalStep, Reading
  <1>5. CASE FinishJob
    <2> DEFINE r == [Waiting EXCEPT !.pc = "polling"]
    <2>1. /\ run[Worker].pc = "finish"
          /\ run' = [run EXCEPT ![Worker] = r]
          /\ UNCHANGED <<rows, custody, holder, tail, setting, seen>>
      BY <1>5 DEF FinishJob, Finish, storeVars
    <2>2. ActorOK(r) /\ r.pc = "polling"
      BY DEF Waiting, ActorOK, ActorFields, Holding, Reading
    <2> HIDE DEF r
    <2>3. run'[Worker] = r /\ OthersStay(Worker)
      BY <1>1, <2>1 DEF OthersStay
    <2> QED
      BY <2>1, <2>2, <2>3 DEF LocalStep
  <1>6. CASE PopUnanswered
    <2>1. /\ run[Worker].pc = "polling" /\ run' = run
          /\ UNCHANGED <<rows, custody, holder, tail, setting, seen>>
      BY <1>6 DEF PopUnanswered, TakeUnanswered, storeVars
    <2> QED
      BY <1>1, <2>1 DEF LocalStep, OthersStay
  <1> QED
    BY <1>2, <1>3, <1>4, <1>5, <1>6 DEF WorkerStep

-----------------------------------------------------------------------------
(* Transactions *)

IsTrail(t) == t # <<>> /\ \E S : t \in Seq(S)

TrailOK ==
    /\ CustodyLinear
    /\ \A id \in DOMAIN custody : IsTrail(custody[id])

\* An actor within a transaction holds the row it saves, and no one else does;
\* the trail it read is still what it was.
LockOK ==
    /\ \A a \in Actors :
          run[a].pc = "commit" => /\ run[a].row \in DOMAIN holder
                                  /\ holder[run[a].row] = a
    /\ \A id \in DOMAIN holder :
          /\ holder[id] \in Actors
          /\ run[holder[id]].pc = "commit" /\ run[holder[id]].row = id
          /\ holder[id] \in DOMAIN tail
          /\ tail[holder[id]] = Len(CustodyOf(id))

CustodyInv == RunOK /\ LockOK /\ TrailOK

\* The actors are those of the setting.
LEMMA ActorsStay == UNCHANGED setting => Actors' = Actors
  BY DEF Actors, Uploaders, Submitters

\* Outside of a transaction an actor disturbs no row, trail or lock.
LEMMA LocalKeeps ==
  ASSUME CustodyInv, NEW a \in Actors, LocalStep(a)
  PROVE  CustodyInv'
  <1>1. /\ Actors' = Actors /\ setting' \in Settings /\ DOMAIN run' = Actors
        /\ \A b \in Actors : b = a \/ run'[b] = run[b]
        /\ run[a].pc # "commit" /\ run'[a].pc # "commit"
        /\ UNCHANGED <<rows, custody, holder, tail, seen>>
    BY ActorsStay DEF CustodyInv, RunOK, LocalStep, OthersStay
  <1>2. RunOK'
    BY <1>1 DEF CustodyInv, RunOK, LocalStep
  <1>3. LockOK'
    BY <1>1 DEF CustodyInv, LockOK, CustodyOf
  <1>4. TrailOK'
    BY <1>1 DEF CustodyInv, TrailOK, CustodyLinear
  <1> QED
    BY <1>2, <1>3, <1>4 DEF CustodyInv

\* A function of the store once an entry of it is removed.
LEMMA EntryRemoved ==
  ASSUME NEW x, NEW f
  PROVE  /\ DOMAIN Without(f, x) = DOMAIN f \ {x}
         /\ \A y \in DOMAIN f \ {x} : Without(f, x)[y] = f[y]
  BY DEF Without

\* A save that begins takes a row nobody holds and reads the trail as it is.
LEMMA BeginKeeps ==
  ASSUME CustodyInv, NEW a \in Actors, Begin(a)
  PROVE  CustodyInv'
  <1> DEFINE id == run[a].row
  <1>1. /\ RunOK /\ LockOK /\ TrailOK /\ ActorOK(run[a])
        /\ run[a].pc = "begin" /\ Goes(a, "commit") /\ id \notin DOMAIN holder
        /\ holder' = Put(holder, id, a) /\ tail' = Put(tail, a, Len(CustodyOf(id)))
        /\ UNCHANGED <<rows, custody, setting, seen>>
    BY DEF CustodyInv, RunOK, Begin, BeginSave, Free, queueVars
  <1>2. /\ OthersStay(a) /\ ActorOK(run'[a]) /\ run'[a].pc = "commit" /\ run'[a].row = id
    BY <1>1, GoesStep DEF ActorOK, Holding, Reading
  <1>3. Actors' = Actors
    BY <1>1, ActorsStay
  <1>4. RunOK'
    BY <1>1, <1>2, <1>3 DEF RunOK, OthersStay
  <1>5. /\ DOMAIN holder' = DOMAIN holder \cup {id} /\ holder'[id] = a
        /\ \A x \in DOMAIN holder : holder'[x] = holder[x]
        /\ DOMAIN tail' = DOMAIN tail \cup {a} /\ tail'[a] = Len(CustodyOf(id))
        /\ \A b \in DOMAIN tail \ {a} : tail'[b] = tail[b]
    BY <1>1 DEF Put
  <1> HIDE DEF id
  <1>6. \A x \in DOMAIN holder : holder[x] # a
    BY <1>1 DEF LockOK
  <1>7. LockOK'
    <2>1. \A x : CustodyOf(x)' = CustodyOf(x)
      BY <1>1 DEF CustodyOf
    <2>2. \A b \in Actors : run'[b].pc = "commit" =>
             run'[b].row \in DOMAIN holder' /\ holder'[run'[b].row] = b
      BY <1>1, <1>2, <1>5 DEF LockOK, OthersStay
    <2>3. \A x \in DOMAIN holder' :
             /\ holder'[x] \in Actors
             /\ run'[holder'[x]].pc = "commit" /\ run'[holder'[x]].row = x
             /\ holder'[x] \in DOMAIN tail'
             /\ tail'[holder'[x]] = Len(CustodyOf(x))
      BY <1>1, <1>2, <1>5, <1>6 DEF LockOK, OthersStay
    <2> QED
      BY <1>3, <2>1, <2>2, <2>3 DEF LockOK
  <1>8. TrailOK'
    BY <1>1 DEF TrailOK, CustodyLinear
  <1> QED
    BY <1>4, <1>7, <1>8 DEF CustodyInv

\* A transaction that ends, either way, leaves the locks of the others alone.
LEMMA EndReleases ==
  ASSUME RunOK, LockOK, NEW a \in Actors, run[a].pc = "commit", Goes(a, run[a].then),
         holder' = Without(holder, run[a].row), tail' = Without(tail, a),
         UNCHANGED <<setting, seen>>,
         \A x : x # run[a].row => CustodyOf(x)' = CustodyOf(x)
  PROVE  RunOK' /\ LockOK'
  <1> DEFINE id == run[a].row
  <1>1. ActorOK(run[a]) /\ DOMAIN run = Actors
    BY DEF RunOK
  <1>2. /\ OthersStay(a) /\ ActorOK(run'[a]) /\ run'[a].pc # "commit"
    BY <1>1, GoesStep DEF ActorOK
  <1>3. Actors' = Actors
    BY ActorsStay
  <1>4. RunOK'
    BY <1>1, <1>2, <1>3 DEF RunOK, OthersStay
  <1>5. /\ DOMAIN holder' = DOMAIN holder \ {id}
        /\ \A x \in DOMAIN holder \ {id} : holder'[x] = holder[x]
        /\ DOMAIN tail' = DOMAIN tail \ {a}
        /\ \A b \in DOMAIN tail \ {a} : tail'[b] = tail[b]
        /\ \A x : x # id => CustodyOf(x)' = CustodyOf(x)
    BY EntryRemoved, ZenonT(30)
  <1>6. \A x \in DOMAIN holder : holder[x] = a => x = id
    BY DEF LockOK
  <1>7. \A b \in Actors \ {a} : run[b].pc = "commit" => run[b].row # id
    BY DEF LockOK
  <1> HIDE DEF id
  <1>8. \A b \in Actors : run'[b].pc = "commit" =>
           run'[b].row \in DOMAIN holder' /\ holder'[run'[b].row] = b
    BY <1>2, <1>5, <1>7 DEF LockOK, OthersStay
  <1>9. \A x \in DOMAIN holder' :
           /\ holder'[x] \in Actors
           /\ run'[holder'[x]].pc = "commit" /\ run'[holder'[x]].row = x
           /\ holder'[x] \in DOMAIN tail'
           /\ tail'[holder'[x]] = Len(CustodyOf(x)')
    BY <1>2, <1>5, <1>6 DEF LockOK, OthersStay
  <1> QED
    BY <1>3, <1>4, <1>8, <1>9 DEF LockOK

\* A save that fails leaves the trail as it was.
LEMMA AbortKeeps ==
  ASSUME CustodyInv, NEW a \in Actors, Abort(a)
  PROVE  CustodyInv'
  <1>1. /\ run[a].pc = "commit" /\ Goes(a, run[a].then)
        /\ holder' = Without(holder, run[a].row) /\ tail' = Without(tail, a)
        /\ UNCHANGED <<rows, custody, setting, seen>>
    BY DEF Abort, AbortSave, queueVars
  <1>2. \A x : CustodyOf(x)' = CustodyOf(x)
    BY <1>1 DEF CustodyOf
  <1>3. RunOK' /\ LockOK'
    BY <1>1, <1>2, EndReleases DEF CustodyInv
  <1>4. TrailOK'
    BY <1>1 DEF CustodyInv, TrailOK, CustodyLinear
  <1> QED
    BY <1>3, <1>4 DEF CustodyInv

\* What a trail becomes with one more record.
LEMMA TrailGrows ==
  ASSUME NEW t, NEW e, t = <<>> \/ IsTrail(t)
  PROVE  /\ IsTrail(Append(t, e)) /\ Len(t) \in Nat
         /\ Len(Append(t, e)) = Len(t) + 1 /\ Last(Append(t, e)) = e
         /\ \A i \in 1..Len(t) : Append(t, e)[i] = t[i]
         /\ Append(t, e)[Len(t) + 1] = e
  <1>1. PICK S : t \in Seq(S)
    <2>1. <<>> \in Seq({})
      OBVIOUS
    <2> QED
      BY <2>1 DEF IsTrail
  <1> DEFINE R == S \cup {e}
             new == Append(t, e)
  <1>2. t \in Seq(R) /\ e \in R
    BY <1>1
  <1> HIDE DEF R
  <1>3. /\ new \in Seq(R) /\ Len(t) \in Nat /\ Len(new) = Len(t) + 1
        /\ \A i \in 1..Len(t) : new[i] = t[i]
        /\ new[Len(t) + 1] = e
    BY <1>2
  <1> HIDE DEF new
  <1>4. new # <<>> /\ Last(new) = e
    BY <1>3 DEF Last
  <1>5. IsTrail(new)
    BY <1>3, <1>4 DEF IsTrail
  <1> QED
    BY <1>3, <1>4, <1>5 DEF new

\* The committed record follows the last one of the trail, for the row is locked
\* since the trail was read, and it names what the row then says.
LEMMA CommitKeeps ==
  ASSUME CustodyInv, NEW a \in Actors, Commit(a)
  PROVE  CustodyInv'
  <1> DEFINE id == run[a].row
             c == run[a].case
             saved == [c EXCEPT !.id = id]
             row == IF id \in DOMAIN rows
                    THEN [saved EXCEPT !.platform = rows[id].platform,
                                       !.ftype = rows[id].ftype]
                    ELSE saved
             e == [event |-> run[a].event, risk |-> c.risk, status |-> c.status,
                   previous |-> tail[a]]
             trail == CustodyOf(id)
  <1>1. /\ run[a].pc = "commit" /\ Goes(a, run[a].then)
        /\ rows' = Put(rows, id, row) /\ custody' = Put(custody, id, Append(trail, e))
        /\ holder' = Without(holder, id) /\ tail' = Without(tail, a)
        /\ UNCHANGED <<setting, seen>>
    BY DEF Commit, CommitSave, queueVars
  <1>2. RunOK /\ LockOK /\ TrailOK /\ ActorOK(run[a])
    BY DEF CustodyInv, RunOK
  <1>3. IsCase(c)
    BY <1>1, <1>2 DEF ActorOK, Holding
  <1>4. row.risk = c.risk /\ row.status = c.status
    BY <1>3 DEF IsCase, CaseFields
  <1>5. e.risk = c.risk /\ e.status = c.status /\ e.previous = tail[a]
    OBVIOUS
  <1>6. tail[a] = Len(trail)
    BY <1>1, <1>2 DEF LockOK
  <1>7. trail = <<>> \/ IsTrail(trail)
    BY <1>2 DEF CustodyOf, TrailOK
  <1> HIDE DEF id, c, row, e, saved, trail
  <1>8. /\ DOMAIN rows' = DOMAIN rows \cup {id} /\ rows'[id] = row
        /\ \A x \in DOMAIN rows \ {id} : rows'[x] = rows[x]
        /\ DOMAIN custody' = DOMAIN custody \cup {id} /\ custody'[id] = Append(trail, e)
        /\ \A x \in DOMAIN custody \ {id} : custody'[x] = custody[x]
    BY <1>1 DEF Put
  <1>9. RunOK' /\ LockOK'
    <2>1. \A x : x # id => CustodyOf(x)' = CustodyOf(x)
      BY <1>8 DEF CustodyOf
    <2> QED
      BY <1>1, <1>2, <2>1, EndReleases DEF id
  <1>10. /\ IsTrail(Append(trail, e)) /\ Last(Append(trail, e)) = e
         /\ \A i \in 1..Len(Append(trail, e)) : Append(trail, e)[i].previous = i - 1
    <2>1. \A i \in 1..Len(trail) : trail[i].previous = i - 1
      BY <1>2 DEF trail, CustodyOf, TrailOK, CustodyLinear
    <2> QED
      BY <1>5, <1>6, <1>7, <2>1, TrailGrows
  <1>11. ASSUME NEW x \in DOMAIN custody'
         PROVE  /\ IsTrail(custody'[x])
                /\ \A i \in 1..Len(custody'[x]) : custody'[x][i].previous = i - 1
                /\ Last(custody'[x]).risk = rows'[x].risk
                /\ Last(custody'[x]).status = rows'[x].status
    <2>1. CASE x = id
      BY <1>4, <1>5, <1>8, <1>10, <2>1
    <2>2. CASE x # id
      <3>1. custody'[x] = custody[x] /\ rows'[x] = rows[x] /\ x \in DOMAIN custody
        BY <1>2, <1>8, <2>2 DEF TrailOK, CustodyLinear
      <3> QED
        BY <1>2, <3>1 DEF TrailOK, CustodyLinear
    <2> QED
      BY <2>1, <2>2
  <1>12. TrailOK'
    BY <1>2, <1>8, <1>11 DEF TrailOK, CustodyLinear
  <1> QED
    BY <1>9, <1>12 DEF CustodyInv

\* After a restart nobody is within a transaction, and what was committed stays.
LEMMA RestartKeeps ==
  ASSUME CustodyInv, Restart
  PROVE  CustodyInv'
  <1>1. PICK worker \in {"polling", "off"} :
           run' = [a \in Actors |->
                     IF a = Worker THEN [Waiting EXCEPT !.pc = worker]
                     ELSE IF AtWork(a) THEN [Waiting EXCEPT !.pc = "done"] ELSE run[a]]
    BY DEF Restart
  <1>2. /\ holder' = <<>> /\ tail' = <<>>
        /\ UNCHANGED <<rows, custody, setting, seen>>
    BY DEF Restart, ForgetCases, LoseTaken
  <1>3. Actors' = Actors
    BY <1>2, ActorsStay
  <1>4. ASSUME NEW pc \in {"polling", "off", "done"}
        PROVE  ActorOK([Waiting EXCEPT !.pc = pc]) /\ [Waiting EXCEPT !.pc = pc].pc = pc
    BY DEF Waiting, ActorOK, ActorFields, Holding, Reading
  <1>5. ASSUME NEW a \in Actors
        PROVE  ActorOK(run'[a]) /\ run'[a].pc # "commit"
    <2>1. CASE a = Worker
      BY <1>1, <1>4, <2>1
    <2>2. CASE a # Worker /\ AtWork(a)
      BY <1>1, <1>4, <2>2
    <2>3. CASE a # Worker /\ ~AtWork(a)
      BY <1>1, <2>3 DEF AtWork, CustodyInv, RunOK
    <2> QED
      BY <2>1, <2>2, <2>3
  <1>6. RunOK'
    BY <1>1, <1>2, <1>3, <1>5 DEF CustodyInv, RunOK
  <1>7. LockOK'
    BY <1>2, <1>3, <1>5 DEF LockOK
  <1>8. TrailOK'
    BY <1>2 DEF CustodyInv, TrailOK, CustodyLinear
  <1> QED
    BY <1>6, <1>7, <1>8 DEF CustodyInv

\* A step that leaves the cases and the actors alone; only valid samples enter.
LEMMA OtherKeeps ==
  ASSUME CustodyInv, UNCHANGED <<run, rows, custody, holder, tail, setting>>,
         seen' \subseteq seen \cup {h \in DOMAIN Contents : ValidSample(h)}
  PROVE  CustodyInv'
  <1>1. Actors' = Actors
    BY ActorsStay
  <1>2. RunOK'
    BY <1>1 DEF CustodyInv, RunOK
  <1>3. LockOK'
    BY <1>1 DEF CustodyInv, LockOK, CustodyOf
  <1>4. TrailOK'
    BY DEF CustodyInv, TrailOK, CustodyLinear
  <1> QED
    BY <1>2, <1>3, <1>4 DEF CustodyInv

\* The system starts with no case, no lock and nobody at work.
LEMMA InitCustodyInv == Init => QueueInv /\ CustodyInv
  <1> SUFFICES ASSUME Init PROVE QueueInv /\ CustodyInv
    OBVIOUS
  <1>1. QueueInv
    BY InitQueueInv
  <1>2. /\ setting \in Settings /\ seen = {} /\ rows = <<>> /\ custody = <<>>
        /\ holder = <<>> /\ tail = <<>>
        /\ run = [a \in Actors |->
                    IF a = Worker THEN [Waiting EXCEPT !.pc = "polling"] ELSE Waiting]
    BY DEF Init, InitStore, InitQueue
  <1>3. ASSUME NEW a \in Actors
        PROVE  ActorOK(run[a]) /\ run[a].pc # "commit"
    BY <1>2 DEF Waiting, ActorOK, ActorFields, Holding, Reading
  <1>4. RunOK
    BY <1>2, <1>3 DEF RunOK
  <1>5. LockOK /\ TrailOK
    BY <1>2, <1>3 DEF LockOK, TrailOK, CustodyLinear
  <1> QED
    BY <1>1, <1>4, <1>5 DEF CustodyInv

\* Every step keeps the trails, the locks and the actors' records in order.
LEMMA CustodyStepKeeps ==
  QueueInv /\ CustodyInv /\ [Next]_vars => QueueInv' /\ CustodyInv'
  <1> SUFFICES ASSUME QueueInv, CustodyInv, [Next]_vars PROVE CustodyInv'
    BY QueueSteps, QueueStepKeeps
  <1>1. RunOK /\ setting \in Settings
    BY DEF CustodyInv, RunOK
  <1>2. ASSUME NEW a \in Uploaders,
               RejectUpload(a) \/ FindNoCase(a) \/ StartUpload(a) \/ RepeatUpload(a)
               \/ UploadStep(a)
        PROVE  CustodyInv'
    BY <1>1, <1>2, RequestLocal, UploadLocal, LocalKeeps DEF Actors
  <1>3. ASSUME NEW a \in Submitters, Submit(a)
        PROVE  CustodyInv'
    BY <1>1, <1>3, SubmitLocal, LocalKeeps DEF Actors
  <1>4. ASSUME NEW a \in Actors, WriteStep(a)
        PROVE  CustodyInv'
    BY <1>1, <1>4, WriteLocal, LocalKeeps, BeginKeeps, CommitKeeps, AbortKeeps DEF WriteStep
  <1>5. CASE WorkerStep
    BY <1>1, <1>5, WorkerLocal, LocalKeeps DEF Actors
  <1>6. ASSUME NEW r \in setting.ingest, Ingest(r)
        PROVE  CustodyInv'
    <2>1. r.of \in DOMAIN Contents /\ ValidSample(r.of)
      BY <1>1, <1>6 DEF Ingest
    <2>2. seen' \subseteq seen \cup {r.of}
      BY <1>6 DEF Ingest, Accept, AnswerDuplicate, FailToStore, FailToPush, Park
    <2>3. UNCHANGED <<run, rows, custody, holder, tail, setting>>
      BY <1>6 DEF Ingest, storeVars
    <2> QED
      BY <2>1, <2>2, <2>3, OtherKeeps
  <1>7. CASE AnswerStatus \/ \E id \in Asked : AskStatus(id)
    <2>1. UNCHANGED <<run, rows, custody, holder, tail, setting, seen>>
      BY <1>7 DEF AnswerStatus, AskStatus, storeVars, queueVars
    <2> QED
      BY <2>1, OtherKeeps
  <1>8. CASE UNCHANGED vars
    <2>1. UNCHANGED <<run, rows, custody, holder, tail, setting, seen>>
      BY <1>8 DEF vars, storeVars, queueVars, intakeVars
    <2> QED
      BY <2>1, OtherKeeps
  <1> QED
    BY <1>2, <1>3, <1>4, <1>5, <1>6, <1>7, <1>8, RestartKeeps DEF Next

\* For every number of writers and restarts, whatever the database refuses: the
\* custody of a sample is one unbroken trail that ends in what its row says.
THEOREM CustodySafe == Spec => []CustodyLinear
  <1>1. QueueInv /\ CustodyInv => CustodyLinear
    BY DEF CustodyInv, TrailOK
  <1> QED
    BY InitCustodyInv, CustodyStepKeeps, <1>1, PTL DEF Spec

-----------------------------------------------------------------------------
(* What a client is told: the inductive invariant *)

\* A case of the sample is kept, or was until the backend went down.
Stored(id) == id \in DOMAIN memory \cup DOMAIN rows \cup forgotten

\* What is kept are cases, and only a database keeps rows.
StoreOK ==
    /\ \A id \in DOMAIN memory :
          {"case", "by"} \subseteq DOMAIN memory[id] /\ IsCase(memory[id].case)
    /\ \A id \in DOMAIN rows : IsCase(rows[id])
    /\ ~setting.database => DOMAIN rows = {}

\* The steps at which the case of the analysis is stored under the analysis' id.
Storing == {"dynamic", "sandbox", "observed", "complete"}

\* An analysis that has come this far has stored its case.
Secured(r) ==
    /\ r.pc \in Storing \/ r.then \in Storing => Stored(r.id)
    /\ r.pc = "analysed" \/ r.then = "analysed" => Stored(r.case.id)

\* The steps at which an actor waits for the database.
AtDatabase == {"persist", "begin", "commit"}

HoldOK ==
    /\ \A a \in Uploaders : Secured(run[a])
    /\ ~setting.database => \A a \in Actors : run[a].pc \notin AtDatabase

\* Every copy of a job that says COMPLETED, wherever it is on its way, is of a
\* sample with a case.
Completed(job, id) == job.status = "COMPLETED" => Stored(id)

SendingFields == {"id", "live", "values"}

JobsOK ==
    /\ \A id \in DOMAIN jobs : Completed(jobs[id], id)
    /\ \A id \in DOMAIN jobRows : Completed(jobRows[id], id)
    /\ \A a \in DOMAIN sending :
          /\ SendingFields \subseteq DOMAIN sending[a]
          /\ \A job \in sending[a].values : Completed(job, sending[a].id)
    /\ Completed(poll.row, poll.id)

\* Whoever may write has its place among the writes under way.
SendersOK == DOMAIN sending = Actors

StatusInv ==
    /\ CustodyInv /\ QueueInv
    /\ StoreOK /\ HoldOK /\ JobsOK /\ SendersOK
    /\ CompletedMeansSaved

\* Nothing that was stored is forgotten without a trace.
Grows == \A id : Stored(id) => Stored(id)'

\* What a step does for an analysis to be as complete as it is said to be.
Keeps == StoreOK' /\ Grows /\ JobsOK' /\ HoldOK'

-----------------------------------------------------------------------------
(* The store *)

\* A table that was emptied has no entry.
LEMMA EmptyTable ==
  ASSUME NEW table, table = <<>>
  PROVE  DOMAIN table = {}
  OBVIOUS

\* None is no case.
LEMMA CaseIsFound ==
  ASSUME NEW c, IsCase(c)
  PROVE  c # NoCase
  BY StoreAssumption DEF IsCase, CaseFields

\* A case that is stored is found by who looks for it, unless it was forgotten.
LEMMA StoredIsFound ==
  ASSUME StoreOK, NEW id, Stored(id), id \notin forgotten
  PROVE  GetCase(id, setting.database) # NoCase
  BY CaseIsFound DEF Stored, StoreOK, GetCase

\* What a lookup finds is stored, whether the database answers or not.
LEMMA FoundIsStored ==
  ASSUME NEW id, NEW readable, GetCase(id, readable) # NoCase
  PROVE  Stored(id)
  BY DEF GetCase, Stored

\* Changing the dict that was saved loses no entry.
LEMMA SharedKeeps ==
  ASSUME StoreOK, NEW a, NEW c, IsCase(c)
  PROVE  /\ DOMAIN Shared(memory, a, c) = DOMAIN memory
         /\ \A id \in DOMAIN memory :
               /\ {"case", "by"} \subseteq DOMAIN Shared(memory, a, c)[id]
               /\ IsCase(Shared(memory, a, c)[id].case)
  <1>1. CASE ~(c.id \in DOMAIN memory /\ memory[c.id].by = a)
    BY <1>1 DEF Shared, StoreOK
  <1>2. CASE c.id \in DOMAIN memory /\ memory[c.id].by = a
    <2> DEFINE entry == [memory[c.id] EXCEPT !.case = c]
    <2>1. Shared(memory, a, c) = [memory EXCEPT ![c.id] = entry]
      BY <1>2 DEF Shared
    <2>2. DOMAIN entry = DOMAIN memory[c.id] /\ entry.case = c
      BY <1>2 DEF StoreOK
    <2> HIDE DEF entry
    <2> QED
      BY <1>2, <2>1, <2>2 DEF StoreOK
  <1> QED
    BY <1>1, <1>2

\* A save stores the case under its id in any event.
LEMMA SaveStores ==
  ASSUME StoreOK, UNCHANGED <<setting, forgotten>>, NEW a, NEW c, IsCase(c), NEW id,
         NEW event, NEW then, Save(a, c, id, event, then)
  PROVE  StoreOK' /\ Grows /\ Stored(id)'
  <1> DEFINE m == Shared(memory, a, c)
             kept == IF id = c.id THEN [case |-> c, by |-> a]
                     ELSE [case |-> [c EXCEPT !.id = id], by |-> "copy"]
  <1>1. memory' = Put(m, id, kept) /\ rows' = rows
    BY DEF Save, Remembered
  <1>2. {"case", "by"} \subseteq DOMAIN kept /\ IsCase(kept.case)
    BY DEF IsCase
  <1>3. /\ DOMAIN m = DOMAIN memory
        /\ \A x \in DOMAIN memory :
              {"case", "by"} \subseteq DOMAIN m[x] /\ IsCase(m[x].case)
    BY SharedKeeps
  <1> HIDE DEF m, kept
  <1>4. /\ DOMAIN memory' = DOMAIN memory \cup {id} /\ memory'[id] = kept
        /\ \A x \in DOMAIN memory : x # id => memory'[x] = m[x]
    BY <1>1, <1>3 DEF Put
  <1>5. StoreOK'
    BY <1>1, <1>2, <1>3, <1>4 DEF StoreOK
  <1>6. Grows /\ Stored(id)'
    BY <1>1, <1>4 DEF Grows, Stored
  <1> QED
    BY <1>5, <1>6

\* A step that leaves the cases alone.
LEMMA StoreStays ==
  ASSUME StoreOK, UNCHANGED <<memory, rows, setting, forgotten>>
  PROVE  StoreOK' /\ Grows
  BY DEF StoreOK, Grows, Stored

-----------------------------------------------------------------------------
(* The jobs *)

\* A table with one more job, which has a case if it is completed.
LEMMA FiledJob ==
  ASSUME Grows, NEW table, \A x \in DOMAIN table : Completed(table[x], x),
         NEW id, NEW job, job.status = "COMPLETED" => Stored(id)',
         NEW new, new = Filed(table, id, job)
  PROVE  \A x \in DOMAIN new : new[x].status = "COMPLETED" => Stored(x)'
  <1>1. /\ DOMAIN new = DOMAIN table \cup {id} /\ new[id] = job
        /\ \A x \in DOMAIN table : x # id => new[x] = table[x]
    BY DEF Filed
  <1> QED
    BY <1>1 DEF Completed, Grows

\* A step that leaves the jobs alone.
LEMMA JobsStay ==
  ASSUME JobsOK, Grows, UNCHANGED <<jobVars, poll>>
  PROVE  JobsOK'
  BY DEF JobsOK, Grows, Completed, jobVars

\* A new job is not completed.
LEMMA CreateKeepsJobs ==
  ASSUME JobsOK, Grows, UNCHANGED poll, NEW a, NEW id, NEW job, NEW database,
         job.status # "COMPLETED", CreateJob(a, id, job, database)
  PROVE  JobsOK'
  <1>1. /\ jobs' = Filed(jobs, id, job) /\ jobRows' = jobRows
        /\ DOMAIN sending' = DOMAIN sending
        /\ \A b \in DOMAIN sending :
              \/ sending'[b] = Sends(id, job)
              \/ sending'[b] = [sending[b] EXCEPT !.live = FALSE]
              \/ sending'[b] = sending[b]
    BY DEF CreateJob
  <1>2. \A x \in DOMAIN jobs' : Completed(jobs[x], x)'
    <2>1. \A x \in DOMAIN jobs : Completed(jobs[x], x)
      BY DEF JobsOK
    <2>2. \A x \in DOMAIN jobs' : jobs'[x].status = "COMPLETED" => Stored(x)'
      BY <1>1, <2>1, FiledJob
    <2> QED
      BY <2>2 DEF Completed
  <1>3. ASSUME NEW b \in DOMAIN sending
        PROVE  /\ SendingFields \subseteq DOMAIN sending'[b]
               /\ \A j \in sending'[b].values : Completed(j, sending[b].id)'
    <2>1. /\ SendingFields \subseteq DOMAIN sending[b]
          /\ \A j \in sending[b].values : Completed(j, sending[b].id)
      BY DEF JobsOK
    <2>2. CASE sending'[b] = Sends(id, job)
      BY <2>2 DEF Sends, SendingFields, Completed
    <2>3. CASE sending'[b] = [sending[b] EXCEPT !.live = FALSE]
      BY <2>1, <2>3 DEF SendingFields, Completed, Grows
    <2>4. CASE sending'[b] = sending[b]
      BY <2>1, <2>4 DEF Completed, Grows
    <2> QED
      BY <1>1, <2>2, <2>3, <2>4
  <1> QED
    BY <1>1, <1>2, <1>3 DEF JobsOK, Completed, Grows

\* A job is updated to COMPLETED only for a sample with a case.
LEMMA UpdateKeepsJobs ==
  ASSUME JobsOK, Grows, UNCHANGED poll, NEW a, NEW id, NEW changes, NEW database,
         changes.status # "", changes.status = "COMPLETED" => Stored(id),
         UpdateJob(a, id, changes, database)
  PROVE  JobsOK'
  <1> DEFINE job == Merged(JobInMemory(id), changes)
  <1>1. /\ jobs' = Filed(jobs, id, job) /\ jobRows' = jobRows
        /\ DOMAIN sending' = DOMAIN sending
        /\ \A b \in DOMAIN sending :
              \/ sending'[b] = Sends(id, job)
              \/ /\ sending'[b] = [sending[b] EXCEPT !.values = @ \cup {job}]
                 /\ sending[b].id = id
              \/ sending'[b] = sending[b]
    BY DEF UpdateJob, OnDict
  <1>2. job.status = "COMPLETED" => Stored(id)'
    BY DEF Merged, Changes, Given, Completed, Grows
  <1> HIDE DEF job
  <1>3. \A x \in DOMAIN jobs' : Completed(jobs[x], x)'
    <2>1. \A x \in DOMAIN jobs : Completed(jobs[x], x)
      BY DEF JobsOK
    <2>2. \A x \in DOMAIN jobs' : jobs'[x].status = "COMPLETED" => Stored(x)'
      BY <1>1, <1>2, <2>1, FiledJob
    <2> QED
      BY <2>2 DEF Completed
  <1>4. ASSUME NEW b \in DOMAIN sending
        PROVE  /\ SendingFields \subseteq DOMAIN sending'[b]
               /\ \A j \in sending'[b].values : Completed(j, sending[b].id)'
    <2>1. /\ SendingFields \subseteq DOMAIN sending[b]
          /\ \A j \in sending[b].values : Completed(j, sending[b].id)
      BY DEF JobsOK
    <2>2. CASE sending'[b] = Sends(id, job)
      <3>1. sending'[b].values = {job} /\ sending'[b].id = id
        BY ONLY <2>2 DEF Sends
      <3>2. DOMAIN sending'[b] = SendingFields
        BY ONLY <2>2 DEF Sends, SendingFields
      <3> QED
        BY <1>2, <3>1, <3>2 DEF Completed
    <2>3. CASE /\ sending'[b] = [sending[b] EXCEPT !.values = @ \cup {job}]
               /\ sending[b].id = id
      <3>1. /\ DOMAIN sending'[b] = DOMAIN sending[b] /\ sending'[b].id = id
            /\ sending'[b].values = sending[b].values \cup {job}
        BY <2>1, <2>3 DEF SendingFields
      <3> QED
        BY <1>2, <2>1, <2>3, <3>1 DEF Completed, Grows
    <2>4. CASE sending'[b] = sending[b]
      BY <2>1, <2>4 DEF Completed, Grows
    <2> QED
      BY <1>1, <2>2, <2>3, <2>4
  <1> QED
    BY <1>1, <1>3, <1>4 DEF JobsOK, Completed, Grows

\* The write of a job, gone through or lost.
LEMMA WriteKeepsJobs ==
  ASSUME JobsOK, Grows, UNCHANGED poll, NEW a \in DOMAIN sending,
         (\E job : PersistJob(a, job)) \/ LoseJobWrite(a)
  PROVE  JobsOK'
  <1>1. /\ jobs' = jobs /\ sending' = [sending EXCEPT ![a] = NotSending]
        /\ \/ jobRows' = jobRows
           \/ \E job \in sending[a].values : jobRows' = Filed(jobRows, sending[a].id, job)
    BY DEF PersistJob, LoseJobWrite
  <1>2. \A x \in DOMAIN jobRows' : Completed(jobRows[x], x)'
    <2>1. CASE jobRows' = jobRows
      BY <2>1 DEF JobsOK, Completed, Grows
    <2>2. ASSUME NEW job \in sending[a].values, jobRows' = Filed(jobRows, sending[a].id, job)
          PROVE  \A x \in DOMAIN jobRows' : Completed(jobRows[x], x)'
      <3>1. Completed(job, sending[a].id) /\ \A x \in DOMAIN jobRows : Completed(jobRows[x], x)
        BY DEF JobsOK
      <3>2. \A x \in DOMAIN jobRows' : jobRows'[x].status = "COMPLETED" => Stored(x)'
        BY <2>2, <3>1, FiledJob DEF Completed, Grows
      <3> QED
        BY <3>2 DEF Completed
    <2> QED
      BY <1>1, <2>1, <2>2
  <1>3. \A b \in DOMAIN sending' :
            /\ SendingFields \subseteq DOMAIN sending'[b]
            /\ \A j \in sending'[b].values : Completed(j, sending[b].id)'
    BY <1>1 DEF JobsOK, Completed, Grows, NotSending, SendingFields
  <1> QED
    BY <1>1, <1>2, <1>3 DEF JobsOK, Completed, Grows

\* The row that a client read becomes the job.
LEMMA AdoptKeepsJobs ==
  ASSUME JobsOK, Grows, poll' = [id |-> "", row |-> NoJob],
         NEW id, NEW row, Completed(row, id), AdoptRow(id, row)
  PROVE  JobsOK'
  <1>1. Completed(poll.row, poll.id)'
    BY DEF Completed, NoJob, Changes
  <1>2. /\ jobs' = Filed(jobs, id, row) /\ jobRows' = jobRows
        /\ DOMAIN sending' = DOMAIN sending
        /\ \A b \in DOMAIN sending :
              \/ sending'[b] = [sending[b] EXCEPT !.live = FALSE]
              \/ sending'[b] = sending[b]
    BY DEF AdoptRow
  <1>3. \A x \in DOMAIN jobs : Completed(jobs[x], x)
    BY DEF JobsOK
  <1>4. row.status = "COMPLETED" => Stored(id)'
    BY DEF Completed, Grows
  <1>5. \A x \in DOMAIN jobs' : jobs'[x].status = "COMPLETED" => Stored(x)'
    BY <1>2, <1>3, <1>4, FiledJob
  <1>6. ASSUME NEW b \in DOMAIN sending
        PROVE  /\ SendingFields \subseteq DOMAIN sending'[b]
               /\ sending'[b].id = sending[b].id
               /\ sending'[b].values = sending[b].values
    <2>1. SendingFields \subseteq DOMAIN sending[b]
      BY DEF JobsOK
    <2> QED
      BY <1>2, <2>1 DEF SendingFields
  <1> QED
    BY <1>1, <1>2, <1>5, <1>6 DEF JobsOK, Completed, Grows

-----------------------------------------------------------------------------
(* The actors *)

\* What a step of a leaves of a's record.
LEMMA GoesFields ==
  ASSUME RunOK, NEW a \in Actors, NEW pc, Goes(a, pc)
  PROVE  /\ run'[a].pc = pc /\ run'[a].then = run[a].then
         /\ run'[a].id = run[a].id /\ run'[a].case = run[a].case
  <1>1. ActorFields \subseteq DOMAIN run[a] /\ DOMAIN run = Actors
    BY DEF RunOK, ActorOK
  <1>2. run'[a] = [run[a] EXCEPT !.pc = pc]
    BY <1>1 DEF Goes
  <1> QED
    BY <1>1, <1>2 DEF ActorFields

\* A status on its way into the dict, and what the task does with it.
LEMMA ReportFields ==
  ASSUME RunOK, NEW a \in Actors, NEW id, NEW changes, NEW then,
         Report(a, id, changes, then)
  PROVE  /\ run'[a].pc = (IF setting.database THEN "persist" ELSE then)
         /\ run'[a].then = then /\ run'[a].id = id /\ run'[a].case = run[a].case
  <1> DEFINE pc == IF setting.database THEN "persist" ELSE then
  <1>1. ActorFields \subseteq DOMAIN run[a] /\ DOMAIN run = Actors
    BY DEF RunOK, ActorOK
  <1>2. run'[a] = [[[run[a] EXCEPT !.pc = pc] EXCEPT !.then = then] EXCEPT !.id = id]
    BY <1>1 DEF Report
  <1> HIDE DEF pc
  <1> QED
    BY <1>1, <1>2 DEF ActorFields, pc

\* A save leads into the transaction, with the case and where to go on.
LEMMA SaveFields ==
  ASSUME RunOK, NEW a \in Actors, NEW c, NEW id, NEW event, NEW then,
         Save(a, c, id, event, then)
  PROVE  /\ run'[a].pc = (IF setting.database THEN "begin" ELSE then)
         /\ run'[a].then = then /\ run'[a].id = run[a].id /\ run'[a].case = c
  <1> DEFINE pc == IF setting.database THEN "begin" ELSE then
  <1>1. ActorFields \subseteq DOMAIN run[a] /\ DOMAIN run = Actors
    BY DEF RunOK, ActorOK
  <1>2. run'[a] = [[[[[run[a] EXCEPT !.pc = pc] EXCEPT !.then = then] EXCEPT !.case = c]
                     EXCEPT !.row = id] EXCEPT !.event = event]
    BY <1>1 DEF Save
  <1> HIDE DEF pc
  <1> QED
    BY <1>1, <1>2 DEF ActorFields, pc

\* A step of one actor is no concern of the others.
LEMMA ActorHolds ==
  ASSUME HoldOK, UNCHANGED setting, Grows, NEW a \in Actors, OthersStay(a),
         a \in Uploaders => Secured(run[a])',
         ~setting.database => run'[a].pc \notin AtDatabase
  PROVE  HoldOK'
  <1>1. Actors' = Actors /\ Uploaders' = Uploaders /\ Uploaders \subseteq Actors
    BY ActorsStay DEF Uploaders, Actors
  <1>2. ASSUME NEW b \in Uploaders PROVE Secured(run[b])'
    BY <1>1, <1>2 DEF HoldOK, OthersStay, Secured, Grows
  <1>3. ASSUME ~setting.database, NEW b \in Actors PROVE run'[b].pc \notin AtDatabase
    BY <1>3 DEF HoldOK, OthersStay
  <1> QED
    BY <1>1, <1>2, <1>3 DEF HoldOK

\* Nor is one that leaves every actor where it is.
LEMMA NobodyMoves ==
  ASSUME HoldOK, UNCHANGED <<setting, run>>, Grows
  PROVE  HoldOK'
  <1>1. Actors' = Actors /\ Uploaders' = Uploaders
    BY ActorsStay DEF Uploaders
  <1> QED
    BY <1>1 DEF HoldOK, Secured, Grows

-----------------------------------------------------------------------------
(* The kinds of steps *)

\* The steps at which nothing is claimed of the case of an analysis.
Unclaimed(pc) == pc \notin Storing \cup AtDatabase \cup {"analysed"}

\* A step that only moves an actor on.
LEMMA GoesKeeps ==
  ASSUME RunOK, StoreOK, HoldOK, JobsOK, NEW a \in Actors, NEW pc, Goes(a, pc), OthersStay(a),
         Unclaimed(pc),
         UNCHANGED <<memory, rows, jobVars, poll, setting, forgotten>>
  PROVE  Keeps
  <1>1. StoreOK' /\ Grows
    BY StoreStays
  <1>2. JobsOK'
    BY <1>1, JobsStay
  <1>3. /\ run'[a].pc = pc /\ run'[a].then = run[a].then
        /\ run'[a].id = run[a].id /\ run'[a].case = run[a].case
    BY GoesFields
  <1>4. a \in Uploaders => Secured(run[a])'
    BY <1>1, <1>3 DEF HoldOK, Secured, Grows, Unclaimed
  <1>5. HoldOK'
    BY <1>1, <1>3, <1>4, ActorHolds DEF Unclaimed
  <1> QED
    BY <1>1, <1>2, <1>5 DEF Keeps

\* A step that reports a status; COMPLETED is reported for what is stored.
LEMMA ReportKeeps ==
  ASSUME RunOK, StoreOK, HoldOK, JobsOK, NEW a \in Actors,
         NEW id, NEW changes, NEW then, Report(a, id, changes, then), OthersStay(a),
         changes.status # "", changes.status = "COMPLETED" => Stored(id), Unclaimed(then),
         UNCHANGED <<memory, rows, poll, setting, forgotten>>
  PROVE  Keeps
  <1>1. StoreOK' /\ Grows
    BY StoreStays
  <1>2. JobsOK'
    BY <1>1, UpdateKeepsJobs DEF Report
  <1>3. /\ run'[a].pc = (IF setting.database THEN "persist" ELSE then)
        /\ run'[a].then = then /\ run'[a].id = id /\ run'[a].case = run[a].case
    BY ReportFields
  <1>4. Secured(run[a])'
    BY <1>3 DEF Secured, Unclaimed, Storing
  <1>5. HoldOK'
    BY <1>1, <1>3, <1>4, ActorHolds DEF Unclaimed
  <1> QED
    BY <1>1, <1>2, <1>5 DEF Keeps

\* A step that saves a case secures what it goes on with.
LEMMA SaveKeeps ==
  ASSUME RunOK, StoreOK, HoldOK, JobsOK, NEW a \in Actors,
         NEW c, NEW id, NEW event, NEW then, Save(a, c, id, event, then), OthersStay(a),
         IsCase(c), then \notin AtDatabase,
         a \in Uploaders /\ then \in Storing => id = run[a].id \/ Stored(run[a].id),
         a \in Uploaders /\ then = "analysed" => id = c.id,
         UNCHANGED <<jobVars, poll, setting, forgotten>>
  PROVE  Keeps
  <1>1. StoreOK' /\ Grows /\ Stored(id)'
    BY SaveStores
  <1>2. JobsOK'
    BY <1>1, JobsStay
  <1>3. /\ run'[a].pc = (IF setting.database THEN "begin" ELSE then)
        /\ run'[a].then = then /\ run'[a].id = run[a].id /\ run'[a].case = c
    BY SaveFields
  <1>4. a \in Uploaders => Secured(run[a])'
    <2> SUFFICES ASSUME a \in Uploaders PROVE Secured(run[a])'
      OBVIOUS
    <2>1. then \in Storing => Stored(run[a].id)'
      <3>1. CASE id = run[a].id
        <4>1. \A x : x = id => Stored(x)'
          BY <1>1
        <4> QED
          BY <1>3, <3>1, <4>1 DEF Stored
      <3>2. CASE Stored(run[a].id)
        <4>1. \A x : x = run[a].id => Stored(x)'
          BY <1>1, <3>2 DEF Grows
        <4> QED
          BY <1>3, <4>1 DEF Stored
      <3> QED
        BY <3>1, <3>2
    <2>2. then = "analysed" => Stored(run[a].case.id)'
      BY <1>1, <1>3 DEF Stored
    <2> QED
      BY <1>3, <2>1, <2>2 DEF Secured, Storing
  <1>5. HoldOK'
    BY <1>1, <1>3, <1>4, ActorHolds DEF AtDatabase
  <1> QED
    BY <1>1, <1>2, <1>5 DEF Keeps

-----------------------------------------------------------------------------
(* The steps of an upload *)

\* What an upload is answered with: a new job, or COMPLETED for a case that is found.
LEMMA RequestKeeps ==
  ASSUME StatusInv, NEW a \in Uploaders,
         RejectUpload(a) \/ FindNoCase(a) \/ StartUpload(a) \/ RepeatUpload(a)
  PROVE  Keeps
  <1>1. /\ RunOK /\ StoreOK /\ HoldOK /\ JobsOK /\ a \in Actors
        /\ ActorFields \subseteq DOMAIN run[a] /\ DOMAIN run = Actors
    BY DEF StatusInv, CustodyInv, RunOK, ActorOK, Actors
  <1>2. OthersStay(a)
    BY <1>1, RequestLocal DEF LocalStep
  <1>3. UNCHANGED <<memory, rows, poll, setting, forgotten>>
    BY DEF RejectUpload, FindNoCase, StartUpload, RepeatUpload, storeVars
  <1>4. CASE RejectUpload(a)
    <2>1. Goes(a, "done") /\ UNCHANGED jobVars
      BY <1>4 DEF RejectUpload
    <2> QED
      BY <1>1, <1>2, <1>3, <2>1, GoesKeeps DEF Unclaimed, Storing, AtDatabase
  <1>5. CASE RepeatUpload(a)
    <2> DEFINE f == Uploaded(setting.upload[a])
    <2>1. PICK readable \in BOOLEAN :
             /\ GetCase(f.of, readable) # NoCase
             /\ Report(a, f.of,
                       Changes("COMPLETED", DynamicStatus(GetCase(f.of, readable)), ""), "done")
      BY <1>5 DEF RepeatUpload
    <2>2. Stored(f.of)
      BY <2>1, FoundIsStored
    <2> DEFINE changes == Changes("COMPLETED", DynamicStatus(GetCase(f.of, readable)), "")
    <2>3. changes.status = "COMPLETED"
      BY DEF Changes
    <2> HIDE DEF changes, f
    <2> QED
      BY <1>1, <1>2, <1>3, <2>1, <2>2, <2>3, ReportKeeps
         DEF changes, Unclaimed, Storing, AtDatabase
  <1>6. CASE StartUpload(a)
    <2> DEFINE f == Uploaded(setting.upload[a])
               pc == IF setting.database THEN "persist" ELSE "validate"
    <2>1. /\ CreateJob(a, f.of, Changes("UPLOADED", "", ""), setting.database)
          /\ run' = [run EXCEPT ![a].pc = pc, ![a].then = "validate",
                                ![a].id = f.of, ![a].file = f]
      BY <1>6 DEF StartUpload
    <2>2. StoreOK' /\ Grows
      BY <1>1, <1>3, StoreStays
    <2>3. JobsOK'
      <3>1. Changes("UPLOADED", "", "").status # "COMPLETED"
        BY DEF Changes
      <3> QED
        BY <1>1, <1>3, <2>1, <2>2, <3>1, CreateKeepsJobs
    <2> HIDE DEF f, pc
    <2>4. run'[a] = [[[[run[a] EXCEPT !.pc = pc] EXCEPT !.then = "validate"]
                       EXCEPT !.id = f.of] EXCEPT !.file = f]
      BY <1>1, <2>1
    <2>5. run'[a].pc = pc /\ run'[a].then = "validate"
      BY <1>1, <2>4 DEF ActorFields
    <2>6. HoldOK'
      BY <1>1, <1>2, <1>3, <2>2, <2>5, ActorHolds DEF pc, Secured, Storing, AtDatabase
    <2> QED
      BY <2>2, <2>3, <2>6 DEF Keeps
  <1>7. CASE FindNoCase(a)
    <2>1. Goes(a, "unknown") /\ UNCHANGED jobVars
      BY <1>7 DEF FindNoCase
    <2> QED
      BY <1>1, <1>2, <1>3, <2>1, GoesKeeps DEF Unclaimed, Storing, AtDatabase
  <1> QED
    BY <1>4, <1>5, <1>6, <1>7

\* The analysis says COMPLETED only once it has stored the case under its id.
LEMMA UploadKeeps ==
  ASSUME StatusInv, NEW a \in Uploaders, UploadStep(a)
  PROVE  Keeps
  <1>1. /\ RunOK /\ StoreOK /\ HoldOK /\ JobsOK /\ a \in Actors
        /\ ActorFields \subseteq DOMAIN run[a] /\ DOMAIN run = Actors
        /\ run[a].pc \in Holding => IsCase(run[a].case)
        /\ run[a].pc \in Reading => Analysable(run[a].file)
        /\ Secured(run[a])
    BY DEF StatusInv, CustodyInv, RunOK, ActorOK, HoldOK, Actors
  <1>2. OthersStay(a)
    BY <1>1, UploadLocal DEF LocalStep
  <1>3. UNCHANGED <<rows, poll, setting, forgotten>>
    BY DEF UploadStep, Validate, StartStatic, AnalyseUpload, SaveAlias, StartDynamic, Observe,
           RenewAlias, Complete, Fail, Save, storeVars
  <1>4. CASE Validate(a) \/ StartStatic(a) \/ Fail(a)
    <2>1. /\ UNCHANGED memory
          /\ \E then \in {"static", "analyse", "done"}, st \in {"VALIDATING", "STATIC_ANALYSIS", "FAILED"}, e \in {"", "error"} :
                Report(a, run[a].id, Changes(st, "", e), then)
      BY <1>4 DEF Validate, StartStatic, Fail, storeVars
    <2>2. PICK then \in {"static", "analyse", "done"},
               st \in {"VALIDATING", "STATIC_ANALYSIS", "FAILED"}, e \in {"", "error"} :
             Report(a, run[a].id, Changes(st, "", e), then)
      BY <2>1
    <2>3. Changes(st, "", e).status = st
      BY DEF Changes
    <2>4. Unclaimed(then)
      BY DEF Unclaimed, Storing, AtDatabase
    <2> QED
      BY <1>1, <1>2, <1>3, <2>1, <2>2, <2>3, <2>4, ReportKeeps
  <1>5. CASE Complete(a)
    <2> DEFINE changes == Changes("COMPLETED", DynamicStatus(run[a].case), "")
    <2>1. /\ run[a].pc = "complete" /\ UNCHANGED memory
          /\ Report(a, run[a].id, changes, "done")
      BY <1>5 DEF Complete, storeVars
    <2>2. changes.status = "COMPLETED"
      BY DEF Changes
    <2>3. Stored(run[a].id)
      BY <1>1, <2>1 DEF Secured, Storing
    <2> HIDE DEF changes
    <2> QED
      BY <1>1, <1>2, <1>3, <2>1, <2>2, <2>3, ReportKeeps DEF Unclaimed, Storing, AtDatabase
  <1>6. CASE AnalyseUpload(a)
    <2>1. PICK r \in {Outcome[run[a].file.of][run[a].file.suffix]} :
             IF r.kind = "case"
             THEN Save(a, [r.case EXCEPT !.analysis = "STATIC_ANALYSIS"], r.case.id,
                       "static_analysis_complete", "analysed")
             ELSE Goes(a, AfterFailure(r.kind)) /\ UNCHANGED storeVars
      BY <1>6 DEF AnalyseUpload
    <2>2. run[a].pc = "analyse" /\ UNCHANGED jobVars
      BY <1>6 DEF AnalyseUpload
    <2>3. CASE r.kind = "case"
      <3> DEFINE c == [r.case EXCEPT !.analysis = "STATIC_ANALYSIS"]
      <3>1. IsCase(r.case)
        BY <1>1, <2>1, <2>2, <2>3, OutcomeShape DEF Reading
      <3>2. IsCase(c) /\ c.id = r.case.id
        BY <3>1 DEF IsCase, CaseFields
      <3>3. Save(a, c, r.case.id, "static_analysis_complete", "analysed")
        BY <2>1, <2>3
      <3> HIDE DEF c
      <3> QED
        BY <1>1, <1>2, <1>3, <2>2, <3>2, <3>3, SaveKeeps DEF Storing, AtDatabase
    <2>4. CASE r.kind # "case"
      <3>1. Goes(a, "fail") /\ UNCHANGED memory
        BY <2>1, <2>4 DEF AfterFailure, storeVars
      <3> QED
        BY <1>1, <1>2, <1>3, <2>2, <3>1, GoesKeeps DEF Unclaimed, Storing, AtDatabase
    <2> QED
      BY <2>3, <2>4
  <1>7. CASE SaveAlias(a) \/ RenewAlias(a)
    <2>1. /\ UNCHANGED jobVars
          /\ run[a].pc \in {"analysed", "observed"}
          /\ \E c \in {run[a].case, [run[a].case EXCEPT !.analysis = "DYNAMIC_ANALYSIS"]},
                event \in {"json_bson_alias", "dynamic_analysis_checked"},
                then \in {"dynamic", "complete"} :
                Save(a, c, run[a].id, event, then)
      BY <1>7 DEF SaveAlias, RenewAlias
    <2>2. PICK c \in {run[a].case, [run[a].case EXCEPT !.analysis = "DYNAMIC_ANALYSIS"]},
               event \in {"json_bson_alias", "dynamic_analysis_checked"},
               then \in {"dynamic", "complete"} :
             Save(a, c, run[a].id, event, then)
      BY <2>1
    <2>3. IsCase(c)
      BY <1>1, <2>1 DEF Holding, IsCase
    <2> QED
      BY <1>1, <1>2, <1>3, <2>1, <2>2, <2>3, SaveKeeps DEF Storing, AtDatabase
  <1>8. CASE StartDynamic(a)
    <2> DEFINE c == [run[a].case EXCEPT !.analysis = "DYNAMIC_ANALYSIS"]
               pc == IF setting.database THEN "persist" ELSE "sandbox"
               changes == Changes("DYNAMIC_ANALYSIS", "", "")
    <2>1. /\ \/ run[a].pc = "dynamic"
             \/ run[a].pc = "analysed" /\ run[a].case.id = run[a].id
          /\ memory' = Shared(memory, a, c)
          /\ UpdateJob(a, run[a].id, changes, setting.database)
          /\ run' = [run EXCEPT ![a].pc = pc, ![a].then = "sandbox", ![a].case = c]
      BY <1>8 DEF StartDynamic
    <2>2. Stored(run[a].id)
      BY <1>1, <2>1 DEF Secured, Storing
    <2>3. IsCase(c)
      BY <1>1, <2>1 DEF Holding, IsCase
    <2>4. changes.status = "DYNAMIC_ANALYSIS"
      BY DEF Changes
    <2> HIDE DEF c, pc, changes
    <2>5. StoreOK' /\ Grows
      <3>1. /\ DOMAIN memory' = DOMAIN memory
            /\ \A id \in DOMAIN memory :
                  {"case", "by"} \subseteq DOMAIN memory'[id] /\ IsCase(memory'[id].case)
        BY <1>1, <2>1, <2>3, SharedKeeps
      <3> QED
        BY <1>1, <1>3, <3>1 DEF StoreOK, Grows, Stored
    <2>6. JobsOK'
      BY <1>1, <1>3, <2>1, <2>4, <2>5, UpdateKeepsJobs
    <2>7. run'[a] = [[[run[a] EXCEPT !.pc = pc] EXCEPT !.then = "sandbox"] EXCEPT !.case = c]
      BY <1>1, <2>1
    <2>8. run'[a].pc = pc /\ run'[a].then = "sandbox" /\ run'[a].id = run[a].id
      BY <1>1, <2>7 DEF ActorFields
    <2>9. Secured(run[a])'
      BY <2>2, <2>5, <2>8 DEF Secured, Grows, pc
    <2>10. HoldOK'
      BY <1>1, <1>2, <1>3, <2>5, <2>8, <2>9, ActorHolds DEF pc, AtDatabase
    <2> QED
      BY <2>5, <2>6, <2>10 DEF Keeps
  <1>9. CASE Observe(a)
    <2>1. /\ run[a].pc = "sandbox" /\ UNCHANGED jobVars
          /\ \E dynamic, id, e : \E then \in {"complete", "observed"} :
                Save(a, WithDynamic(run[a].case, dynamic), id, e, then)
      BY <1>9 DEF Observe
    <2>2. PICK dynamic, id, e, then :
             /\ then \in {"complete", "observed"}
             /\ Save(a, WithDynamic(run[a].case, dynamic), id, e, then)
      BY <2>1
    <2>3. IsCase(WithDynamic(run[a].case, dynamic))
      BY <1>1, <2>1, RenewedShape DEF Holding
    <2>4. Stored(run[a].id)
      BY <1>1, <2>1 DEF Secured, Storing
    <2> QED
      BY <1>1, <1>2, <1>3, <2>1, <2>2, <2>3, <2>4, SaveKeeps DEF Storing, AtDatabase
  <1> QED
    BY <1>4, <1>5, <1>6, <1>7, <1>8, <1>9 DEF UploadStep

-----------------------------------------------------------------------------
(* The other steps *)

\* A submission is kept under the id it gives itself.
LEMMA SubmitKeeps ==
  ASSUME StatusInv, NEW a \in Submitters, Submit(a)
  PROVE  Keeps
  <1>1. RunOK /\ StoreOK /\ HoldOK /\ JobsOK /\ a \in Actors
    BY DEF StatusInv, CustodyInv, Actors
  <1>2. OthersStay(a)
    BY <1>1, SubmitLocal DEF LocalStep
  <1>3. /\ UNCHANGED <<jobVars, poll, setting, forgotten>>
        /\ \E id, e : Save(a, SubmittedCase(setting.submit[a]), id, e, "done")
    BY DEF Submit
  <1>4. IsCase(SubmittedCase(setting.submit[a]))
    BY CaseOfShape DEF SubmittedCase, IsCase
  <1> QED
    BY <1>1, <1>2, <1>3, <1>4, SaveKeeps DEF Storing, AtDatabase

\* The worker reports no status, and it uploads nothing.
LEMMA WorkerKeeps ==
  ASSUME StatusInv, WorkerStep
  PROVE  Keeps
  <1>1. /\ RunOK /\ StoreOK /\ HoldOK /\ JobsOK /\ QueueInv /\ setting \in Settings
        /\ Worker \in Actors /\ DOMAIN run = Actors
        /\ ActorFields \subseteq DOMAIN run[Worker]
        /\ run[Worker].pc \in Holding => IsCase(run[Worker].case)
        /\ run[Worker].pc \in Reading => Analysable(run[Worker].file)
    BY DEF StatusInv, CustodyInv, RunOK, ActorOK, Actors
  <1>2. OthersStay(Worker)
    BY <1>1, WorkerLocal DEF LocalStep
  <1>3. Worker \notin Uploaders
    BY <1>1, WorkerAssumption DEF Uploaders
  <1>4. UNCHANGED <<rows, jobVars, poll, setting, forgotten>>
    BY DEF WorkerStep, Pop, PopUnanswered, AnalyseJob, ObserveJob, FinishJob, Save, storeVars
  <1>5. CASE Pop \/ FinishJob
    <2>1. StoreOK' /\ Grows
      <3>1. UNCHANGED memory
        BY <1>5 DEF Pop, FinishJob, storeVars
      <3> QED
        BY <1>1, <1>4, <3>1, StoreStays
    <2>2. JobsOK'
      BY <1>1, <1>4, <2>1, JobsStay
    <2>3. run'[Worker].pc \in {"analyse", "polling"}
      <3>1. CASE Pop
        <4> DEFINE f == [of |-> Head(queue), suffix |-> DetectFormat(Contents[Head(queue)])]
        <4>1. run' = [run EXCEPT ![Worker].pc = "analyse", ![Worker].file = f]
          BY <3>1 DEF Pop
        <4> HIDE DEF f
        <4>2. run'[Worker] = [[run[Worker] EXCEPT !.pc = "analyse"] EXCEPT !.file = f]
          BY <1>1, <4>1
        <4> QED
          BY <1>1, <4>2 DEF ActorFields
      <3>2. CASE FinishJob
        <4>1. run'[Worker] = [Waiting EXCEPT !.pc = "polling"]
          BY <1>1, <3>2 DEF FinishJob
        <4> QED
          BY <4>1 DEF Waiting
      <3> QED
        BY <1>5, <3>1, <3>2
    <2>4. HoldOK'
      BY <1>1, <1>2, <1>3, <1>4, <2>1, <2>3, ActorHolds DEF AtDatabase
    <2> QED
      BY <2>1, <2>2, <2>4 DEF Keeps
  <1>6. CASE AnalyseJob
    <2>1. PICK r \in {Outcome[run[Worker].file.of][run[Worker].file.suffix]} :
             IF r.kind = "case"
             THEN Save(Worker, r.case, r.case.id, "ingested_via_queue",
                       IF r.case.dynamic = Absent THEN "sandbox" ELSE "finish")
             ELSE Goes(Worker, "finish") /\ UNCHANGED storeVars
      BY <1>6 DEF AnalyseJob
    <2>2. run[Worker].pc = "analyse"
      BY <1>6 DEF AnalyseJob
    <2>3. CASE r.kind = "case"
      <3>1. IsCase(r.case)
        BY <1>1, <2>1, <2>2, <2>3, OutcomeShape DEF Reading
      <3> QED
        BY <1>1, <1>2, <1>3, <1>4, <2>1, <2>3, <3>1, SaveKeeps DEF AtDatabase
    <2>4. CASE r.kind # "case"
      <3>1. Goes(Worker, "finish") /\ UNCHANGED memory
        BY <2>1, <2>4 DEF storeVars
      <3> QED
        BY <1>1, <1>2, <1>4, <3>1, GoesKeeps DEF Unclaimed, Storing, AtDatabase
    <2> QED
      BY <2>3, <2>4
  <1>7. CASE ObserveJob
    <2>1. /\ run[Worker].pc = "sandbox"
          /\ \E dynamic, id, e :
                Save(Worker, [run[Worker].case EXCEPT !.dynamic = dynamic,
                                                      !.analysis = "COMPLETED"],
                     id, e, "finish")
      BY <1>7 DEF ObserveJob
    <2>2. PICK dynamic, id, e :
             Save(Worker, [run[Worker].case EXCEPT !.dynamic = dynamic,
                                                   !.analysis = "COMPLETED"],
                  id, e, "finish")
      BY <2>1
    <2> DEFINE c == [run[Worker].case EXCEPT !.dynamic = dynamic, !.analysis = "COMPLETED"]
    <2>3. IsCase(c)
      BY <1>1, <2>1 DEF Holding, IsCase
    <2>4. Save(Worker, c, id, e, "finish")
      BY <2>2
    <2> HIDE DEF c
    <2> QED
      BY <1>1, <1>2, <1>3, <1>4, <2>3, <2>4, SaveKeeps DEF AtDatabase
  <1>8. CASE PopUnanswered
    <2>1. UNCHANGED <<memory, run>>
      BY <1>8 DEF PopUnanswered, storeVars
    <2>2. StoreOK' /\ Grows
      BY <1>1, <1>4, <2>1, StoreStays
    <2>3. JobsOK' /\ HoldOK'
      BY <1>1, <1>4, <2>1, <2>2, JobsStay, NobodyMoves
    <2> QED
      BY <2>2, <2>3 DEF Keeps
  <1> QED
    BY <1>5, <1>6, <1>7, <1>8 DEF WorkerStep

\* An actor that goes on after its write has what it had.
LEMMA GoesOnHolds ==
  ASSUME RunOK, HoldOK, setting.database, NEW a \in Actors, Grows, UNCHANGED setting,
         Goes(a, run[a].then) \/ Goes(a, "commit")
  PROVE  HoldOK'
  <1>1. DOMAIN run = Actors
    BY DEF RunOK
  <1>2. OthersStay(a)
    BY <1>1 DEF Goes, OthersStay
  <1>3. /\ run'[a].pc \in {run[a].then, "commit"} /\ run'[a].then = run[a].then
        /\ run'[a].id = run[a].id /\ run'[a].case = run[a].case
    BY GoesFields
  <1>4. a \in Uploaders => Secured(run[a])'
    BY <1>3 DEF HoldOK, Secured, Storing, Grows
  <1> QED
    BY <1>2, <1>4, ActorHolds

\* What is written is a copy of what was said, or the case the actor holds.
LEMMA WritesKeep ==
  ASSUME StatusInv, NEW a \in Actors, WriteStep(a)
  PROVE  Keeps
  <1>1. /\ RunOK /\ StoreOK /\ HoldOK /\ JobsOK /\ a \in DOMAIN sending
        /\ run[a].pc \in Holding => IsCase(run[a].case)
    BY DEF StatusInv, CustodyInv, RunOK, ActorOK, SendersOK
  <1>2. /\ run[a].pc \in AtDatabase /\ UNCHANGED <<memory, poll, setting, forgotten>>
        /\ Goes(a, run[a].then) \/ Goes(a, "commit")
    BY DEF WriteStep, Persist, LosePersist, Begin, Commit, Abort, BeginSave, CommitSave,
           AbortSave, storeVars, AtDatabase
  <1>3. setting.database
    BY <1>1, <1>2 DEF HoldOK
  <1>4. CASE Persist(a) \/ LosePersist(a)
    <2>1. StoreOK' /\ Grows
      <3>1. UNCHANGED rows
        BY <1>4 DEF Persist, LosePersist, storeVars
      <3> QED
        BY <1>1, <1>2, <3>1, StoreStays
    <2>2. JobsOK'
      <3>1. (\E job : PersistJob(a, job)) \/ LoseJobWrite(a)
        BY <1>4 DEF Persist, LosePersist
      <3> QED
        BY <1>1, <1>2, <2>1, <3>1, WriteKeepsJobs
    <2>3. HoldOK'
      BY <1>1, <1>2, <1>3, <2>1, GoesOnHolds
    <2> QED
      BY <2>1, <2>2, <2>3 DEF Keeps
  <1>5. CASE Begin(a) \/ Abort(a)
    <2>1. UNCHANGED <<rows, jobVars>>
      BY <1>5 DEF Begin, Abort, BeginSave, AbortSave
    <2>2. StoreOK' /\ Grows
      BY <1>1, <1>2, <2>1, StoreStays
    <2>3. JobsOK'
      BY <1>1, <1>2, <2>1, <2>2, JobsStay
    <2>4. HoldOK'
      BY <1>1, <1>2, <1>3, <2>2, GoesOnHolds
    <2> QED
      BY <2>2, <2>3, <2>4 DEF Keeps
  <1>6. CASE Commit(a)
    <2> DEFINE id == run[a].row
               saved == [run[a].case EXCEPT !.id = id]
               row == IF id \in DOMAIN rows
                      THEN [saved EXCEPT !.platform = rows[id].platform,
                                         !.ftype = rows[id].ftype]
                      ELSE saved
    <2>1. /\ run[a].pc = "commit" /\ UNCHANGED jobVars
          /\ rows' = Put(rows, id, row)
      BY <1>6 DEF Commit, CommitSave
    <2>2. IsCase(row)
      BY <1>1, <2>1 DEF Holding, IsCase
    <2> HIDE DEF row, id, saved
    <2>3. /\ DOMAIN rows' = DOMAIN rows \cup {id} /\ rows'[id] = row
          /\ \A x \in DOMAIN rows \ {id} : rows'[x] = rows[x]
      BY <2>1 DEF Put
    <2>4. StoreOK' /\ Grows
      BY <1>1, <1>2, <1>3, <2>2, <2>3 DEF StoreOK, Grows, Stored
    <2>5. JobsOK'
      BY <1>1, <1>2, <2>1, <2>4, JobsStay
    <2>6. HoldOK'
      BY <1>1, <1>2, <1>3, <2>4, GoesOnHolds
    <2> QED
      BY <2>4, <2>5, <2>6 DEF Keeps
  <1> QED
    BY <1>4, <1>5, <1>6 DEF WriteStep

\* A client reads the row of a job.
LEMMA AskKeeps ==
  ASSUME StatusInv, NEW id, AskStatus(id)
  PROVE  Keeps
  <1>1. /\ UNCHANGED <<memory, rows, jobVars, setting, run, forgotten>>
        /\ poll' = [id |-> id,
                    row |-> IF setting.database /\ id \in DOMAIN jobRows THEN jobRows[id]
                            ELSE NoJob]
    BY DEF AskStatus, storeVars
  <1>2. StoreOK' /\ Grows
    BY <1>1, StoreStays DEF StatusInv
  <1>3. Completed(poll.row, poll.id)'
    <2>1. poll'.id = id /\ poll'.row \in {NoJob} \cup {jobRows[x] : x \in DOMAIN jobRows \cap {id}}
      BY <1>1
    <2>2. NoJob.status # "COMPLETED"
      BY DEF NoJob, Changes
    <2>3. id \in DOMAIN jobRows => Completed(jobRows[id], id)
      BY DEF StatusInv, JobsOK
    <2>4. poll'.row.status = "COMPLETED" => Stored(id)'
      BY <1>2, <2>1, <2>2, <2>3 DEF Completed, Grows
    <2> QED
      BY <2>1, <2>4 DEF Completed, Stored
  <1>4. JobsOK'
    BY <1>1, <1>2, <1>3 DEF StatusInv, JobsOK, Completed, Grows, jobVars
  <1>5. HoldOK'
    BY <1>1, <1>2, NobodyMoves DEF StatusInv
  <1> QED
    BY <1>2, <1>4, <1>5 DEF Keeps

\* The client is told COMPLETED for what it can fetch, unless it was forgotten.
LEMMA AnswerKeeps ==
  ASSUME StatusInv, AnswerStatus
  PROVE  Keeps /\ CompletedMeansSaved'
  <1> DEFINE id == poll.id
             found == GetCase(id, setting.database) # NoCase
  <1>1. PICK row \in {poll.row, NoJob} :
           /\ IF row = NoJob THEN UNCHANGED jobVars ELSE AdoptRow(id, row)
           /\ LET job == IF row = NoJob THEN JobInMemory(id) ELSE row
              IN  told' = [id |-> id, found |-> found,
                           status |-> IF job.status \notin {"", "COMPLETED"}
                                      THEN job.status
                                      ELSE IF found THEN "COMPLETED" ELSE job.status]
    BY DEF AnswerStatus
  <1>2. /\ UNCHANGED <<memory, rows, setting, run, forgotten>>
        /\ poll' = [id |-> "", row |-> NoJob]
    BY DEF AnswerStatus, storeVars
  <1>3. StoreOK /\ JobsOK /\ HoldOK /\ Completed(poll.row, id)
    BY DEF StatusInv, JobsOK
  <1>4. StoreOK' /\ Grows
    BY <1>2, <1>3, StoreStays
  <1>5. NoJob.status = ""
    BY DEF NoJob, Changes
  <1>6. Completed(row, id)
    BY <1>1, <1>3, <1>5 DEF Completed
  <1>7. JobsOK'
    <2>1. CASE row = NoJob
      <3>1. UNCHANGED jobVars
        BY <1>1, <2>1
      <3>2. Completed(poll.row, poll.id)'
        BY <1>2, <1>5 DEF Completed
      <3> QED
        BY <1>3, <1>4, <3>1, <3>2 DEF JobsOK, Completed, Grows, jobVars
    <2>2. CASE row # NoJob
      <3> HIDE DEF id
      <3> QED
        BY <1>1, <1>2, <1>3, <1>4, <1>6, <2>2, AdoptKeepsJobs
    <2> QED
      BY <2>1, <2>2
  <1>8. HoldOK'
    BY <1>2, <1>3, <1>4, NobodyMoves
  <1>9. CompletedMeansSaved'
    <2> DEFINE job == IF row = NoJob THEN JobInMemory(id) ELSE row
    <2>1. Completed(job, id)
      BY <1>3, <1>5, <1>6 DEF JobInMemory, JobsOK, Completed
    <2>2. told'.status = "COMPLETED" => found \/ job.status = "COMPLETED"
      BY <1>1
    <2>3. told'.found = found /\ told'.id = id
      BY <1>1
    <2>4. Stored(id) => found \/ id \in forgotten
      BY <1>3, StoredIsFound
    <2> HIDE DEF job, found, id
    <2> QED
      BY <1>2, <2>1, <2>2, <2>3, <2>4 DEF CompletedMeansSaved, Completed
  <1> QED
    BY <1>4, <1>7, <1>8, <1>9 DEF Keeps

\* A restart forgets the cases that have no row, and says which.
LEMMA RestartKeepsStatus ==
  ASSUME StatusInv, Restart
  PROVE  Keeps
  <1>1. /\ memory' = <<>> /\ rows' = rows /\ setting' = setting
        /\ forgotten' = forgotten \cup (DOMAIN memory \ DOMAIN rows)
        /\ jobs' = <<>> /\ jobRows' = jobRows
        /\ sending' = [a \in DOMAIN sending |-> NotSending]
        /\ poll' = [id |-> "", row |-> NoJob]
    BY DEF Restart, ForgetCases, ForgetJobs
  <1>2. PICK worker \in {"polling", "off"} :
           run' = [a \in Actors |->
                     IF a = Worker THEN [Waiting EXCEPT !.pc = worker]
                     ELSE IF AtWork(a) THEN [Waiting EXCEPT !.pc = "done"] ELSE run[a]]
    BY DEF Restart
  <1>3. StoreOK /\ JobsOK /\ HoldOK
    BY DEF StatusInv
  <1>4. Grows
    BY <1>1 DEF Grows, Stored
  <1>5. StoreOK'
    <2>1. DOMAIN memory' = {}
      BY <1>1, EmptyTable
    <2> QED
      BY <1>1, <1>3, <2>1 DEF StoreOK
  <1>6. JobsOK'
    <2>1. /\ NotSending.values = {} /\ DOMAIN NotSending = SendingFields
          /\ NoJob.status # "COMPLETED"
      BY DEF NotSending, SendingFields, NoJob, Changes
    <2>2. \A id \in DOMAIN jobRows' : Completed(jobRows[id], id)'
      BY <1>1, <1>3, <1>4 DEF JobsOK, Completed, Grows
    <2>3. DOMAIN jobs' = {} /\ poll'.row = NoJob
      BY <1>1, EmptyTable
    <2>4. /\ DOMAIN sending' = DOMAIN sending
          /\ \A a \in DOMAIN sending' : sending'[a] = NotSending
      BY <1>1
    <2> QED
      BY <2>1, <2>2, <2>3, <2>4 DEF JobsOK, Completed
  <1>7. HoldOK'
    <2>1. Actors' = Actors /\ Uploaders' = Uploaders /\ Uploaders \subseteq Actors
      BY <1>1, ActorsStay DEF Uploaders, Actors
    <2>2. ASSUME NEW a \in Actors
          PROVE  \/ run'[a] = run[a]
                 \/ run'[a].then = "" /\ run'[a].pc \in {"polling", "off", "done"}
      BY <1>2 DEF Waiting
    <2>3. ASSUME NEW a \in Uploaders PROVE Secured(run[a])'
      BY <1>3, <1>4, <2>1, <2>2 DEF HoldOK, Secured, Storing, Grows
    <2>4. ASSUME ~setting.database, NEW a \in Actors PROVE run'[a].pc \notin AtDatabase
      BY <1>3, <2>2, <2>4 DEF HoldOK, AtDatabase
    <2> QED
      BY <1>1, <2>1, <2>3, <2>4 DEF HoldOK
  <1> QED
    BY <1>4, <1>5, <1>6, <1>7 DEF Keeps

\* A step that concerns neither cases nor jobs nor actors.
LEMMA OtherKeepsStatus ==
  ASSUME StatusInv, UNCHANGED <<memory, rows, jobVars, poll, setting, run, forgotten>>
  PROVE  Keeps
  <1>1. StoreOK' /\ Grows
    BY StoreStays DEF StatusInv
  <1>2. JobsOK'
    BY <1>1, JobsStay DEF StatusInv
  <1>3. HoldOK'
    BY <1>1, NobodyMoves DEF StatusInv
  <1> QED
    BY <1>1, <1>2, <1>3 DEF Keeps

-----------------------------------------------------------------------------
(* What holds in every behaviour *)

\* No step gives a place among the writes to anybody, or takes one away.
LEMMA SendersStay == [Next]_vars => Actors' = Actors /\ DOMAIN sending' = DOMAIN sending
  <1> SUFFICES ASSUME [Next]_vars PROVE UNCHANGED setting /\ DOMAIN sending' = DOMAIN sending
    BY ActorsStay
  <1>1. ASSUME NEW a \in Uploaders,
               RejectUpload(a) \/ FindNoCase(a) \/ StartUpload(a) \/ RepeatUpload(a)
               \/ UploadStep(a)
        PROVE  UNCHANGED setting /\ DOMAIN sending' = DOMAIN sending
    BY <1>1 DEF UploadStep, RejectUpload, FindNoCase, StartUpload, RepeatUpload, Validate,
                StartStatic, AnalyseUpload, SaveAlias, StartDynamic, Observe, RenewAlias,
                Complete, Fail,
                Report, CreateJob, UpdateJob, jobVars
  <1>2. ASSUME NEW a \in Submitters, Submit(a)
        PROVE  UNCHANGED setting /\ DOMAIN sending' = DOMAIN sending
    BY <1>2 DEF Submit, jobVars
  <1>3. ASSUME NEW a \in Actors, WriteStep(a)
        PROVE  UNCHANGED setting /\ DOMAIN sending' = DOMAIN sending
    BY <1>3 DEF WriteStep, Persist, LosePersist, Begin, Commit, Abort, PersistJob, LoseJobWrite,
                jobVars
  <1>4. CASE WorkerStep
    BY <1>4 DEF WorkerStep, Pop, PopUnanswered, AnalyseJob, ObserveJob, FinishJob, jobVars
  <1>5. ASSUME NEW r \in setting.ingest, Ingest(r)
        PROVE  UNCHANGED setting /\ DOMAIN sending' = DOMAIN sending
    BY <1>5 DEF Ingest, jobVars
  <1>6. CASE AnswerStatus \/ \E id \in Asked : AskStatus(id)
    BY <1>6 DEF AnswerStatus, AskStatus, AdoptRow, jobVars
  <1>7. CASE Restart
    BY <1>7 DEF Restart, ForgetJobs
  <1>8. CASE UNCHANGED vars
    BY <1>8 DEF vars, intakeVars, jobVars
  <1> QED
    BY <1>1, <1>2, <1>3, <1>4, <1>5, <1>6, <1>7, <1>8 DEF Next

\* A client is told one thing at a time, and what is forgotten stays so.
LEMMA ToldStays ==
  [Next]_vars => AnswerStatus \/ (UNCHANGED told /\ forgotten \subseteq forgotten')
  <1> SUFFICES ASSUME [Next]_vars, ~AnswerStatus
               PROVE  UNCHANGED told /\ forgotten \subseteq forgotten'
    OBVIOUS
  <1>1. ASSUME NEW a \in Uploaders,
               RejectUpload(a) \/ FindNoCase(a) \/ StartUpload(a) \/ RepeatUpload(a)
               \/ UploadStep(a)
        PROVE  UNCHANGED <<told, forgotten>>
    BY <1>1 DEF UploadStep, RejectUpload, FindNoCase, StartUpload, RepeatUpload, Validate,
                StartStatic, AnalyseUpload, SaveAlias, StartDynamic, Observe, RenewAlias,
                Complete, Fail
  <1>2. ASSUME NEW a \in Submitters, Submit(a)
        PROVE  UNCHANGED <<told, forgotten>>
    BY <1>2 DEF Submit
  <1>3. ASSUME NEW a \in Actors, WriteStep(a)
        PROVE  UNCHANGED <<told, forgotten>>
    BY <1>3 DEF WriteStep, Persist, LosePersist, Begin, Commit, Abort
  <1>4. CASE WorkerStep
    BY <1>4 DEF WorkerStep, Pop, PopUnanswered, AnalyseJob, ObserveJob, FinishJob
  <1>5. ASSUME NEW r \in setting.ingest, Ingest(r)
        PROVE  UNCHANGED <<told, forgotten>>
    BY <1>5 DEF Ingest
  <1>6. ASSUME NEW id \in Asked, AskStatus(id)
        PROVE  UNCHANGED <<told, forgotten>>
    BY <1>6 DEF AskStatus
  <1>7. CASE Restart
    BY <1>7 DEF Restart
  <1>8. CASE UNCHANGED vars
    BY <1>8 DEF vars, intakeVars
  <1> QED
    BY <1>1, <1>2, <1>3, <1>4, <1>5, <1>6, <1>7, <1>8 DEF Next

\* Every step keeps the invariant.
LEMMA StatusStepKeeps == StatusInv /\ [Next]_vars => StatusInv'
  <1> SUFFICES ASSUME StatusInv, [Next]_vars PROVE StatusInv'
    OBVIOUS
  <1>1. CustodyInv' /\ QueueInv'
    BY CustodyStepKeeps DEF StatusInv
  <1>2. SendersOK'
    BY SendersStay DEF StatusInv, SendersOK
  <1>3. CompletedMeansSaved'
    BY ToldStays, AnswerKeeps DEF StatusInv, CompletedMeansSaved
  <1>4. Keeps
    <2>1. ASSUME NEW a \in Uploaders,
                 RejectUpload(a) \/ FindNoCase(a) \/ StartUpload(a) \/ RepeatUpload(a)
                 \/ UploadStep(a)
          PROVE  Keeps
      BY <2>1, RequestKeeps, UploadKeeps
    <2>2. ASSUME NEW r \in setting.ingest, Ingest(r)
          PROVE  Keeps
      BY <2>2, OtherKeepsStatus DEF Ingest, storeVars
    <2>3. CASE UNCHANGED vars
      BY <2>3, OtherKeepsStatus DEF vars, storeVars, intakeVars
    <2> QED
      BY <2>1, <2>2, <2>3, SubmitKeeps, WritesKeep, WorkerKeeps, AskKeeps, AnswerKeeps,
         RestartKeepsStatus DEF Next
  <1> QED
    BY <1>1, <1>2, <1>3, <1>4 DEF StatusInv, Keeps

\* Nothing is stored, said or under way at first.
LEMMA InitStatusInv == Init => StatusInv
  <1> SUFFICES ASSUME Init PROVE StatusInv
    OBVIOUS
  <1>1. CustodyInv /\ QueueInv
    BY InitCustodyInv
  <1>2. /\ memory = <<>> /\ rows = <<>> /\ jobs = <<>> /\ jobRows = <<>>
        /\ sending = [a \in Actors |-> NotSending]
        /\ poll = [id |-> "", row |-> NoJob]
        /\ told = [id |-> "", status |-> "", found |-> FALSE]
        /\ run = [a \in Actors |->
                    IF a = Worker THEN [Waiting EXCEPT !.pc = "polling"] ELSE Waiting]
    BY DEF Init, InitStore, InitJobs
  <1>3. StoreOK
    <2>1. DOMAIN memory = {} /\ DOMAIN rows = {}
      BY <1>2, EmptyTable
    <2> QED
      BY <2>1 DEF StoreOK
  <1>4. ASSUME NEW a \in Actors
        PROVE  run[a].then = "" /\ run[a].pc \in {"polling", "waiting"}
    BY <1>2 DEF Waiting
  <1>5. HoldOK
    BY <1>4 DEF HoldOK, Secured, Storing, AtDatabase, Actors
  <1>6. JobsOK
    <2>1. /\ NotSending.values = {} /\ DOMAIN NotSending = SendingFields
          /\ NoJob.status # "COMPLETED"
      BY DEF NotSending, SendingFields, NoJob, Changes
    <2>2. DOMAIN jobs = {} /\ DOMAIN jobRows = {} /\ poll.row = NoJob
      BY <1>2, EmptyTable
    <2>3. \A a \in DOMAIN sending : sending[a] = NotSending
      BY <1>2
    <2> QED
      BY <2>1, <2>2, <2>3 DEF JobsOK, Completed
  <1>7. SendersOK /\ CompletedMeansSaved
    BY <1>2 DEF SendersOK, CompletedMeansSaved
  <1> QED
    BY <1>1, <1>3, <1>5, <1>6, <1>7 DEF StatusInv

\* However uploads of one sample, writes of its status that are overtaken, rows
\* that are adopted and restarts fall together: a client that is told COMPLETED
\* can fetch the case, unless a restart took it before it had a row.
THEOREM CompletedAnalysesAreSaved == Spec => []CompletedMeansSaved
  <1>1. StatusInv => CompletedMeansSaved
    BY DEF StatusInv
  <1> QED
    BY InitStatusInv, StatusStepKeeps, <1>1, PTL DEF Spec

=============================================================================
