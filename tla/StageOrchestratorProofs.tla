----------------------- MODULE StageOrchestratorProofs -----------------------
(***************************************************************************)
(* Proofs about StageOrchestrator, for every set of profiles and samples   *)
(* and every number of polls and faults: the ledger and the aborts, and    *)
(* what a run of the pipeline concludes about a sample: no behaviour that  *)
(* was shown is filed as dormancy, none is dated before the stage that     *)
(* made it possible, and the interaction gate is credited exactly where    *)
(* the stages before were quiet.                                           *)
(***************************************************************************)
EXTENDS StageOrchestrator, SequenceTheorems, TLAPS

USE ActionsAssumption, OrchestratorAssumption

-----------------------------------------------------------------------------
(* The walk over the stages *)

\* StageOrder has eight positions, each with a stage.
LEMMA EightStages ==
  /\ Len(StageOrder) = 8
  /\ \A i \in 1..8 : StageOrder[i] \in Stages
  <1>1. Len(StageOrder) = 8
    BY DEF StageOrder
  <1>2. ASSUME NEW i \in 1..8 PROVE StageOrder[i] \in Stages
    <2>1. i = 1 \/ i = 2 \/ i = 3 \/ i = 4 \/ i = 5 \/ i = 6 \/ i = 7 \/ i = 8
      OBVIOUS
    <2> QED
      BY <2>1 DEF StageOrder, Stages
  <1> QED
    BY <1>1, <1>2

\* A nonempty set of positions has a first one.
LEMMA FirstOfEight ==
  ASSUME NEW C \in SUBSET (1..8), C # {}
  PROVE  \E j \in C : \A k \in C : j <= k
  <1>1. CASE 1 \in C BY <1>1
  <1>2. CASE 2 \in C /\ 1 \notin C BY <1>2
  <1>3. CASE 3 \in C /\ C \cap {1, 2} = {} BY <1>3
  <1>4. CASE 4 \in C /\ C \cap {1, 2, 3} = {} BY <1>4
  <1>5. CASE 5 \in C /\ C \cap {1, 2, 3, 4} = {} BY <1>5
  <1>6. CASE 6 \in C /\ C \cap {1, 2, 3, 4, 5} = {} BY <1>6
  <1>7. CASE 7 \in C /\ C \cap {1, 2, 3, 4, 5, 6} = {} BY <1>7
  <1>8. CASE C \cap {1, 2, 3, 4, 5, 6, 7} = {}
    <2>1. \A k \in C : k = 8
      BY <1>8
    <2>2. PICK k \in C : TRUE
      OBVIOUS
    <2> WITNESS k \in C
    <2> QED
      BY <2>1
  <1> QED
    BY <1>1, <1>2, <1>3, <1>4, <1>5, <1>6, <1>7, <1>8

\* The stage the walk stops at is to be run, and none before it is.
LEMMA WalkStopsAtFirst ==
  ASSUME NEW i \in 1..9
  PROVE  /\ FirstRunnable(i) \in i..9
         /\ \A k \in i..(FirstRunnable(i) - 1) : ~Runnable(k)
         /\ FirstRunnable(i) <= 8 => Runnable(FirstRunnable(i))
  <1> DEFINE C == {j \in i..8 : Runnable(j)}
  <1>1. FirstRunnable(i) = IF C = {} THEN 9 ELSE CHOOSE j \in C : \A k \in C : j <= k
    BY EightStages DEF FirstRunnable
  <1>2. CASE C = {}
    BY <1>1, <1>2
  <1>3. CASE C # {}
    <2>1. \E j \in C : \A k \in C : j <= k
      BY <1>3, FirstOfEight
    <2>2. FirstRunnable(i) \in C /\ \A k \in C : FirstRunnable(i) <= k
      BY <1>1, <1>3, <2>1
    <2> QED
      BY <2>2
  <1> QED
    BY <1>2, <1>3

\* An entry of the ledger at position k: the stage of that position, skipped
\* exactly if the walk passes over it.
Entry(r, k) ==
    /\ r \in StageResults
    /\ r.stage = StageOrder[k]
    /\ (r.status = "skipped") <=> ~Runnable(k)

\* A ledger that has every position so far, none of them aborted or failed.
OnCourse(ledger) ==
    \A k \in 1..Len(ledger) : ledger[k].status \notin {"aborted", "failed"}

\* The walk adds an entry for each stage it passes over.
LEMMA SkipsAreEntries ==
  ASSUME NEW i \in 1..9, NEW ledger \in Seq(StageResults), Len(ledger) = i - 1,
         \A k \in 1..(i - 1) : Entry(ledger[k], k),
         NEW whole, whole = ledger \o Skips(i, FirstRunnable(i))
  PROVE  /\ whole \in Seq(StageResults)
         /\ Len(whole) = FirstRunnable(i) - 1
         /\ \A k \in 1..Len(whole) : Entry(whole[k], k)
         /\ \A k \in 1..Len(whole) :
                whole[k] = IF k < i THEN ledger[k] ELSE Skipped(k)
  <1> DEFINE j == FirstRunnable(i)
             skips == Skips(i, j)
  <1>1. j \in i..9 /\ \A k \in i..(j - 1) : ~Runnable(k)
    BY WalkStopsAtFirst
  <1> HIDE DEF j
  <1>2. \A k \in 1..8 : Skipped(k) \in StageResults
    BY EightStages DEF Skipped, StageResults
  <1>3. /\ skips \in Seq(StageResults)
        /\ Len(skips) = j - i
        /\ \A k \in 1..(j - i) : skips[k] = Skipped(i + k - 1)
    <2>1. skips = [k \in 1..(j - i) |-> Skipped(i + k - 1)]
      BY DEF Skips
    <2>2. \A k \in 1..(j - i) : i + k - 1 \in 1..8
      BY <1>1
    <2>3. skips \in [1..(j - i) -> StageResults]
      BY <1>2, <2>1, <2>2
    <2>4. j - i \in Nat
      BY <1>1
    <2>5. skips \in Seq(StageResults)
      BY <2>3, <2>4, SeqDef
    <2> HIDE DEF skips
    <2>6. DOMAIN skips = 1..(j - i)
      BY <2>1
    <2>7. Len(skips) = j - i
      BY <2>4, <2>5, <2>6, LenProperties
    <2> QED
      BY <2>1, <2>5, <2>7
  <1> HIDE DEF skips
  <1>4. /\ whole \in Seq(StageResults)
        /\ Len(whole) = j - 1
        /\ \A k \in 1..(j - 1) : whole[k] = IF k <= i - 1 THEN ledger[k] ELSE skips[k - (i - 1)]
    <2>1. whole = ledger \o skips
      BY DEF skips, j
    <2>2. Len(ledger) + Len(skips) = j - 1
      BY <1>1, <1>3
    <2> QED
      BY <1>3, <2>1, <2>2, ConcatProperties
  <1>5. \A k \in 1..(j - 1) : whole[k] = IF k < i THEN ledger[k] ELSE Skipped(k)
    <2> TAKE k \in 1..(j - 1)
    <2>1. CASE k < i
      <3>1. k <= i - 1
        BY <1>1, <2>1
      <3> QED
        BY ONLY <1>4, <2>1, <3>1, k \in 1..(j - 1)
    <2>2. CASE k >= i
      <3>1. k - (i - 1) \in 1..(j - i) /\ i + (k - (i - 1)) - 1 = k
        BY <1>1, <2>2
      <3>2. skips[k - (i - 1)] = Skipped(i + (k - (i - 1)) - 1)
        BY <1>3, <3>1
      <3>3. skips[k - (i - 1)] = Skipped(k)
        BY <3>1, <3>2
      <3>4. ~(k <= i - 1) /\ ~(k < i)
        BY <1>1, <2>2
      <3> QED
        BY <1>4, <3>3, <3>4
    <2>3. k < i \/ k >= i
      BY <1>1
    <2> QED
      BY <2>1, <2>2, <2>3
  <1>6. ASSUME NEW k \in 1..(j - 1) PROVE Entry(whole[k], k)
    <2>1. CASE k < i
      BY <1>1, <1>5, <2>1
    <2>2. CASE k >= i
      <3>1. k \in 1..8 /\ ~Runnable(k)
        BY <1>1, <2>2
      <3>2. whole[k] = Skipped(k)
        <4>1. ~(k < i)
          BY <1>1, <2>2
        <4> QED
          BY <1>5, <4>1
      <3>3. Skipped(k).stage = StageOrder[k] /\ Skipped(k).status = "skipped"
        BY DEF Skipped
      <3> QED
        BY <1>2, <3>1, <3>2, <3>3 DEF Entry
    <2>3. k < i \/ k >= i
      BY <1>1
    <2> QED
      BY <2>1, <2>2, <2>3
  <1> QED
    BY <1>4, <1>5, <1>6 DEF j

-----------------------------------------------------------------------------
(* Types *)

\* What the code of an action keeps in order: the polls of the two polling stages,
\* silence counted in the long one only, and the verdict on an ended stage.
LocalsOK ==
    /\ stage \in {"idle", "long_execution"} /\ at \in ActionPhases => tick < Ticks
    /\ stage \in Stages \ {"long_execution"} => silence = 0
    /\ stage = "long_execution" => silence <= tick
    /\ at = "teardown" => status \in {"completed", "aborted", "timed_out", "failed"}
    /\ at = "teardown" /\ status = "aborted" => abortRequested

\* A step of an action stays within its stage, which it leaves by returning.
LEMMA ActionStaysInStage ==
  ASSUME ExecuteAction
  PROVE  /\ UNCHANGED <<gates, stage, abortRequested>>
         /\ at \in ActionPhases
         /\ \/ at' = at /\ UNCHANGED status
            \/ at' \in ActionPhases /\ UNCHANGED status
            \/ Return
  <1> USE DEF ActionPhases, In, Goto, GiveUp, Listening, OnGuest, sampleVars
  <1>1. CASE PlainSetup
    BY <1>1 DEF PlainSetup
  <1>2. CASE BootSetup
    BY <1>2 DEF BootSetup
  <1>3. CASE Detonate
    BY <1>3 DEF Detonate
  <1>4. CASE BootLook
    BY <1>4 DEF BootLook
  <1>5. CASE IdleSleep
    BY <1>5 DEF IdleSleep
  <1>6. CASE IdleLook
    BY <1>6 DEF IdleLook
  <1>7. CASE UserInput
    BY <1>7 DEF UserInput
  <1>8. CASE UserLook
    BY <1>8 DEF UserLook
  <1>9. CASE NetworkUp
    BY <1>9 DEF NetworkUp
  <1>10. CASE NetworkHalfway
    BY <1>10 DEF NetworkHalfway
  <1>11. CASE NetworkSleep
    BY <1>11 DEF NetworkSleep
  <1>12. CASE NetworkLook
    BY <1>12 DEF NetworkLook
  <1>13. CASE PersistenceDiff
    BY <1>13 DEF PersistenceDiff
  <1>14. CASE Reboot
    BY <1>14 DEF Reboot
  <1>15. CASE RebootSettle
    BY <1>15 DEF RebootSettle
  <1>16. CASE RebootLook
    BY <1>16 DEF RebootLook
  <1>17. CASE RebootRest
    BY <1>17 DEF RebootRest
  <1>18. CASE LongSleep
    BY <1>18 DEF LongSleep
  <1>19. CASE LongLook
    BY <1>19 DEF LongLook
  <1>20. CASE DumpMemory
    BY <1>20 DEF DumpMemory
  <1>21. CASE ExamineMemory
    BY <1>21 DEF ExamineMemory
  <1> QED
    BY <1>1, <1>2, <1>3, <1>4, <1>5, <1>6, <1>7, <1>8, <1>9, <1>10, <1>11, <1>12, <1>13, <1>14, <1>15, <1>16, <1>17, <1>18, <1>19, <1>20, <1>21 DEF ExecuteAction

\* A step that only goes on or returns keeps every type.
LEMMA QuietStepTyped ==
  ASSUME ActionTypeOK, LocalsOK, at \in ActionPhases,
         UNCHANGED <<sampleVars, stage, actionVars, contextVars, abortRequested, shown>>,
         (at' \in ActionPhases /\ UNCHANGED status) \/ Return
  PROVE  ActionTypeOK' /\ LocalsOK'
  <1> USE DEF sampleVars, actionVars, contextVars, Return
  <1>1. status' \in {"running", "completed", "aborted", "timed_out", "failed"}
    BY DEF ActionTypeOK
  <1>2. ActionTypeOK'
    BY <1>1 DEF ActionTypeOK
  <1>3. LocalsOK'
    <2>1. CASE at' \in ActionPhases /\ UNCHANGED status
      BY <2>1 DEF LocalsOK, ActionPhases
    <2>2. CASE Return
      BY <2>2 DEF LocalsOK, ActionPhases
    <2> QED
      BY <2>1, <2>2
  <1> QED
    BY <1>2, <1>3

\* So does giving up, and going on in silence.
LEMMA QuietActionsTyped ==
  ASSUME ActionTypeOK, LocalsOK, at \in ActionPhases,
         \/ GiveUp
         \/ /\ at' \in ActionPhases
            /\ UNCHANGED status
            /\ Listening
            /\ UNCHANGED <<actionVars, contextVars, shown>>
  PROVE  ActionTypeOK' /\ LocalsOK'
  BY QuietStepTyped DEF GiveUp, Listening

\* A step of an action keeps the types of what it writes.
LEMMA ActionTyped ==
  ASSUME ActionTypeOK, LocalsOK, ExecuteAction
  PROVE  ActionTypeOK' /\ LocalsOK'
  <1> USE DEF ActionTypeOK, LocalsOK, ActionPhases, In, Goto, GiveUp, Return, Listening,
              OnGuest, sampleVars, actionVars, contextVars, Answers, NewProcesses,
              ListProcesses, Autostart, Awake, Shows, Stages, Gates, SharedFlags, NoStage
  <1>1. CASE PlainSetup
    BY <1>1 DEF PlainSetup
  <1>2. CASE BootSetup
    BY <1>2 DEF BootSetup
  <1>3. CASE Detonate
    <2>1. ActionTypeOK'
      <3>1. baseline' \in BOOLEAN /\ detonated' \in BOOLEAN /\ running' \in BOOLEAN
        BY <1>3 DEF Detonate
      <3>2. unlisted' \subseteq {"boot", "reboot"}
        BY <1>3 DEF Detonate
      <3>3. UNCHANGED <<gates, up, met, stage, status, observed, heard, silence, tick,
                        memoryFinding, shared, persistence, abortRequested, shown>>
        BY ONLY <1>3 DEF Detonate
      <3> QED
        BY <3>1, <3>2, <3>3
    <2>2. stage = "boot" /\ at' = "look" /\ UNCHANGED <<stage, status, silence, tick>>
      BY ONLY <1>3, Zenon DEF Detonate
    <2>3. LocalsOK'
      <3>1. silence = 0
        BY <2>2
      <3> QED
        BY ONLY <2>2, <3>1 DEF LocalsOK, ActionPhases, Stages
    <2> QED
      BY <2>1, <2>3
  <1>4. CASE BootLook
    BY <1>4 DEF BootLook
  <1>5. CASE IdleSleep
    BY <1>5, QuietActionsTyped DEF IdleSleep
  <1>6. CASE IdleLook
    <2>1. tick' \in 0..Ticks
      BY <1>6 DEF IdleLook
    <2>2. heard' \in BOOLEAN /\ shown' \subseteq Stages
      BY <1>6, Zenon DEF IdleLook
    <2>3. observed' \in BOOLEAN
      BY <1>6, <2>2, Zenon DEF IdleLook
    <2>4. status' \in {"running", "completed", "aborted", "timed_out", "failed"}
      BY <1>6 DEF IdleLook
    <2>5. UNCHANGED <<gates, up, detonated, running, met, stage, silence, memoryFinding,
                      shared, baseline, persistence, unlisted, abortRequested>>
      BY <1>6 DEF IdleLook
    <2>6. ActionTypeOK'
      BY <2>1, <2>2, <2>3, <2>4, <2>5
    <2>7. LocalsOK'
      BY <1>6 DEF IdleLook
    <2> QED
      BY <2>6, <2>7
  <1>7. CASE UserInput
    <2>1. CASE GiveUp
      BY <1>7, <2>1, QuietActionsTyped DEF UserInput
    <2>2. CASE tick = 0 /\ tick' = 1 /\ UNCHANGED <<at, status>>
      <3>1. met' \subseteq Gates
        BY <1>7, <2>2 DEF UserInput
      <3>2. UNCHANGED <<gates, up, detonated, running, at, status, stage, observed, heard,
                        silence, memoryFinding, contextVars, abortRequested, shown>>
        BY <1>7, <2>2 DEF UserInput
      <3>3. stage = "user_interaction"
        BY <1>7 DEF UserInput
      <3> QED
        BY <2>2, <3>1, <3>2, <3>3
    <2>3. CASE Goto("look") /\ Listening /\ UNCHANGED <<actionVars, contextVars, shown>>
      BY <1>7, <2>3, QuietActionsTyped DEF UserInput
    <2> QED
      BY <1>7, <2>1, <2>2, <2>3 DEF UserInput
  <1>8. CASE UserLook
    BY <1>8 DEF UserLook
  <1>9. CASE NetworkUp
    BY <1>9 DEF NetworkUp
  <1>10. CASE NetworkHalfway
    <2>1. CASE GiveUp
      BY <1>10, <2>1, QuietActionsTyped DEF NetworkHalfway
    <2>2. CASE ~GiveUp
      BY <1>10, <2>2 DEF NetworkHalfway
    <2> QED
      BY <2>1, <2>2
  <1>11. CASE NetworkSleep
    BY <1>11, QuietActionsTyped DEF NetworkSleep
  <1>12. CASE NetworkLook
    BY <1>12 DEF NetworkLook
  <1>13. CASE PersistenceDiff
    BY <1>13 DEF PersistenceDiff
  <1>14. CASE Reboot
    <2>1. met' \subseteq Gates /\ running' \in BOOLEAN /\ up' \in BOOLEAN
      BY <1>14 DEF Reboot
    <2>2. unlisted' \subseteq {"boot", "reboot"}
      BY <1>14 DEF Reboot
    <2>3. status' \in {"running", "completed", "aborted", "timed_out", "failed"}
      BY <1>14 DEF Reboot
    <2>4. UNCHANGED <<gates, detonated, stage, actionVars, shared, baseline, persistence,
                      abortRequested, shown>>
      BY <1>14 DEF Reboot
    <2>5. ActionTypeOK'
      BY <2>1, <2>2, <2>3, <2>4
    <2>6. LocalsOK'
      BY <1>14 DEF Reboot
    <2> QED
      BY <2>5, <2>6
  <1>15. CASE RebootSettle
    BY <1>15, QuietActionsTyped DEF RebootSettle
  <1>16. CASE RebootLook
    BY <1>16 DEF RebootLook
  <1>17. CASE RebootRest
    BY <1>17 DEF RebootRest
  <1>18. CASE LongSleep
    BY <1>18, QuietActionsTyped DEF LongSleep
  <1>19. CASE LongLook
    <2>1. tick' \in 0..Ticks /\ silence' \in 0..Ticks
      BY <1>19 DEF LongLook
    <2>2. heard' \in BOOLEAN /\ shown' \subseteq Stages
      BY <1>19, Zenon DEF LongLook
    <2>3. observed' \in BOOLEAN
      BY <1>19, <2>2, Zenon DEF LongLook
    <2>4. status' \in {"running", "completed", "aborted", "timed_out", "failed"}
      BY <1>19 DEF LongLook
    <2>5. shared' \subseteq SharedFlags /\ met' \subseteq Gates
      BY <1>19 DEF LongLook
    <2>6. UNCHANGED <<gates, up, detonated, running, stage, memoryFinding, baseline,
                      persistence, unlisted, abortRequested>>
      BY <1>19 DEF LongLook
    <2>7. ActionTypeOK'
      BY <2>1, <2>2, <2>3, <2>4, <2>5, <2>6
    <2>8. LocalsOK'
      BY <1>19 DEF LongLook
    <2> QED
      BY <2>7, <2>8
  <1>20. CASE DumpMemory
    <2>1. ActionTypeOK'
      <3>1. memoryFinding' \in BOOLEAN
        BY <1>20 DEF DumpMemory
      <3>2. UNCHANGED <<gates, up, detonated, running, met, stage, status, observed, heard,
                        silence, tick, shared, baseline, persistence, unlisted,
                        abortRequested, shown>>
        BY ONLY <1>20 DEF DumpMemory
      <3> QED
        BY <3>1, <3>2
    <2>2. /\ stage = "memory_dump" /\ at' = "look"
          /\ UNCHANGED <<stage, silence, tick>>
      BY ONLY <1>20 DEF DumpMemory
    <2>3. silence = 0
      BY <2>2
    <2>4. LocalsOK'
      BY ONLY <2>2, <2>3 DEF LocalsOK, ActionPhases, Stages
    <2> QED
      BY <2>1, <2>4
  <1>21. CASE ExamineMemory
    BY <1>21 DEF ExamineMemory
  <1> QED
    BY <1>1, <1>2, <1>3, <1>4, <1>5, <1>6, <1>7, <1>8, <1>9, <1>10, <1>11, <1>12, <1>13, <1>14, <1>15, <1>16, <1>17, <1>18, <1>19, <1>20, <1>21 DEF ExecuteAction

\* What the walk relies on and leaves behind, state by state.
LedgerOK ==
    /\ Len(results) <= 8
    /\ \A k \in 1..Len(results) : Entry(results[k], k)
    /\ \A k \in 1..Len(results) :
           results[k].status \in {"aborted", "failed"} => k = Len(results)
    /\ at = "starting" => next = 1
    /\ at \in ActionPhases \cup {"teardown"} =>
           next \in 1..8 /\ stage = StageOrder[next] /\ Runnable(next)
    /\ at \in ActionPhases \cup {"starting", "teardown"} =>
           Len(results) = next - 1 /\ OnCourse(results) /\ ~completed /\ ~aborted
    /\ completed => /\ Len(results) = 8
                    /\ \A k \in 1..8 : results[k].status # "failed"
                    /\ ~aborted

\* When an abort was requested, and what is on record of it.
AbortOK ==
    /\ abortRequested => /\ ledgerAtAbort <= Len(results)
                         /\ Len(results) <= ledgerAtAbort + 1
                         /\ reason \in {"requested", "required stage failed"}
    /\ abortRequested /\ at \in ActionPhases \cup {"starting", "teardown"} =>
           Len(results) = ledgerAtAbort
    /\ aborted => reason # "none"
    /\ reason = "required stage failed" =>
           Len(results) > 0 /\ results[Len(results)].status = "failed"

StageInv == TypeOK /\ LocalsOK /\ LedgerOK /\ AbortOK

\* A ledger as it is when the walk goes on at position i: complete up to there, not
\* failed, and aborted in its last entry only if an abort was requested.
WalkReady(ledger, i) ==
    /\ ledger \in Seq(StageResults)
    /\ Len(ledger) = i - 1
    /\ \A k \in 1..(i - 1) :
           /\ Entry(ledger[k], k)
           /\ ledger[k].status # "failed"
           /\ ledger[k].status = "aborted" => abortRequested /\ k = i - 1

\* The walk leaves a ledger in order, at a stage to be run or at the end.
LEMMA WalkKeepsLedger ==
  ASSUME NEW i \in 1..9, NEW ledger, WalkReady(ledger, i),
         completed = FALSE, aborted = FALSE, UNCHANGED <<profile, supported>>,
         Walk(i, ledger)
  PROVE  /\ results' \in Seq(StageResults)
         /\ next' \in 1..9
         /\ at' \in {"setup", "ending"}
         /\ stage' = (IF at' = "setup" THEN StageOrder[next'] ELSE NoStage)
         /\ completed' \in BOOLEAN /\ aborted' \in BOOLEAN
         /\ LedgerOK'
  <1> DEFINE j == FirstRunnable(i)
  <1>1. j \in i..9 /\ (j <= 8 => Runnable(j))
    BY WalkStopsAtFirst
  <1>2. \A k : (Entry(results'[k], k) <=> Entry(results[k], k)')
                /\ (Runnable(k) <=> Runnable(k)')
    BY DEF Entry, Runnable
  <1>3. CASE StopForAbort(i, ledger) /\ i <= 8
    <2>1. /\ results' = ledger /\ next' = i /\ aborted' = TRUE /\ completed' = FALSE
          /\ stage' = NoStage /\ at' = "ending"
      BY <1>3 DEF StopForAbort
    <2>2. \A k \in 1..Len(results') :
              /\ Entry(results[k], k)'
              /\ results'[k].status \in {"aborted", "failed"} => k = Len(results')
      BY <1>2, <2>1 DEF WalkReady
    <2>3. LedgerOK'
      BY <2>1, <2>2 DEF LedgerOK, WalkReady, ActionPhases
    <2> QED
      BY <2>1, <2>3 DEF WalkReady
  <1>4. CASE BeginStage(i, ledger) /\ ~(abortRequested /\ i <= 8)
    <2> DEFINE whole == ledger \o Skips(i, j)
    <2>1. /\ whole \in Seq(StageResults)
          /\ Len(whole) = j - 1
          /\ \A k \in 1..Len(whole) :
                 /\ Entry(whole[k], k)
                 /\ whole[k] = IF k < i THEN ledger[k] ELSE Skipped(k)
      BY SkipsAreEntries DEF WalkReady
    <2>2. results' = whole /\ next' = j /\ aborted' = FALSE
      BY <1>4 DEF BeginStage
    <2> HIDE DEF whole, j
    <2>3. \A k \in 1..(j - 1) :
              \/ k \in 1..(i - 1) /\ whole[k] = ledger[k]
              \/ whole[k].status = "skipped"
      <3>1. \A k : Skipped(k).status = "skipped"
        BY DEF Skipped
      <3>2. \A k \in 1..(j - 1) : whole[k] = IF k < i THEN ledger[k] ELSE Skipped(k)
        BY ONLY <2>1
      <3>3. \A k \in 1..(j - 1) : k < i => k \in 1..(i - 1)
        BY ONLY <1>1, i \in 1..9
      <3> QED
        BY ONLY <3>1, <3>2, <3>3
    <2>4. \A k \in 1..(i - 1) :
              /\ ledger[k].status # "failed"
              /\ ledger[k].status = "aborted" => abortRequested /\ k = i - 1
      BY DEF WalkReady
    <2>5. \A k \in 1..(j - 1) : whole[k].status # "failed"
      BY ONLY <2>3, <2>4
    <2>6. \A k \in 1..(j - 1) : whole[k].status = "aborted" => i = 9 /\ k = 8
      BY ONLY <1>4, <2>3, <2>4, i \in 1..9
    <2>7. \A k \in 1..Len(results') : Entry(results[k], k)'
      BY <1>2, <2>1, <2>2
    <2>8. CASE j <= 8
      <3>1. stage' = StageOrder[j] /\ at' = "setup" /\ completed' = FALSE
        BY <1>4, <2>8, EightStages DEF BeginStage, j
      <3>2. OnCourse(results)'
        BY <1>1, <2>1, <2>2, <2>5, <2>6, <2>8 DEF OnCourse
      <3>3. Runnable(next)'
        BY <1>1, <1>2, <2>2, <2>8 DEF Runnable
      <3>4. LedgerOK'
        BY <1>1, <2>1, <2>2, <2>7, <2>8, <3>1, <3>2, <3>3 DEF LedgerOK, OnCourse
      <3>5. next' \in 1..9 /\ results' \in Seq(StageResults)
        BY <1>1, <2>1, <2>2
      <3>6. completed' \in BOOLEAN /\ aborted' \in BOOLEAN
        BY <2>2, <3>1, Zenon
      <3> QED
        BY <2>2, <3>1, <3>4, <3>5, <3>6
    <2>9. CASE j > 8
      <3>1. stage' = NoStage /\ at' = "ending" /\ completed' = TRUE /\ j = 9
        BY <1>1, <1>4, <2>9, EightStages DEF BeginStage, j
      <3>2. /\ Len(results') = 8
            /\ \A k \in 1..8 : results'[k].status # "failed"
            /\ \A k \in 1..8 : results'[k].status = "aborted" => k = 8
        BY <2>1, <2>2, <2>5, <2>6, <3>1
      <3>3. ~aborted'
        BY <2>2
      <3>4. LedgerOK'
        BY <2>7, <3>1, <3>2, <3>3 DEF LedgerOK, ActionPhases
      <3>5. next' \in 1..9 /\ results' \in Seq(StageResults)
        BY <2>1, <2>2, <3>1
      <3>6. completed' \in BOOLEAN /\ aborted' \in BOOLEAN
        BY <2>2, <3>1, Zenon
      <3> QED
        BY <3>1, <3>4, <3>5, <3>6
    <2>10. j <= 8 \/ j > 8
      BY <1>1
    <2> QED
      BY <2>8, <2>9, <2>10
  <1> QED
    BY <1>3, <1>4, EightStages DEF Walk

\* The walk leaves an abort on record, and adds nothing after noticing it.
LEMMA WalkKeepsAbort ==
  ASSUME NEW i \in 1..9, NEW ledger, WalkReady(ledger, i), aborted = FALSE,
         reason \in Reasons, reason # "required stage failed",
         ledgerAtAbort \in Nat,
         abortRequested => /\ reason = "requested"
                           /\ ledgerAtAbort <= Len(ledger)
                           /\ Len(ledger) <= ledgerAtAbort + 1,
         UNCHANGED <<abortRequested, ledgerAtAbort>>,
         Walk(i, ledger)
  PROVE  AbortOK' /\ reason' \in Reasons
  <1>1. CASE StopForAbort(i, ledger) /\ abortRequested
    BY <1>1 DEF StopForAbort, AbortOK, ActionPhases, WalkReady, Reasons
  <1>2. CASE BeginStage(i, ledger) /\ ~abortRequested
    BY <1>2 DEF BeginStage, AbortOK, Reasons
  <1>3. CASE BeginStage(i, ledger) /\ abortRequested /\ i = 9
    <2>1. FirstRunnable(i) = 9
      <3>1. FirstRunnable(i) \in i..9
        BY WalkStopsAtFirst
      <3> QED
        BY <1>3, <3>1
    <2>2. Len(results') = Len(ledger)
      BY <1>3, <2>1, SkipsAreEntries DEF BeginStage, WalkReady
    <2>3. at' = "ending" /\ reason' = reason /\ aborted' = FALSE
      BY <1>3, <2>1, EightStages DEF BeginStage
    <2> QED
      BY <1>3, <2>2, <2>3 DEF AbortOK, ActionPhases, Reasons
  <1>4. \/ StopForAbort(i, ledger) /\ abortRequested
        \/ BeginStage(i, ledger) /\ ~(abortRequested /\ i <= 8)
    BY EightStages DEF Walk
  <1>5. i <= 8 \/ i = 9
    <2>1. i \in 1..9
      OBVIOUS
    <2> QED
      BY ONLY <2>1
  <1> QED
    BY <1>1, <1>2, <1>3, <1>4, <1>5

\* A step that leaves the ledger alone, and stays in the stage if there is one.
LEMMA LedgerUntouched ==
  ASSUME LedgerOK,
         UNCHANGED <<profile, supported, results, completed, aborted, next>>,
         at' = "starting" => at = "starting",
         at' \in ActionPhases \cup {"teardown"} =>
             at \in ActionPhases \cup {"teardown"} /\ stage' = stage
  PROVE  LedgerOK'
  BY DEF LedgerOK, Entry, Runnable, OnCourse

\* The same steps leave what is on record of an abort alone.
LEMMA AbortUntouched ==
  ASSUME AbortOK,
         UNCHANGED <<abortRequested, ledgerAtAbort, results, reason, aborted>>,
         at' \in ActionPhases \cup {"starting", "teardown"} =>
             at \in ActionPhases \cup {"starting", "teardown"}
  PROVE  AbortOK'
  BY DEF AbortOK

\* What _infer_evasion() returns are evasion classes.
LEMMA InferredTyped ==
  ASSUME NEW active \in BOOLEAN
  PROVE  Inferred(active) \in SUBSET Evasions
  BY DEF Inferred, Evasions

\* Where no required stage has failed, no such reason is on record.
LEMMA NoFailureYet ==
  ASSUME StageInv, at \in ActionPhases \cup {"starting", "teardown"}
  PROVE  reason # "required stage failed" /\ (abortRequested => reason = "requested")
  <1>1. results \in Seq(StageResults)
    BY DEF StageInv, TypeOK
  <1>2. Len(results) > 0 => results[Len(results)].status # "failed"
    <2>1. Len(results) > 0 => Len(results) \in 1..Len(results)
      BY <1>1, LenProperties
    <2> QED
      BY <2>1 DEF StageInv, LedgerOK, OnCourse
  <1> QED
    BY <1>2 DEF StageInv, AbortOK

\* The invariant holds initially.
LEMMA StageInit == Init => StageInv
  <1> SUFFICES ASSUME Init PROVE StageInv
    OBVIOUS
  <1>1. TypeOK
    <2>1. profile \subseteq Stages /\ gates \subseteq Gates
      BY DEF Init
    <2>2. ActionTypeOK
      <3>1. silence \in 0..Ticks /\ tick \in 0..Ticks
        BY DEF Init
      <3>2. /\ up \in BOOLEAN /\ detonated \in BOOLEAN /\ running \in BOOLEAN
            /\ observed \in BOOLEAN /\ heard \in BOOLEAN /\ memoryFinding \in BOOLEAN
            /\ baseline \in BOOLEAN /\ persistence \in BOOLEAN /\ abortRequested \in BOOLEAN
        BY Zenon DEF Init
      <3>3. /\ met \subseteq Gates /\ shared \subseteq SharedFlags /\ shown \subseteq Stages
            /\ unlisted \subseteq {"boot", "reboot"}
            /\ stage \in Stages \cup {NoStage}
            /\ status \in {"running", "completed", "aborted", "timed_out", "failed"}
        BY DEF Init
      <3> QED
        BY <2>1, <3>1, <3>2, <3>3 DEF ActionTypeOK
    <2>3. results \in Seq(StageResults)
      BY EmptySeq DEF Init
    <2>4. /\ supported \in BOOLEAN /\ completed \in BOOLEAN /\ aborted \in BOOLEAN
          /\ hung \in BOOLEAN /\ ~hung
      BY Zenon DEF Init
    <2>5. /\ at \in ActionPhases \cup {"starting", "teardown", "ending", "done"}
          /\ stage = NoStage /\ at \notin ActionPhases \cup {"teardown"}
          /\ reason \in Reasons
      BY DEF Init, ActionPhases, Reasons
    <2>6. /\ next \in 1..(Len(StageOrder) + 1)
          /\ ledgerAtAbort \in 0..Len(StageOrder)
          /\ faults \in 0..MaxFaults /\ counts \in 0..MaxCounts
      BY EightStages DEF Init
    <2> QED
      BY <2>1, <2>2, <2>3, <2>4, <2>5, <2>6 DEF TypeOK
  <1>2. LocalsOK
    BY DEF Init, LocalsOK, ActionPhases, Stages, NoStage
  <1>3. LedgerOK /\ AbortOK
    BY EmptySeq DEF Init, LedgerOK, AbortOK, OnCourse, ActionPhases
  <1> QED
    BY <1>1, <1>2, <1>3 DEF StageInv

\* The steps that leave the run, its ledger and the abort flag alone keep the
\* invariant if they keep the types.
LEMMA LocalStep ==
  ASSUME StageInv,
         UNCHANGED <<runVars, next, ledgerAtAbort, abortRequested>>,
         \/ at' = at
         \/ at \in ActionPhases /\ at' \in ActionPhases \cup {"teardown"},
         stage' = stage,
         ActionTypeOK', LocalsOK',
         hung' \in BOOLEAN, hung' => at' \in ActionPhases,
         faults' \in 0..MaxFaults, counts' \in 0..MaxCounts
  PROVE  StageInv'
  <1>1. TypeOK'
    BY DEF StageInv, TypeOK, Executing, runVars, ActionPhases
  <1>2. LedgerOK'
    BY LedgerUntouched DEF StageInv, runVars, ActionPhases
  <1>3. AbortOK'
    BY AbortUntouched DEF StageInv, runVars, ActionPhases
  <1> QED
    BY <1>1, <1>2, <1>3 DEF StageInv

\* The walk, from the start of the run or the end of a stage.
LEMMA WalkStep ==
  ASSUME StageInv, at \in {"starting", "teardown"},
         NEW i \in 1..9, NEW ledger, WalkReady(ledger, i), Walk(i, ledger),
         abortRequested => /\ ledgerAtAbort <= Len(ledger)
                           /\ Len(ledger) <= ledgerAtAbort + 1,
         UNCHANGED <<sampleVars, contextVars, abortRequested, shown, profile, supported,
                     hung, ledgerAtAbort, faults>>,
         counts' \in 0..MaxCounts
  PROVE  StageInv'
  <1>1. completed = FALSE /\ aborted = FALSE
    BY DEF StageInv, LedgerOK, TypeOK
  <1>2. /\ results' \in Seq(StageResults)
        /\ next' \in 1..9
        /\ at' \in {"setup", "ending"}
        /\ stage' = (IF at' = "setup" THEN StageOrder[next'] ELSE NoStage)
        /\ completed' \in BOOLEAN /\ aborted' \in BOOLEAN
        /\ LedgerOK'
    BY <1>1, WalkKeepsLedger
  <1>3. AbortOK' /\ reason' \in Reasons
    <2>1. reason # "required stage failed" /\ (abortRequested => reason = "requested")
      BY NoFailureYet DEF ActionPhases
    <2>2. reason \in Reasons /\ ledgerAtAbort \in Nat
      BY EightStages DEF StageInv, TypeOK
    <2> QED
      BY <1>1, <2>1, <2>2, WalkKeepsAbort
  <1>4. at' = "setup" => stage' \in Stages
    BY <1>2, EightStages DEF LedgerOK, ActionPhases
  <1>5. ~hung'
    BY DEF StageInv, TypeOK, Executing, ActionPhases
  <1>6. /\ status' = "running" /\ observed' = FALSE /\ heard' = FALSE
        /\ silence' = 0 /\ tick' = 0 /\ memoryFinding' = FALSE
    BY DEF Walk
  <1>7. ActionTypeOK'
    <2>1. stage' \in Stages \cup {NoStage}
      BY <1>2, <1>4
    <2>2. observed' \in BOOLEAN /\ heard' \in BOOLEAN /\ memoryFinding' \in BOOLEAN
      BY <1>6, Zenon
    <2>3. silence' \in 0..Ticks /\ tick' \in 0..Ticks
      BY <1>6
    <2>4. ActionTypeOK
      BY DEF StageInv, TypeOK
    <2> QED
      BY <1>6, <2>1, <2>2, <2>3, <2>4 DEF ActionTypeOK, sampleVars, contextVars
  <1>8. LocalsOK'
    BY <1>2, <1>6 DEF LocalsOK, ActionPhases
  <1>9. (stage' # NoStage) <=> (at' \in ActionPhases \cup {"teardown"})
    BY <1>2, <1>4 DEF ActionPhases, Stages, NoStage
  <1>10. TypeOK'
    BY <1>2, <1>3, <1>5, <1>7, <1>9, EightStages DEF StageInv, TypeOK, ActionPhases
  <1> QED
    BY <1>2, <1>3, <1>8, <1>10 DEF StageInv

\* The end of a stage: its entry is in order, and the run walks on or stops.
LEMMA EndStageStep ==
  ASSUME StageInv, EndStage
  PROVE  StageInv'
  <1>1. PICK counted \in Counted :
          LET active == observed \/ counted
              result == [stage |-> stage, status |-> status, active |-> active,
                         evasion |-> Inferred(active)]
          IN  /\ IF status = "failed" /\ Required(stage)
                 THEN StopForFailure(Append(results, result))
                 ELSE Walk(next + 1, Append(results, result))
              /\ counts' = IF counted THEN counts + 1 ELSE counts
    BY DEF EndStage
  <1> DEFINE active == observed \/ counted
             result == [stage |-> stage, status |-> status, active |-> active,
                        evasion |-> Inferred(active)]
             ledger == Append(results, result)
  <1>2. /\ at = "teardown"
        /\ UNCHANGED <<sampleVars, contextVars, abortRequested, shown, profile, supported,
                       hung, ledgerAtAbort, faults>>
    BY DEF EndStage
  <1>3. /\ results \in Seq(StageResults)
        /\ next \in 1..8 /\ stage = StageOrder[next] /\ Runnable(next)
        /\ Len(results) = next - 1 /\ OnCourse(results)
        /\ completed = FALSE /\ aborted = FALSE
    BY <1>2 DEF StageInv, TypeOK, LedgerOK
  <1>4. Entry(result, next)
    <2>1. active \in BOOLEAN
      OBVIOUS
    <2>2. stage \in Stages
      BY <1>3, EightStages
    <2>3. status \in {"completed", "aborted", "timed_out", "failed"}
      BY <1>2 DEF StageInv, LocalsOK
    <2>4. result \in StageResults
      <3> HIDE DEF active
      <3> QED
        BY <2>1, <2>2, <2>3, InferredTyped DEF StageResults
    <2> QED
      BY <1>3, <2>3, <2>4 DEF Entry
  <1> HIDE DEF result, active
  <1>5. /\ ledger \in Seq(StageResults)
        /\ Len(ledger) = next
        /\ \A k \in 1..next : ledger[k] = IF k < next THEN results[k] ELSE result
    <2>1. result \in StageResults
      BY <1>4 DEF Entry
    <2> QED
      BY <1>3, <2>1
  <1>6. \A k \in 1..next : Entry(ledger[k], k)
    BY <1>3, <1>4, <1>5 DEF StageInv, LedgerOK
  <1>7. \A k \in 1..next : k < next => ledger[k].status \notin {"aborted", "failed"}
    BY <1>3, <1>5 DEF OnCourse
  <1>8. ledger[next].status = status
    BY <1>3, <1>5 DEF result
  <1>9. counts' \in 0..MaxCounts
    <2>1. counts \in 0..MaxCounts
      BY DEF StageInv, TypeOK
    <2>2. counted => counts < MaxCounts
      BY <1>1 DEF Counted
    <2>3. counts' = IF counted THEN counts + 1 ELSE counts
      BY <1>1
    <2> QED
      BY <2>1, <2>2, <2>3
  <1>10. abortRequested => Len(ledger) = ledgerAtAbort + 1
    <2>1. abortRequested => Len(results) = ledgerAtAbort
      BY <1>2 DEF StageInv, AbortOK
    <2>2. ledgerAtAbort \in Nat
      BY EightStages DEF StageInv, TypeOK
    <2> QED
      BY <1>3, <1>5, <2>1, <2>2
  <1> HIDE DEF ledger
  <1>11. CASE status = "failed"
    <2>1. StopForFailure(ledger)
      BY <1>1, <1>11 DEF Required, ledger, result, active
    <2>2. /\ results' = ledger /\ next' = next /\ aborted' = TRUE /\ completed' = FALSE
          /\ reason' = "required stage failed" /\ stage' = NoStage /\ at' = "ending"
          /\ UNCHANGED <<status, actionVars>>
      BY <1>3, <2>1 DEF StopForFailure
    <2>3. ActionTypeOK' /\ LocalsOK'
      <3>1. ActionTypeOK
        BY DEF StageInv, TypeOK
      <3>2. /\ UNCHANGED <<gates, up, detonated, running, met, status, observed, heard, silence,
                           tick, memoryFinding, shared, baseline, persistence, unlisted,
                           abortRequested, shown>>
            /\ stage' = NoStage
        BY ONLY <1>2, <2>2 DEF sampleVars, actionVars, contextVars
      <3>3. ActionTypeOK'
        BY ONLY <3>1, <3>2 DEF ActionTypeOK
      <3>4. LocalsOK'
        BY <2>2 DEF LocalsOK, Stages, NoStage, ActionPhases
      <3> QED
        BY <3>3, <3>4
    <2>4. ~hung'
      BY <1>2 DEF StageInv, TypeOK, Executing, ActionPhases
    <2>5. completed' \in BOOLEAN /\ aborted' \in BOOLEAN
      BY <2>2, Zenon
    <2>6. TypeOK'
      BY <1>2, <1>3, <1>5, <1>9, <2>2, <2>3, <2>4, <2>5
      DEF StageInv, TypeOK, ActionPhases, Reasons
    <2>7. \A k \in 1..Len(results') : Entry(results[k], k)'
      BY <1>2, <1>5, <1>6, <2>2 DEF Entry, Runnable
    <2>8. LedgerOK'
      <3>1. ~completed' /\ at' \notin ActionPhases \cup {"starting", "teardown"}
        BY <2>2 DEF ActionPhases
      <3>2. Len(results') = next /\ next \in 1..8
        BY <1>3, <1>5, <2>2
      <3>3. \A k \in 1..Len(results') :
                results'[k].status \in {"aborted", "failed"} => k = Len(results')
        <4> TAKE k \in 1..Len(results')
        <4>1. k \in 1..next /\ (k < next \/ k = next)
          BY <3>2
        <4> QED
          BY <1>7, <2>2, <3>2, <4>1
      <3> QED
        BY <2>7, <3>1, <3>2, <3>3 DEF LedgerOK
    <2>9. AbortOK'
      <3>1. Len(results') = next /\ next \in 1..8 /\ results'[next].status = "failed"
        BY <1>3, <1>5, <1>8, <1>11, <2>2
      <3>2. ledgerAtAbort' = ledgerAtAbort /\ ledgerAtAbort \in Nat
        BY <1>2, EightStages DEF StageInv, TypeOK
      <3>3. abortRequested' => Len(results') = ledgerAtAbort + 1
        BY <1>2, <1>10, <2>2
      <3>4. at' \notin ActionPhases \cup {"starting", "teardown"}
        BY <2>2 DEF ActionPhases
      <3>5. abortRequested' => /\ ledgerAtAbort' <= Len(results')
                              /\ Len(results') <= ledgerAtAbort' + 1
        BY <3>1, <3>2, <3>3
      <3>6. Len(results') > 0 /\ results'[Len(results')].status = "failed"
        BY <3>1
      <3> QED
        BY <2>2, <3>4, <3>5, <3>6 DEF AbortOK
    <2> QED
      BY <2>3, <2>6, <2>8, <2>9 DEF StageInv
  <1>12. CASE status # "failed"
    <2>1. Walk(next + 1, ledger)
      BY <1>1, <1>12 DEF ledger, result, active
    <2>2. next + 1 \in 1..9 /\ next + 1 - 1 = next
      BY <1>3
    <2>3. status = "aborted" => abortRequested
      BY <1>2 DEF StageInv, LocalsOK
    <2>4. \A k \in 1..next :
              /\ ledger[k].status # "failed"
              /\ ledger[k].status = "aborted" => abortRequested /\ k = next
      BY <1>3, <1>7, <1>8, <1>12, <2>3
    <2>5. WalkReady(ledger, next + 1)
      BY <1>5, <1>6, <2>2, <2>4 DEF WalkReady
    <2>6. abortRequested => /\ ledgerAtAbort <= Len(ledger)
                           /\ Len(ledger) <= ledgerAtAbort + 1
      BY <1>10, EightStages DEF StageInv, TypeOK
    <2> QED
      BY <1>2, <1>9, <2>1, <2>2, <2>5, <2>6, WalkStep
  <1> QED
    BY <1>11, <1>12

\* Every step keeps the invariant.
LEMMA StageStep == StageInv /\ [Next]_vars => StageInv'
  <1> SUFFICES ASSUME StageInv, [Next]_vars PROVE StageInv'
    OBVIOUS
  <1> USE DEF runVars
  <1>t. /\ ActionTypeOK /\ LocalsOK /\ hung \in BOOLEAN
        /\ faults \in 0..MaxFaults /\ counts \in 0..MaxCounts
        /\ hung => at \in ActionPhases
    BY DEF StageInv, TypeOK, Executing
  <1>1. CASE Start
    <2>1. at = "starting" /\ Walk(1, results) /\ counts' = counts
          /\ UNCHANGED <<sampleVars, contextVars, abortRequested, shown, profile, supported,
                         hung, ledgerAtAbort, faults>>
      BY <1>1 DEF Start
    <2>2. WalkReady(results, 1)
      BY <2>1 DEF StageInv, TypeOK, LedgerOK, WalkReady
    <2>3. abortRequested => ledgerAtAbort <= Len(results) /\ Len(results) <= ledgerAtAbort + 1
      BY DEF StageInv, AbortOK
    <2> QED
      BY <1>t, <2>1, <2>2, <2>3, WalkStep
  <1>2. CASE RunAction
    <2>1. ExecuteAction /\ ~hung /\ UNCHANGED <<runVars, next, hung, ledgerAtAbort, faults, counts>>
      BY <1>2 DEF RunAction
    <2>2. ActionTypeOK' /\ LocalsOK'
      BY <1>t, <2>1, ActionTyped
    <2>3. /\ UNCHANGED <<stage, abortRequested>>
          /\ \/ at' = at
             \/ at \in ActionPhases /\ at' \in ActionPhases \cup {"teardown"}
      BY <2>1, ActionStaysInStage DEF Return
    <2> QED
      BY <1>t, <2>1, <2>2, <2>3, LocalStep
  <1>3. CASE Hang
    <2>1. /\ at \in ActionPhases /\ hung' = TRUE
          /\ faults < MaxFaults /\ faults' = faults + 1
          /\ UNCHANGED <<sampleVars, at, stage, status, actionVars, contextVars, abortRequested,
                         shown, runVars, next, ledgerAtAbort, counts>>
      BY <1>3 DEF Hang, Executing
    <2>2. ActionTypeOK' /\ LocalsOK'
      BY <1>t, <2>1 DEF ActionTypeOK, LocalsOK, sampleVars, actionVars, contextVars
    <2>3. hung' \in BOOLEAN
      BY <2>1, Zenon
    <2>4. faults' \in 0..MaxFaults
      BY <1>t, <2>1
    <2> QED
      BY <1>t, <2>1, <2>2, <2>3, <2>4, LocalStep
  <1>4. CASE TimeOut \/ Fail
    <2>1. /\ at \in ActionPhases /\ at' = "teardown" /\ ~hung'
          /\ status' \in {"timed_out", "failed"} /\ hung' \in BOOLEAN
          /\ UNCHANGED <<sampleVars, stage, actionVars, contextVars, abortRequested, shown,
                         runVars, next, ledgerAtAbort, counts>>
      <3>1. CASE TimeOut
        BY <3>1 DEF TimeOut, Executing
      <3>2. CASE Fail
        BY <1>t, <3>2 DEF Fail, Executing
      <3> QED
        BY <1>4, <3>1, <3>2
    <2>2. faults' \in 0..MaxFaults
      <3>1. faults' = faults \/ (faults < MaxFaults /\ faults' = faults + 1)
        BY <1>4 DEF TimeOut, Fail
      <3> QED
        BY <1>t, <3>1
    <2>3. ActionTypeOK'
      BY <1>t, <2>1 DEF ActionTypeOK, sampleVars, actionVars, contextVars
    <2>4. LocalsOK'
      BY <1>t, <2>1 DEF LocalsOK, actionVars, ActionPhases
    <2> QED
      BY <1>t, <2>1, <2>2, <2>3, <2>4, LocalStep
  <1>5. CASE EndStage
    BY <1>5, EndStageStep
  <1>6. CASE Cancel \/ End
    <2>1. /\ at' = "done" /\ stage' = NoStage /\ ~hung' /\ hung' \in BOOLEAN
          /\ UNCHANGED <<sampleVars, status, actionVars, contextVars, abortRequested, shown,
                         runVars, next, ledgerAtAbort, counts>>
      <3>1. CASE Cancel
        BY <3>1 DEF Cancel
      <3>2. CASE End
        <4>1. stage = NoStage /\ ~hung
          BY <3>2 DEF End, StageInv, TypeOK, Executing, ActionPhases
        <4> QED
          BY <1>t, <3>2, <4>1 DEF End
      <3> QED
        BY <1>6, <3>1, <3>2
    <2>2. faults' \in 0..MaxFaults
      <3>1. faults' = faults \/ (faults < MaxFaults /\ faults' = faults + 1)
        BY <1>6 DEF Cancel, End
      <3> QED
        BY <1>t, <3>1
    <2>3. ActionTypeOK' /\ LocalsOK'
      BY <1>t, <2>1 DEF ActionTypeOK, LocalsOK, sampleVars, actionVars, contextVars,
                        ActionPhases, Stages, NoStage
    <2>4. TypeOK'
      BY <2>1, <2>2, <2>3 DEF StageInv, TypeOK, ActionPhases
    <2>5. LedgerOK' /\ AbortOK'
      BY <2>1, LedgerUntouched, AbortUntouched DEF StageInv, ActionPhases
    <2> QED
      BY <2>3, <2>4, <2>5 DEF StageInv
  <1>7. CASE RequestAbort
    <2>1. /\ ~abortRequested /\ abortRequested' = TRUE /\ reason' = "requested"
          /\ ledgerAtAbort' = Len(results)
          /\ UNCHANGED <<sampleVars, at, stage, status, actionVars, contextVars, shown, profile,
                         supported, next, results, completed, aborted, hung, faults, counts>>
      BY <1>7 DEF RequestAbort
    <2>2. Len(results) \in 0..8
      <3>1. results \in Seq(StageResults) /\ Len(results) <= 8
        BY DEF StageInv, TypeOK, LedgerOK
      <3>2. Len(results) \in Nat
        BY ONLY <3>1, LenProperties
      <3>3. \A n \in Nat : n <= 8 => n \in 0..8
        BY ONLY SMT
      <3> QED
        BY ONLY <3>1, <3>2, <3>3, Zenon
    <2>3. abortRequested' \in BOOLEAN
      BY <2>1, Zenon
    <2>4. ActionTypeOK' /\ LocalsOK'
      BY <1>t, <2>1, <2>3 DEF ActionTypeOK, LocalsOK, sampleVars, actionVars, contextVars
    <2>5. TypeOK'
      BY <2>1, <2>2, <2>4, EightStages DEF StageInv, TypeOK, Reasons, Executing
    <2>6. LedgerOK'
      BY <2>1, LedgerUntouched DEF StageInv
    <2>7. AbortOK'
      BY <2>1, <2>2 DEF AbortOK
    <2> QED
      BY <2>4, <2>5, <2>6, <2>7 DEF StageInv
  <1>8. CASE Elapse
    <2>1. /\ met' = met \cup {"delay"}
          /\ UNCHANGED <<gates, up, detonated, running, at, stage, status, actionVars,
                         contextVars, abortRequested, shown, runVars, next, hung,
                         ledgerAtAbort, faults, counts>>
      BY <1>8 DEF Elapse, DelayPasses
    <2>2. ActionTypeOK' /\ LocalsOK'
      BY <1>t, <2>1 DEF ActionTypeOK, LocalsOK, actionVars, contextVars, Gates
    <2> QED
      BY <1>t, <2>1, <2>2, LocalStep
  <1>9. CASE UNCHANGED vars
    <2>1. ActionTypeOK' /\ LocalsOK'
      BY <1>t, <1>9 DEF vars, ActionTypeOK, LocalsOK, sampleVars, actionVars, contextVars
    <2> QED
      BY <1>t, <1>9, <2>1, LocalStep DEF vars
  <1> QED
    BY <1>1, <1>2, <1>3, <1>4, <1>5, <1>6, <1>7, <1>8, <1>9 DEF Next, Done

-----------------------------------------------------------------------------
(* The theorems *)

\* StageInv holds in every reachable state.
LEMMA StageInvariant == Spec => []StageInv
  BY StageInit, StageStep, PTL DEF Spec

\* Every reachable state of a run is well typed, for any profiles and samples.
THEOREM RunTypeCorrect == Spec => []TypeOK
  <1>1. StageInv => TypeOK
    BY DEF StageInv
  <1> QED
    BY <1>1, StageInvariant, PTL

\* The ledger names every stage once, in order and to the end of the walk
\* (stage_orchestrator.py run): whatever times out, fails or is aborted.
THEOREM LedgersAreFaithful == Spec => []LedgerFaithful
  <1>1. StageInv => LedgerFaithful
    <2> SUFFICES ASSUME StageInv PROVE LedgerFaithful
      OBVIOUS
    <2>1. results \in Seq(StageResults) /\ DOMAIN results = 1..Len(results)
      BY LenProperties DEF StageInv, TypeOK
    <2>2. \A i \in DOMAIN results :
              /\ results[i].stage = StageOrder[i]
              /\ (results[i].status = "skipped") <=> ~Runnable(i)
              /\ results[i].status \in {"aborted", "failed"} => i = Len(results)
      BY <2>1 DEF StageInv, LedgerOK, Entry
    <2>3. completed => /\ Len(results) = Len(StageOrder)
                       /\ \A i \in DOMAIN results : results[i].status # "failed"
                       /\ ~aborted
      BY <2>1, EightStages DEF StageInv, LedgerOK
    <2> QED
      BY <2>2, <2>3 DEF LedgerFaithful
  <1> QED
    BY <1>1, StageInvariant, PTL

\* An abort adds at most the running stage to the ledger (request_abort).
THEOREM AbortsLand == Spec => []AbortLands
  <1>1. StageInv => AbortLands
    BY DEF StageInv, AbortOK, AbortLands
  <1> QED
    BY <1>1, StageInvariant, PTL

\* The reason of an abort stays on record, and a failure's is only given for one.
THEOREM AbortsAreExplained == Spec => []AbortExplained
  <1>1. StageInv => AbortExplained
    <2> SUFFICES ASSUME StageInv PROVE AbortExplained
      OBVIOUS
    <2>1. Len(results) > 0 => results # <<>>
      BY EmptySeq
    <2> QED
      BY <2>1 DEF StageInv, AbortOK, AbortExplained
  <1> QED
    BY <1>1, StageInvariant, PTL

-----------------------------------------------------------------------------
(* Positions *)

\* Where each stage stands.
LEMMA StagePlaces ==
  /\ StageOrder[1] = "boot" /\ StageOrder[2] = "idle"
  /\ StageOrder[3] = "user_interaction" /\ StageOrder[4] = "internet_simulation"
  /\ StageOrder[5] = "persistence_check" /\ StageOrder[6] = "reboot"
  /\ StageOrder[7] = "long_execution" /\ StageOrder[8] = "memory_dump"
  BY DEF StageOrder

\* No stage stands at two places.
LEMMA PlacesDiffer ==
  ASSUME NEW i \in 1..8, NEW j \in 1..8, StageOrder[i] = StageOrder[j]
  PROVE  i = j
  <1>1. \A k \in 1..8 : k = 1 \/ k = 2 \/ k = 3 \/ k = 4 \/ k = 5 \/ k = 6 \/ k = 7 \/ k = 8
    OBVIOUS
  <1> QED
    BY <1>1, StagePlaces

\* The places of the stages that open a gate.
LEMMA GatePlaces ==
  /\ Index("user_interaction") = 3
  /\ Index("internet_simulation") = 4
  /\ Index("reboot") = 6
  <1>1. ASSUME NEW k \in 1..8 PROVE Index(StageOrder[k]) = k
    <2>1. Index(StageOrder[k]) = CHOOSE i \in 1..8 : StageOrder[i] = StageOrder[k]
      BY EightStages DEF Index
    <2> QED
      BY <2>1, PlacesDiffer
  <1> QED
    BY <1>1, StagePlaces

\* Where the run is, by the name of its stage.
LEMMA CurrentPlace ==
  ASSUME StageInv, at \in ActionPhases \cup {"teardown"}
  PROVE  /\ next \in 1..8 /\ stage = StageOrder[next] /\ Len(results) = next - 1
         /\ stage = "boot" => next = 1
         /\ stage = "idle" => next = 2
         /\ stage = "user_interaction" => next = 3
         /\ stage = "internet_simulation" => next = 4
         /\ stage = "persistence_check" => next = 5
         /\ stage = "reboot" => next = 6
         /\ stage = "long_execution" => next = 7
         /\ stage = "memory_dump" => next = 8
  <1>1. next \in 1..8 /\ stage = StageOrder[next] /\ Len(results) = next - 1
    BY DEF StageInv, LedgerOK
  <1>2. \A k \in 1..8 : stage = StageOrder[k] => next = k
    BY <1>1, PlacesDiffer
  <1> QED
    BY <1>1, <1>2, StagePlaces

-----------------------------------------------------------------------------
(* The inductive invariant *)

\* The gates of the sample that the stages up to position i can have opened are
\* all it waits for, time aside.
Opened(i) ==
    /\ "interaction" \in gates => i >= 3
    /\ "network" \in gates => i >= 4
    /\ "reboot" \in gates => i >= 6

\* Nothing was seen in a stage the run has not come to.
ShownInTime == \A k \in 1..8 : StageOrder[k] \in shown => k <= next /\ at # "starting"

\* No gate opens before the stage that opens it.
GatesInTime ==
    /\ "interaction" \in met => next >= 3
    /\ "network" \in met => next >= 4
    /\ "reboot" \in met => next >= 6

\* What stage s reports is the sample's, not what the guest does by itself.
Judged(s) == s \notin unlisted /\ (s = "persistence_check" => baseline)

\* Behaviour seen in the running stage is kept until its result is made.
Kept ==
    \/ at \in ActionPhases /\ stage \in {"idle", "long_execution"} /\ heard
    \/ at = "rest" /\ stage = "reboot" /\ tick = 1 /\ observed
    \/ at = "teardown" /\ (status = "completed" => observed)

\* The behaviour of the running stage is not early, and not forgotten.
CurrentOK ==
    at \in ActionPhases \cup {"teardown"} =>
        /\ (observed \/ heard) /\ Judged(stage) => Opened(next)
        /\ stage \in shown /\ stage # "internet_simulation" => Kept

\* What shows entry r of the ledger: nothing in a stage that was skipped, and in one
\* that was completed as dormant only what the internet simulation forgets.
EntryHonest(r) ==
    /\ r.status = "skipped" => ~r.active /\ r.evasion = {} /\ r.stage \notin shown
    /\ r.status = "completed" /\ ~r.active /\ r.stage \in shown =>
           r.stage = "internet_simulation"

\* Entry r at position k reports no behaviour before the sample's gates can open.
EntryDated(r, k) == r.active /\ Judged(r.stage) => Opened(k)

\* What the gate of the entry at position k is credited for, and when it has to be.
EntryCredited(ledger, k) ==
    /\ "interaction_gate" \in ledger[k].evasion =>
           \A j \in 1..(k - 1) :
               ledger[j].active \/ ledger[j].stage \in shown =>
                   ledger[j].status = "timed_out"
    /\ /\ "interaction" \in gates /\ "boot" \notin unlisted
       /\ k = 3 /\ ledger[k].active
       /\ \E j \in 1..(k - 1) : ledger[j].status = "completed"
       => "interaction_gate" \in ledger[k].evasion

EntryOK(ledger, k) ==
    EntryHonest(ledger[k]) /\ EntryDated(ledger[k], k) /\ EntryCredited(ledger, k)

EntriesOK == \A k \in 1..Len(results) : EntryOK(results, k)

FindingsInv == StageInv /\ ShownInTime /\ GatesInTime /\ CurrentOK /\ EntriesOK

\* A sample that can act has had its gates opened in time.
LEMMA AwakeOpened ==
  ASSUME StageInv, GatesInTime, Awake
  PROVE  Opened(next)
  BY DEF Awake, GatesInTime, Opened

\* From the sixth stage on every gate can be open.
LEMMA LateOpened ==
  ASSUME StageInv, next >= 6
  PROVE  Opened(next)
  BY EightStages DEF Opened, StageInv, TypeOK

-----------------------------------------------------------------------------
(* The steps of an action *)

\* What a step of an action touches, apart from the result it works for.
LEMMA ActionTouches ==
  ASSUME FindingsInv, ExecuteAction, UNCHANGED next
  PROVE  /\ UNCHANGED <<gates, stage>>
         /\ shown \subseteq shown' /\ shown' \subseteq shown \cup {stage}
         /\ unlisted \subseteq unlisted'
         /\ UNCHANGED baseline \/ stage = "boot"
         /\ GatesInTime'
  <1>1. at \in ActionPhases /\ UNCHANGED <<gates, stage>>
    BY ActionStaysInStage
  <1>2. /\ next \in 1..8
        /\ stage = "boot" => next = 1
        /\ stage = "user_interaction" => next = 3
        /\ stage = "internet_simulation" => next = 4
        /\ stage = "reboot" => next = 6
        /\ stage = "long_execution" => next = 7
    BY <1>1, CurrentPlace DEF FindingsInv
  <1>3. GatesInTime
    BY DEF FindingsInv
  <1> USE DEF In, Goto, GiveUp, Listening, OnGuest, Return, Shows, ListProcesses,
              sampleVars, actionVars, contextVars
  <1>4. shown \subseteq shown' /\ shown' \subseteq shown \cup {stage}
    BY DEF ExecuteAction, PlainSetup, BootSetup, Detonate, BootLook, IdleSleep, IdleLook,
           UserInput, UserLook, NetworkUp, NetworkHalfway, NetworkSleep, NetworkLook,
           PersistenceDiff, Reboot, RebootSettle, RebootLook, RebootRest, LongSleep,
           LongLook, DumpMemory, ExamineMemory
  <1>5. unlisted \subseteq unlisted'
    BY DEF ExecuteAction, PlainSetup, BootSetup, Detonate, BootLook, IdleSleep, IdleLook,
           UserInput, UserLook, NetworkUp, NetworkHalfway, NetworkSleep, NetworkLook,
           PersistenceDiff, Reboot, RebootSettle, RebootLook, RebootRest, LongSleep,
           LongLook, DumpMemory, ExamineMemory
  <1>6. UNCHANGED baseline \/ stage = "boot"
    BY DEF ExecuteAction, PlainSetup, BootSetup, Detonate, BootLook, IdleSleep, IdleLook,
           UserInput, UserLook, NetworkUp, NetworkHalfway, NetworkSleep, NetworkLook,
           PersistenceDiff, Reboot, RebootSettle, RebootLook, RebootRest, LongSleep,
           LongLook, DumpMemory, ExamineMemory
  <1>7. GatesInTime'
    <2>1. \/ UNCHANGED met
          \/ met' = {}
          \/ stage = "user_interaction" /\ met' = met \cup {"interaction"}
          \/ stage = "internet_simulation" /\ met' = met \cup {"network"}
          \/ stage = "reboot" /\ met' = met \cup {"reboot"}
          \/ stage = "long_execution" /\ met' = met \cup {"interaction"}
      BY DEF ExecuteAction, PlainSetup, BootSetup, Detonate, BootLook, IdleSleep, IdleLook,
             UserInput, UserLook, NetworkUp, NetworkHalfway, NetworkSleep, NetworkLook,
             PersistenceDiff, Reboot, RebootSettle, RebootLook, RebootRest, LongSleep,
             LongLook, DumpMemory, ExamineMemory
    <2> QED
      BY <1>2, <1>3, <2>1 DEF GatesInTime
  <1> QED
    BY <1>1, <1>4, <1>5, <1>6, <1>7

\* What an action has seen or heard of, it has been told of before, or is told of
\* now by a sample that can act; or the guest was taken for it; or it is late.
LEMMA ActionHears ==
  ASSUME FindingsInv, ExecuteAction, observed' \/ heard'
  PROVE  \/ observed \/ heard
         \/ Awake
         \/ stage \in unlisted
         \/ stage = "persistence_check" /\ ~baseline
         \/ stage \in {"reboot", "long_execution", "memory_dump"}
  <1> USE DEF In, GiveUp, Listening, OnGuest, Answers, NewProcesses, Autostart, actionVars
  <1>1. CASE PlainSetup
    BY <1>1 DEF PlainSetup
  <1>2. CASE BootSetup
    BY <1>2 DEF BootSetup
  <1>3. CASE Detonate
    BY <1>3 DEF Detonate
  <1>4. CASE BootLook
    BY <1>4 DEF BootLook
  <1>5. CASE IdleSleep
    BY <1>5 DEF IdleSleep
  <1>6. CASE IdleLook
    BY <1>6 DEF IdleLook
  <1>7. CASE UserInput
    BY <1>7 DEF UserInput
  <1>8. CASE UserLook
    BY <1>8 DEF UserLook
  <1>9. CASE NetworkUp
    BY <1>9 DEF NetworkUp
  <1>10. CASE NetworkHalfway
    BY <1>10 DEF NetworkHalfway
  <1>11. CASE NetworkSleep
    BY <1>11 DEF NetworkSleep
  <1>12. CASE NetworkLook
    BY <1>12 DEF NetworkLook
  <1>13. CASE PersistenceDiff
    BY <1>13 DEF PersistenceDiff
  <1>14. CASE Reboot
    BY <1>14 DEF Reboot
  <1>15. CASE RebootSettle
    BY <1>15 DEF RebootSettle
  <1>16. CASE RebootLook
    BY <1>16 DEF RebootLook
  <1>17. CASE RebootRest
    BY <1>17 DEF RebootRest
  <1>18. CASE LongSleep
    BY <1>18 DEF LongSleep
  <1>19. CASE LongLook
    BY <1>19 DEF LongLook
  <1>20. CASE DumpMemory
    BY <1>20 DEF DumpMemory
  <1>21. CASE ExamineMemory
    BY <1>21 DEF ExamineMemory
  <1> QED
    BY <1>1, <1>2, <1>3, <1>4, <1>5, <1>6, <1>7, <1>8, <1>9, <1>10, <1>11, <1>12, <1>13, <1>14, <1>15, <1>16, <1>17, <1>18, <1>19, <1>20, <1>21 DEF ExecuteAction

\* What an action was shown, it keeps or returns with, unless it is cut short.
LEMMA ActionKeeps ==
  ASSUME FindingsInv, ExecuteAction, stage \in shown', stage # "internet_simulation"
  PROVE  Kept'
  <1>a. at \in ActionPhases /\ UNCHANGED stage
    BY ActionStaysInStage
  <1>b. stage \in shown => Kept
    BY <1>a DEF FindingsInv, CurrentOK
  <1> USE <1>a, <1>b DEF In, Goto, GiveUp, Return, Listening, OnGuest, Shows, Kept,
                         sampleVars, actionVars, ActionPhases
  <1>1. CASE PlainSetup
    BY <1>1 DEF PlainSetup
  <1>2. CASE BootSetup
    BY <1>2 DEF BootSetup
  <1>3. CASE Detonate
    BY <1>3 DEF Detonate
  <1>4. CASE BootLook
    BY <1>4 DEF BootLook
  <1>5. CASE IdleSleep
    BY <1>5 DEF IdleSleep
  <1>6. CASE IdleLook
    BY <1>6 DEF IdleLook
  <1>7. CASE UserInput
    BY <1>7 DEF UserInput
  <1>8. CASE UserLook
    BY <1>8 DEF UserLook
  <1>9. CASE NetworkUp
    BY <1>9 DEF NetworkUp
  <1>10. CASE NetworkHalfway
    BY <1>10 DEF NetworkHalfway
  <1>11. CASE NetworkSleep
    BY <1>11 DEF NetworkSleep
  <1>12. CASE NetworkLook
    BY <1>12 DEF NetworkLook
  <1>13. CASE PersistenceDiff
    BY <1>13 DEF PersistenceDiff
  <1>14. CASE Reboot
    BY <1>14 DEF Reboot
  <1>15. CASE RebootSettle
    BY <1>15 DEF RebootSettle
  <1>16. CASE RebootLook
    BY <1>16 DEF RebootLook
  <1>17. CASE RebootRest
    BY <1>17 DEF RebootRest
  <1>18. CASE LongSleep
    BY <1>18 DEF LongSleep
  <1>19. CASE LongLook
    BY <1>19 DEF LongLook
  <1>20. CASE DumpMemory
    BY <1>20 DEF DumpMemory
  <1>21. CASE ExamineMemory
    BY <1>21 DEF ExamineMemory
  <1> QED
    BY <1>1, <1>2, <1>3, <1>4, <1>5, <1>6, <1>7, <1>8, <1>9, <1>10, <1>11, <1>12, <1>13, <1>14, <1>15, <1>16, <1>17, <1>18, <1>19, <1>20, <1>21 DEF ExecuteAction

\* A step of an action keeps what it saw, and dates it right.
LEMMA ActionFinds ==
  ASSUME FindingsInv, ExecuteAction, UNCHANGED next
  PROVE  CurrentOK'
  <1>1. /\ UNCHANGED <<gates, stage>>
        /\ unlisted \subseteq unlisted'
        /\ UNCHANGED baseline \/ stage = "boot"
    BY ActionTouches
  <1>2. at \in ActionPhases
    BY ActionStaysInStage
  <1>3. ASSUME observed' \/ heard', Judged(stage)'
        PROVE  Opened(next)
    <2>1. Judged(stage)
      BY <1>1, <1>3 DEF Judged
    <2>2. CASE observed \/ heard
      BY <1>2, <2>1, <2>2 DEF FindingsInv, CurrentOK
    <2>3. CASE Awake
      BY <2>3, AwakeOpened DEF FindingsInv
    <2>4. CASE stage \in {"reboot", "long_execution", "memory_dump"}
      <3>1. next \in {6, 7, 8}
        BY <1>2, <2>4, CurrentPlace DEF FindingsInv
      <3> QED
        BY <3>1, LateOpened DEF FindingsInv
    <2> QED
      BY <1>3, <2>1, <2>2, <2>3, <2>4, ActionHears DEF Judged
  <1>4. Opened(next) => Opened(next)'
    BY <1>1 DEF Opened
  <1>5. stage' \in shown' /\ stage' # "internet_simulation" => Kept'
    BY <1>1, ActionKeeps
  <1>6. (observed' \/ heard') /\ Judged(stage)' => Opened(next)'
    BY <1>3, <1>4
  <1> QED
    BY <1>5, <1>6 DEF CurrentOK

-----------------------------------------------------------------------------
(* The ledger *)

\* The entries stay right while the running stage is shown behaviour.
LEMMA EntriesStay ==
  ASSUME FindingsInv, UNCHANGED <<gates, results>>,
         \A k \in 1..Len(results) : results[k].stage \in shown' => results[k].stage \in shown,
         unlisted \subseteq unlisted', UNCHANGED baseline \/ Len(results) = 0
  PROVE  EntriesOK'
  <1> SUFFICES ASSUME NEW k \in 1..Len(results)
               PROVE  EntryOK(results, k)'
    BY DEF EntriesOK
  <1>1. EntryHonest(results[k]) /\ EntryDated(results[k], k) /\ EntryCredited(results, k)
    BY DEF FindingsInv, EntriesOK, EntryOK
  <1>2. \A j \in 1..(k - 1) : j \in 1..Len(results)
    <2>1. Len(results) \in Nat
      BY LenProperties DEF FindingsInv, StageInv, TypeOK
    <2> QED
      BY <2>1
  <1>3. UNCHANGED baseline
    BY LenProperties DEF FindingsInv, StageInv, TypeOK
  <1>4. EntryHonest(results[k])'
    BY <1>1 DEF EntryHonest
  <1>5. EntryDated(results[k], k)'
    BY <1>1, <1>3 DEF EntryDated, Judged, Opened
  <1>6. EntryCredited(results, k)'
    BY <1>1, <1>2 DEF EntryCredited
  <1> QED
    BY <1>4, <1>5, <1>6 DEF EntryOK

\* The steps within a stage, and those after the last one.
LEMMA LocalFinds ==
  ASSUME FindingsInv, UNCHANGED <<gates, results, next>>,
         at' = "starting" => at = "starting",
         shown' = shown \/ (/\ at \in ActionPhases \cup {"teardown"}
                            /\ shown' \subseteq shown \cup {stage}),
         unlisted \subseteq unlisted', UNCHANGED baseline \/ stage = "boot",
         GatesInTime', CurrentOK', StageInv'
  PROVE  FindingsInv'
  <1>1. CASE shown' = shown
    <2>1. ShownInTime'
      BY <1>1 DEF FindingsInv, ShownInTime
    <2>2. UNCHANGED baseline \/ Len(results) = 0
      <3>1. stage = "boot" => at \in ActionPhases \cup {"teardown"}
        BY DEF FindingsInv, StageInv, TypeOK, NoStage
      <3> QED
        BY <3>1, CurrentPlace DEF FindingsInv
    <2> QED
      BY <1>1, <2>1, <2>2, EntriesStay DEF FindingsInv
  <1>2. CASE at \in ActionPhases \cup {"teardown"} /\ shown' \subseteq shown \cup {stage}
    <2>1. /\ next \in 1..8 /\ stage = StageOrder[next] /\ Len(results) = next - 1
          /\ stage = "boot" => next = 1
      BY <1>2, CurrentPlace DEF FindingsInv
    <2>2. at # "starting"
      BY <1>2 DEF ActionPhases
    <2>3. ShownInTime'
      <3> SUFFICES ASSUME NEW k \in 1..8, StageOrder[k] \in shown'
                   PROVE  k <= next /\ at # "starting"
        BY DEF ShownInTime
      <3>1. StageOrder[k] \in shown \/ StageOrder[k] = stage
        BY <1>2
      <3> QED
        BY <2>1, <2>2, <3>1, PlacesDiffer DEF FindingsInv, ShownInTime
    <2>4. ASSUME NEW k \in 1..Len(results), results[k].stage \in shown'
          PROVE  results[k].stage \in shown
      <3>1. k \in 1..8 /\ k # next
        BY <2>1
      <3>2. results[k].stage = StageOrder[k]
        BY DEF FindingsInv, StageInv, LedgerOK, Entry
      <3>3. StageOrder[k] # stage
        BY <2>1, <3>1, PlacesDiffer
      <3> QED
        BY <1>2, <2>4, <3>2, <3>3
    <2>5. EntriesOK'
      BY <2>1, <2>4, EntriesStay
    <2> QED
      BY <2>3, <2>5 DEF FindingsInv
  <1> QED
    BY <1>1, <1>2

\* What the walk from position i leaves: the ledger it was given, the stages it
\* passed over, and an untouched stage to run if there is one.
LEMMA WalkLeaves ==
  ASSUME NEW i \in 1..9, NEW ledger, WalkReady(ledger, i), Walk(i, ledger)
  PROVE  /\ results' \in Seq(StageResults) /\ Len(results') >= i - 1 /\ Len(results') <= 8
         /\ \A k \in 1..Len(results') :
                results'[k] = IF k < i THEN ledger[k] ELSE Skipped(k)
         /\ next' \in i..9
         /\ at' = "setup" \/ at' = "ending"
         /\ at' = "setup" => /\ stage' = StageOrder[next'] /\ next' <= 8
                             /\ Len(results') = next' - 1
         /\ ~observed' /\ ~heard'
  <1> DEFINE j == FirstRunnable(i)
  <1>1. j \in i..9
    BY WalkStopsAtFirst
  <1>2. ~observed' /\ ~heard'
    BY DEF Walk
  <1>3. CASE StopForAbort(i, ledger) /\ i <= 8
    <2>1. results' = ledger /\ next' = i /\ at' = "ending"
      BY <1>3 DEF StopForAbort
    <2> QED
      BY <1>2, <1>3, <2>1 DEF WalkReady
  <1>4. CASE BeginStage(i, ledger)
    <2>1. /\ ledger \o Skips(i, j) \in Seq(StageResults)
          /\ Len(ledger \o Skips(i, j)) = j - 1
          /\ \A k \in 1..Len(ledger \o Skips(i, j)) :
                 (ledger \o Skips(i, j))[k] = IF k < i THEN ledger[k] ELSE Skipped(k)
      BY SkipsAreEntries DEF WalkReady
    <2>2. /\ results' = ledger \o Skips(i, j) /\ next' = j
          /\ at' = "setup" \/ at' = "ending"
          /\ at' = "setup" => j <= 8 /\ stage' = StageOrder[j]
      BY <1>4, EightStages DEF BeginStage
    <2> QED
      BY <1>1, <1>2, <2>1, <2>2
  <1> QED
    BY <1>3, <1>4, EightStages DEF Walk

\* The walk keeps what was found, and adds nothing to it.
LEMMA WalkFinds ==
  ASSUME FindingsInv, at \in {"starting", "teardown"}, StageInv',
         NEW i \in 1..9, NEW ledger, WalkReady(ledger, i), Walk(i, ledger),
         \A k \in 1..(i - 1) : EntryOK(ledger, k),
         i > next \/ at = "starting",
         UNCHANGED <<sampleVars, contextVars, shown>>
  PROVE  FindingsInv'
  <1>1. /\ results' \in Seq(StageResults) /\ Len(results') >= i - 1 /\ Len(results') <= 8
        /\ \A k \in 1..Len(results') :
               results'[k] = IF k < i THEN ledger[k] ELSE Skipped(k)
        /\ next' \in i..9
        /\ at' = "setup" \/ at' = "ending"
        /\ at' = "setup" => stage' = StageOrder[next'] /\ next' <= 8
        /\ ~observed' /\ ~heard'
    BY WalkLeaves
  <1>2. /\ next \in 1..9 /\ i >= next
        /\ at = "starting" => next = 1
    BY EightStages DEF FindingsInv, StageInv, TypeOK, LedgerOK
  <1>3. \A k \in i..8 : StageOrder[k] \notin shown
    BY <1>2 DEF FindingsInv, ShownInTime
  <1>4. UNCHANGED <<gates, met, shown, unlisted, baseline>>
    BY DEF sampleVars, contextVars
  <1>5. ShownInTime'
    BY <1>1, <1>2, <1>4 DEF FindingsInv, ShownInTime
  <1>6. GatesInTime'
    BY <1>1, <1>2, <1>4 DEF FindingsInv, GatesInTime
  <1>7. CurrentOK'
    <2>1. at' = "setup" => stage' \notin shown'
      BY <1>1, <1>3, <1>4
    <2> QED
      BY <1>1, <2>1 DEF CurrentOK, ActionPhases
  <1>8. ASSUME NEW k \in 1..Len(results') PROVE EntryOK(results, k)'
    <2>1. CASE k < i
      <3>1. EntryOK(ledger, k) /\ results'[k] = ledger[k]
        BY <1>1, <2>1
      <3>2. \A j \in 1..(k - 1) : results'[j] = ledger[j]
        BY <1>1, <2>1
      <3>3. EntryHonest(results[k])' /\ EntryDated(results[k], k)'
        BY <1>4, <3>1 DEF EntryOK, EntryHonest, EntryDated, Judged, Opened
      <3>4. EntryCredited(results, k)'
        BY <1>4, <3>1, <3>2 DEF EntryOK, EntryCredited
      <3> QED
        BY <3>3, <3>4 DEF EntryOK
    <2>2. CASE k >= i
      <3>1. k \in i..8 /\ results'[k] = Skipped(k)
        BY <1>1, <2>2
      <3>2. /\ results'[k].stage = StageOrder[k] /\ results'[k].status = "skipped"
            /\ results'[k].active = FALSE /\ results'[k].evasion = {}
        BY <3>1 DEF Skipped
      <3>3. results'[k].stage \notin shown'
        BY <1>3, <1>4, <3>1, <3>2
      <3> QED
        BY <3>2, <3>3 DEF EntryOK, EntryHonest, EntryDated, EntryCredited
    <2> QED
      BY <1>1, <2>1, <2>2
  <1> QED
    BY <1>5, <1>6, <1>7, <1>8 DEF FindingsInv, EntriesOK

-----------------------------------------------------------------------------
(* The result of a stage *)

\* The interaction gate is only credited to the user's stage, after stages that were
\* dormant; there, and after one that was completed, it is credited to activity.
LEMMA InferredGate ==
  ASSUME NEW active \in BOOLEAN
  PROVE  /\ "interaction_gate" \in Inferred(active) =>
                /\ stage = "user_interaction"
                /\ \A k \in DOMAIN results :
                       results[k].status = "completed" => ~results[k].active
         /\ /\ active /\ stage = "user_interaction"
            /\ \E k \in DOMAIN results : results[k].status = "completed"
            /\ \A k \in DOMAIN results :
                   results[k].status = "completed" => ~results[k].active
            => "interaction_gate" \in Inferred(active)
  BY DEF Inferred

\* The ledger with the result of the stage that ends.
LEMMA ResultAppended ==
  ASSUME StageInv, at = "teardown", NEW active \in BOOLEAN,
         NEW result, result = [stage |-> stage, status |-> status, active |-> active,
                               evasion |-> Inferred(active)],
         NEW ledger, ledger = Append(results, result)
  PROVE  /\ next \in 1..8 /\ Len(ledger) = next /\ Len(results) = next - 1
         /\ \A k \in 1..next : ledger[k] = IF k < next THEN results[k] ELSE result
         /\ status \in {"completed", "aborted", "timed_out", "failed"}
         /\ status # "failed" => WalkReady(ledger, next + 1)
  <1>1. /\ results \in Seq(StageResults)
        /\ next \in 1..8 /\ stage = StageOrder[next] /\ Runnable(next)
        /\ Len(results) = next - 1 /\ OnCourse(results)
        /\ \A k \in 1..Len(results) : Entry(results[k], k)
    BY DEF StageInv, TypeOK, LedgerOK
  <1>2. status \in {"completed", "aborted", "timed_out", "failed"}
    BY DEF StageInv, LocalsOK
  <1>3. Entry(result, next)
    <2>1. result \in StageResults
      BY <1>1, <1>2, EightStages, InferredTyped DEF StageResults
    <2> QED
      BY <1>1, <1>2, <2>1 DEF Entry
  <1>4. /\ ledger \in Seq(StageResults) /\ Len(ledger) = next
        /\ \A k \in 1..next : ledger[k] = IF k < next THEN results[k] ELSE result
    BY <1>1, <1>3 DEF Entry
  <1>5. ASSUME status # "failed" PROVE WalkReady(ledger, next + 1)
    <2>1. \A k \in 1..next : Entry(ledger[k], k)
      BY <1>1, <1>3, <1>4
    <2>2. status = "aborted" => abortRequested
      BY DEF StageInv, LocalsOK
    <2>3. \A k \in 1..next :
              /\ ledger[k].status # "failed"
              /\ ledger[k].status = "aborted" => abortRequested /\ k = next
      BY <1>1, <1>4, <1>5, <2>2 DEF OnCourse
    <2> QED
      BY <1>1, <1>4, <2>1, <2>3 DEF WalkReady
  <1> QED
    BY <1>1, <1>2, <1>4, <1>5

\* The result of the stage that ends is as right as the entries before it.
LEMMA ResultFinds ==
  ASSUME FindingsInv, at = "teardown", NEW counted \in Counted,
         NEW active \in BOOLEAN, active = (observed \/ counted),
         NEW result, result = [stage |-> stage, status |-> status, active |-> active,
                               evasion |-> Inferred(active)],
         NEW ledger, ledger = Append(results, result)
  PROVE  \A k \in 1..next : EntryOK(ledger, k)
  <1>1. /\ next \in 1..8 /\ Len(results) = next - 1
        /\ \A k \in 1..next : ledger[k] = IF k < next THEN results[k] ELSE result
        /\ status \in {"completed", "aborted", "timed_out", "failed"}
    BY ResultAppended DEF FindingsInv
  <1>2. /\ stage = StageOrder[next]
        /\ stage = "user_interaction" <=> next = 3
        /\ DOMAIN results = 1..(next - 1)
    BY <1>1, CurrentPlace, StagePlaces, LenProperties DEF FindingsInv, StageInv, TypeOK
  <1>3. ASSUME NEW k \in 1..(next - 1) PROVE EntryOK(results, k) /\ Entry(results[k], k)
    BY <1>1, <1>3 DEF FindingsInv, EntriesOK, StageInv, LedgerOK
  <1>4. ASSUME NEW k \in 1..(next - 1) PROVE EntryOK(ledger, k)
    <2>1. ledger[k] = results[k] /\ \A j \in 1..(k - 1) : ledger[j] = results[j]
      BY <1>1
    <2>2. EntryCredited(ledger, k)
      BY ONLY <1>3, <2>1, k \in 1..(next - 1) DEF EntryOK, EntryCredited
    <2> QED
      BY <1>3, <2>1, <2>2 DEF EntryOK
  <1>5. ledger[next] = result
    BY <1>1
  <1>6. EntryHonest(result)
    <2>1. status = "completed" /\ stage \in shown /\ stage # "internet_simulation" => observed
      BY DEF FindingsInv, CurrentOK, Kept, ActionPhases
    <2> QED
      BY <1>1, <2>1 DEF EntryHonest
  <1>7. EntryDated(result, next)
    <2>1. counted => Awake
      BY DEF Counted
    <2>2. observed /\ Judged(stage) => Opened(next)
      BY DEF FindingsInv, CurrentOK
    <2> QED
      BY <2>1, <2>2, AwakeOpened DEF EntryDated, FindingsInv
  <1>8. ASSUME "interaction_gate" \in Inferred(active),
               NEW j \in 1..(next - 1), results[j].active \/ results[j].stage \in shown
        PROVE  results[j].status = "timed_out"
    <2>1. next = 3 /\ (results[j].status = "completed" => ~results[j].active)
      BY <1>2, <1>8, InferredGate
    <2>2. results[j].stage # "internet_simulation"
      BY <1>3, <2>1, StagePlaces DEF Entry
    <2>3. results[j].status \notin {"aborted", "failed"}
      BY <1>1 DEF FindingsInv, StageInv, LedgerOK, OnCourse
    <2>4. results[j].status \notin {"skipped", "completed"}
      BY <1>3, <1>8, <2>1, <2>2 DEF EntryOK, EntryHonest
    <2>5. results[j].status \in {"skipped", "completed", "aborted", "timed_out", "failed"}
      BY <1>3 DEF Entry, StageResults
    <2> QED
      BY <2>3, <2>4, <2>5
  <1>9. ASSUME "interaction" \in gates, "boot" \notin unlisted, next = 3, active,
               NEW j \in 1..(next - 1), results[j].status = "completed"
        PROVE  "interaction_gate" \in Inferred(active)
    <2>1. ASSUME NEW k \in DOMAIN results PROVE ~results[k].active
      <3>1. k \in 1..(next - 1) /\ k < 3
        BY <1>2, <1>9, <2>1
      <3>2. results[k].stage \in {"boot", "idle"}
        BY <1>3, <1>9, <3>1, StagePlaces DEF Entry
      <3>3. Judged(results[k].stage)
        BY <1>9, <3>2 DEF Judged, FindingsInv, StageInv, TypeOK, ActionTypeOK
      <3>4. ~Opened(k)
        BY <1>9, <3>1 DEF Opened
      <3> QED
        BY <1>3, <3>1, <3>3, <3>4 DEF EntryOK, EntryDated
    <2> QED
      BY <1>2, <1>9, <2>1, InferredGate
  <1>10. EntryCredited(ledger, next)
    BY <1>1, <1>5, <1>8, <1>9 DEF EntryCredited
  <1>11. EntryOK(ledger, next)
    BY <1>2, <1>5, <1>6, <1>7, <1>10 DEF EntryOK
  <1> QED
    BY <1>1, <1>4, <1>11

\* The end of a stage keeps what was found, and the run walks on or stops.
LEMMA EndStageFinds ==
  ASSUME FindingsInv, EndStage, StageInv'
  PROVE  FindingsInv'
  <1>1. PICK counted \in Counted :
          LET active == observed \/ counted
              result == [stage |-> stage, status |-> status, active |-> active,
                         evasion |-> Inferred(active)]
          IN  IF status = "failed" /\ Required(stage)
              THEN StopForFailure(Append(results, result))
              ELSE Walk(next + 1, Append(results, result))
    BY DEF EndStage
  <1> DEFINE active == observed \/ counted
             result == [stage |-> stage, status |-> status, active |-> active,
                        evasion |-> Inferred(active)]
             ledger == Append(results, result)
  <1>2. at = "teardown" /\ UNCHANGED <<sampleVars, contextVars, shown>>
    BY DEF EndStage
  <1>3. active \in BOOLEAN
    OBVIOUS
  <1>4. \/ status = "failed" /\ StopForFailure(ledger)
        \/ status # "failed" /\ Walk(next + 1, ledger)
    BY <1>1 DEF Required
  <1>5. /\ next \in 1..8 /\ Len(ledger) = next
        /\ status # "failed" => WalkReady(ledger, next + 1)
    <2> HIDE DEF active
    <2> QED
      BY <1>2, <1>3, ResultAppended DEF FindingsInv
  <1>6. \A k \in 1..next : EntryOK(ledger, k)
    <2>1. active = (observed \/ counted)
      OBVIOUS
    <2> HIDE DEF active
    <2> QED
      BY <1>2, <1>3, <2>1, ResultFinds
  <1> HIDE DEF ledger
  <1>7. CASE status # "failed"
    <2>1. \A k \in 1..((next + 1) - 1) : EntryOK(ledger, k)
      BY <1>5, <1>6
    <2>2. next + 1 \in 1..9 /\ next + 1 > next
      BY <1>5
    <2> QED
      BY <1>2, <1>4, <1>5, <1>7, <2>1, <2>2, WalkFinds
  <1>8. CASE StopForFailure(ledger)
    <2>1. /\ results' = ledger /\ next' = next /\ at' = "ending"
          /\ UNCHANGED <<gates, met, shown, unlisted, baseline>>
      BY <1>2, <1>8 DEF StopForFailure, sampleVars, contextVars
    <2>2. ShownInTime' /\ GatesInTime' /\ CurrentOK'
      BY <2>1 DEF FindingsInv, ShownInTime, GatesInTime, CurrentOK, ActionPhases
    <2>3. \A k \in 1..Len(results') : EntryOK(results, k)'
      BY <1>5, <1>6, <2>1
      DEF EntryOK, EntryHonest, EntryDated, EntryCredited, Judged, Opened
    <2> QED
      BY <2>2, <2>3 DEF FindingsInv, EntriesOK
  <1> QED
    BY <1>4, <1>7, <1>8

-----------------------------------------------------------------------------
(* The invariant *)

\* Nothing has been found when the run starts.
LEMMA FindingsInit == Init => FindingsInv
  <1> SUFFICES ASSUME Init PROVE FindingsInv
    OBVIOUS
  <1>1. StageInv
    BY StageInit
  <1>2. ShownInTime /\ GatesInTime /\ CurrentOK
    BY DEF Init, ShownInTime, GatesInTime, CurrentOK, ActionPhases
  <1>3. Len(results) = 0
    BY EmptySeq DEF Init
  <1>4. EntriesOK
    BY <1>3 DEF EntriesOK
  <1> QED
    BY <1>1, <1>2, <1>4 DEF FindingsInv

\* Every step keeps the invariant.
LEMMA FindingsStep == FindingsInv /\ [Next]_vars => FindingsInv'
  <1> SUFFICES ASSUME FindingsInv, [Next]_vars PROVE FindingsInv'
    OBVIOUS
  <1>0. StageInv'
    BY StageStep DEF FindingsInv
  <1> USE DEF runVars
  <1>1. CASE Start
    <2>1. /\ at = "starting" /\ Walk(1, results)
          /\ UNCHANGED <<sampleVars, contextVars, shown>>
      BY <1>1 DEF Start
    <2>2. WalkReady(results, 1)
      BY <2>1 DEF FindingsInv, StageInv, TypeOK, LedgerOK, WalkReady
    <2>3. \A k \in 1..(1 - 1) : EntryOK(results, k)
      OBVIOUS
    <2> QED
      BY <1>0, <2>1, <2>2, <2>3, WalkFinds
  <1>2. CASE RunAction
    <2>1. ExecuteAction /\ UNCHANGED <<results, next>>
      BY <1>2 DEF RunAction
    <2>2. /\ UNCHANGED <<gates, stage>> /\ shown' \subseteq shown \cup {stage}
          /\ unlisted \subseteq unlisted' /\ (UNCHANGED baseline \/ stage = "boot")
          /\ GatesInTime' /\ CurrentOK'
      BY <2>1, ActionTouches, ActionFinds
    <2>3. at \in ActionPhases /\ (at' = "starting" => at = "starting")
      BY <2>1, ActionStaysInStage DEF Return, ActionPhases
    <2> QED
      BY <1>0, <2>1, <2>2, <2>3, LocalFinds
  <1>3. CASE Hang
    <2>1. UNCHANGED <<sampleVars, at, stage, status, actionVars, contextVars, shown,
                      results, next>>
      BY <1>3 DEF Hang
    <2>2. GatesInTime' /\ CurrentOK'
      BY <2>1 DEF FindingsInv, GatesInTime, CurrentOK, Kept, Judged, Opened,
                  sampleVars, actionVars, contextVars
    <2> QED
      BY <1>0, <2>1, <2>2, LocalFinds DEF sampleVars, contextVars
  <1>4. CASE TimeOut \/ Fail
    <2>1. /\ at \in ActionPhases /\ at' = "teardown" /\ status' \in {"timed_out", "failed"}
          /\ UNCHANGED <<sampleVars, stage, actionVars, contextVars, shown, results, next>>
      BY <1>4 DEF TimeOut, Fail, Executing
    <2>2. GatesInTime' /\ CurrentOK'
      BY <2>1 DEF FindingsInv, GatesInTime, CurrentOK, Kept, Judged, Opened,
                  sampleVars, actionVars, contextVars
    <2> QED
      BY <1>0, <2>1, <2>2, LocalFinds DEF sampleVars, contextVars
  <1>5. CASE EndStage
    BY <1>0, <1>5, EndStageFinds
  <1>6. CASE Cancel \/ End
    <2>1. /\ at' = "done"
          /\ UNCHANGED <<sampleVars, contextVars, shown, results, next>>
      BY <1>6 DEF Cancel, End
    <2>2. GatesInTime' /\ CurrentOK'
      BY <2>1 DEF FindingsInv, GatesInTime, CurrentOK, ActionPhases, sampleVars
    <2> QED
      BY <1>0, <2>1, <2>2, LocalFinds DEF sampleVars, contextVars
  <1>7. CASE RequestAbort \/ UNCHANGED vars
    <2>1. UNCHANGED <<sampleVars, at, stage, status, actionVars, contextVars, shown,
                      results, next>>
      BY <1>7 DEF RequestAbort, vars
    <2>2. GatesInTime' /\ CurrentOK'
      BY <2>1 DEF FindingsInv, GatesInTime, CurrentOK, Kept, Judged, Opened,
                  sampleVars, actionVars, contextVars
    <2> QED
      BY <1>0, <2>1, <2>2, LocalFinds DEF sampleVars, contextVars
  <1>8. CASE Elapse
    <2>1. /\ met' = met \cup {"delay"}
          /\ UNCHANGED <<gates, at, stage, status, actionVars, contextVars, shown,
                         results, next>>
      BY <1>8 DEF Elapse, DelayPasses
    <2>2. GatesInTime' /\ CurrentOK'
      BY <2>1 DEF FindingsInv, GatesInTime, CurrentOK, Kept, Judged, Opened,
                  actionVars, contextVars
    <2> QED
      BY <1>0, <2>1, <2>2, LocalFinds DEF contextVars
  <1> QED
    BY <1>1, <1>2, <1>3, <1>4, <1>5, <1>6, <1>7, <1>8 DEF Next, Done

\* FindingsInv holds in every reachable state.
LEMMA FindingsInvariant == Spec => []FindingsInv
  BY FindingsInit, FindingsStep, PTL DEF Spec

\* What the invariant says of an entry, by its place in the ledger.
LEMMA EntryFacts ==
  ASSUME FindingsInv, NEW i \in DOMAIN results
  PROVE  /\ i \in 1..8 /\ i \in 1..Len(results)
         /\ EntryHonest(results[i]) /\ EntryDated(results[i], i)
         /\ EntryCredited(results, i)
         /\ results[i].stage = StageOrder[i]
  <1>1. results \in Seq(StageResults) /\ Len(results) <= 8
    BY DEF FindingsInv, StageInv, TypeOK, LedgerOK
  <1>2. i \in 1..Len(results) /\ i \in 1..8
    BY <1>1, LenProperties
  <1> QED
    BY <1>2 DEF FindingsInv, EntriesOK, EntryOK, StageInv, LedgerOK, Entry

-----------------------------------------------------------------------------
(* The theorems *)

\* No completed stage that was shown behaviour is filed as dormant, but for the
\* internet simulation (stage_orchestrator.py _run_stage, stage_actions.py).
THEOREM DormantStagesWereQuiet == Spec => []DormantIsQuiet
  <1>1. FindingsInv => DormantIsQuiet
    BY EntryFacts DEF DormantIsQuiet, EntryHonest
  <1> QED
    BY <1>1, FindingsInvariant, PTL

\* The interaction gate is credited only after stages that were quiet or cut short
\* (stage_orchestrator.py _infer_evasion).
THEOREM GatesAreCreditedAfterQuiet == Spec => []GateCreditedAfterQuiet
  <1>1. FindingsInv => GateCreditedAfterQuiet
    BY EntryFacts DEF GateCreditedAfterQuiet, EntryCredited
  <1> QED
    BY <1>1, FindingsInvariant, PTL

\* A sample that waits for the user is found out in the user's stage
\* (stage_orchestrator.py _infer_evasion).
THEOREM InteractionGatesAreFound == Spec => []InteractionGateFound
  <1>1. ASSUME FindingsInv PROVE InteractionGateFound
    <2> SUFFICES ASSUME "interaction" \in gates, "boot" \notin unlisted,
                        NEW i \in DOMAIN results,
                        results[i].stage = "user_interaction", results[i].active,
                        \E k \in 1..(i - 1) : results[k].status = "completed"
                 PROVE  "interaction_gate" \in results[i].evasion
      BY DEF InteractionGateFound
    <2>1. i \in 1..8 /\ StageOrder[i] = StageOrder[3] /\ EntryCredited(results, i)
      BY <1>1, EntryFacts, StagePlaces
    <2>2. i = 3
      BY <2>1, PlacesDiffer
    <2> QED
      BY <2>1, <2>2 DEF EntryCredited
  <1> QED
    BY <1>1, FindingsInvariant, PTL

\* No behaviour is dated before the stage that opens the sample's gates
\* (stage_actions.py, stage_orchestrator.py activation_stage).
THEOREM ActivationsAreNotEarly == Spec => []ActivationNotEarly
  <1>1. ASSUME FindingsInv PROVE ActivationNotEarly
    <2> SUFFICES ASSUME NEW i \in ActiveAt,
                        results[i].stage = "persistence_check" => baseline,
                        results[i].stage \notin unlisted
                 PROVE  Opened(i)
      BY GatePlaces DEF ActivationNotEarly, Opened
    <2>1. i \in DOMAIN results /\ results[i].active
      BY DEF ActiveAt
    <2>2. EntryDated(results[i], i)
      BY <1>1, <2>1, EntryFacts
    <2> QED
      BY <2>1, <2>2 DEF EntryDated, Judged
  <1> QED
    BY <1>1, FindingsInvariant, PTL
=============================================================================
