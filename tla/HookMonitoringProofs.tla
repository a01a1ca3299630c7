------------------------- MODULE HookMonitoringProofs -------------------------
(***************************************************************************)
(* Proofs about the monitoring, for every rule book, every set of samples  *)
(* and every batch size: the types, that each stage's ledger is its own    *)
(* and accounts for every call logged under it, and that a rule's chains   *)
(* of one process keep the rule's window between them.                     *)
(***************************************************************************)
EXTENDS HookMonitoring, SumTheorems

-----------------------------------------------------------------------------
(* The calls of a rollup *)

\* What a rollup's calls come to is a sum over its domain.
LEMMA CallsInIsSum ==
  ASSUME NEW f
  PROVE  CallsIn(f) = Sum(f, DOMAIN f)
  BY Zenon DEF CallsIn, MapThenSumSet, MapThenFoldSet, Sum, Sums, IsSums, SumStep, Some

\* A counter that goes up by n takes the total up by n.
LEMMA CallsInAfterBump ==
  ASSUME NEW f, NEW g, NEW x, NEW n \in Nat, IsFiniteSet(DOMAIN f),
         \A y \in DOMAIN f : f[y] \in Nat,
         DOMAIN g = DOMAIN f \cup {x},
         \A y \in DOMAIN f \ {x} : g[y] = f[y],
         g[x] = (IF x \in DOMAIN f THEN f[x] ELSE 0) + n
  PROVE  CallsIn(g) = CallsIn(f) + n
<1> DEFINE others == DOMAIN f \ {x}
<1>1. DOMAIN g \ {x} = others /\ x \in DOMAIN g
  OBVIOUS
<1>2. IsFiniteSet(DOMAIN g) /\ IsFiniteSet(others)
  BY FS_AddElement, FS_Subset
<1>3. \A y \in DOMAIN g : g[y] \in Nat
  OBVIOUS
<1>4. Sum(g, DOMAIN g) = g[x] + Sum(g, others)
  <2> HIDE DEF others
  <2> QED BY <1>1, <1>2, <1>3, SumTakesAny
<1>5. Sum(g, others) = Sum(f, others)
  BY <1>2, SumOfSameTerms
<1>6. Sum(f, DOMAIN f) = (IF x \in DOMAIN f THEN f[x] ELSE 0) + Sum(f, others)
  <2>1. CASE x \in DOMAIN f
    BY <2>1, SumTakesAny
  <2>2. CASE x \notin DOMAIN f
    <3>1. others = DOMAIN f
      BY <2>2
    <3>2. Sum(f, DOMAIN f) \in Nat
      BY SumIsNat
    <3> HIDE DEF others
    <3> QED BY <2>2, <3>1, <3>2
  <2> QED BY <2>1, <2>2
<1>7. Sum(f, others) \in Nat
  BY <1>2, SumIsNat
<1> HIDE DEF others
<1> QED BY <1>4, <1>5, <1>6, <1>7, CallsInIsSum

-----------------------------------------------------------------------------
(* The catalog and the budgets *)

\* A table of rate limits: numbers.
IsLimits(f) == f \in [DOMAIN f -> Nat]

\* Entries with one limit are such a table.
LEMMA EntriesAreLimits ==
  ASSUME NEW S, NEW n \in Nat
  PROVE  IsLimits(Each(S, n))
  BY DEF IsLimits, Each

\* A table stays one when another is merged in.
LEMMA MergeKeepsLimits ==
  ASSUME NEW f, NEW g, IsLimits(f), IsLimits(g)
  PROVE  IsLimits(f ++ g)
  BY DEF ++, IsLimits

\* Sections that are tables make a catalog that is one.
LEMMA ListedAreLimits ==
  ASSUME NEW sections, \A s \in sections : IsLimits(s)
  PROVE  IsLimits(Listed(sections))
  <1> DEFINE D == UNION {DOMAIN s : s \in sections}
  <1> DEFINE Of(a) == CHOOSE s \in sections : a \in DOMAIN s
  <1>1. \A a \in D : Of(a) \in sections /\ a \in DOMAIN Of(a)
    OBVIOUS
  <1>2. \A a \in D : Of(a)[a] \in Nat
    BY <1>1 DEF IsLimits
  <1>3. Listed(sections) = [a \in D |-> Of(a)[a]]
    BY DEF Listed
  <1> QED
    BY <1>2, <1>3 DEF IsLimits

\* Every monitored API has a rate limit, a number.
LEMMA LimitsAreNatural == RateLimit \in [Apis -> Nat]
  <1>1. IsLimits(FilesystemHooks)
    BY EntriesAreLimits, MergeKeepsLimits DEF FilesystemHooks
  <1>2. IsLimits(RegistryHooks)
    BY EntriesAreLimits, MergeKeepsLimits DEF RegistryHooks
  <1>3. IsLimits(NetworkHooks)
    BY EntriesAreLimits, MergeKeepsLimits DEF NetworkHooks
  <1>4. IsLimits(ProcessHooks)
    BY EntriesAreLimits, MergeKeepsLimits DEF ProcessHooks
  <1>5. IsLimits(ExecutionHooks)
    BY EntriesAreLimits, MergeKeepsLimits DEF ExecutionHooks
  <1>6. IsLimits(MemoryHooks)
    BY EntriesAreLimits, MergeKeepsLimits DEF MemoryHooks
  <1>7. IsLimits(InjectionHooks)
    BY EntriesAreLimits, MergeKeepsLimits DEF InjectionHooks
  <1>8. IsLimits(ResolutionHooks)
    BY EntriesAreLimits, MergeKeepsLimits DEF ResolutionHooks
  <1>9. IsLimits(CryptoHooks)
    BY EntriesAreLimits, MergeKeepsLimits DEF CryptoHooks
  <1>10. IsLimits(DeviceHooks)
    BY EntriesAreLimits, MergeKeepsLimits DEF DeviceHooks
  <1>11. IsLimits(ServiceHooks)
    BY EntriesAreLimits, MergeKeepsLimits DEF ServiceHooks
  <1>12. IsLimits(DriverHooks)
    BY EntriesAreLimits, MergeKeepsLimits DEF DriverHooks
  <1>13. IsLimits(TokenHooks)
    BY EntriesAreLimits, MergeKeepsLimits DEF TokenHooks
  <1>14. IsLimits(PermissionHooks)
    BY EntriesAreLimits, MergeKeepsLimits DEF PermissionHooks
  <1>15. IsLimits(SmsHooks)
    BY EntriesAreLimits, MergeKeepsLimits DEF SmsHooks
  <1>16. IsLimits(LocationHooks)
    BY EntriesAreLimits, MergeKeepsLimits DEF LocationHooks
  <1>17. IsLimits(ContactHooks)
    BY EntriesAreLimits, MergeKeepsLimits DEF ContactHooks
  <1>18. IsLimits(ClipboardHooks)
    BY EntriesAreLimits, MergeKeepsLimits DEF ClipboardHooks
  <1>19. IsLimits(CameraHooks)
    BY EntriesAreLimits, MergeKeepsLimits DEF CameraHooks
  <1>20. IsLimits(MicrophoneHooks)
    BY EntriesAreLimits, MergeKeepsLimits DEF MicrophoneHooks
  <1>21. IsLimits(MediaHooks)
    BY EntriesAreLimits, MergeKeepsLimits DEF MediaHooks
  <1>22. IsLimits(AccessibilityHooks)
    BY EntriesAreLimits, MergeKeepsLimits DEF AccessibilityHooks
  <1>23. IsLimits(OverlayHooks)
    BY EntriesAreLimits, MergeKeepsLimits DEF OverlayHooks
  <1>24. IsLimits(WindowsCatalog)
    BY <1>1, <1>2, <1>3, <1>4, <1>5, <1>6, <1>7, <1>8, <1>9, <1>10, <1>11, <1>12, <1>13,
       ListedAreLimits, Zenon DEF WindowsCatalog
  <1>25. IsLimits(AndroidCatalog)
    BY <1>14, <1>15, <1>16, <1>17, <1>18, <1>19, <1>20, <1>21, <1>22, <1>23,
       ListedAreLimits, Zenon DEF AndroidCatalog
  <1>26. IsLimits(RateLimit)
    BY <1>24, <1>25, MergeKeepsLimits DEF RateLimit
  <1> QED
    BY <1>26 DEF Apis, IsLimits

\* A name resolves to monitored APIs only.
LEMMA ResolvedAreApis ==
  ASSUME NEW raw
  PROVE  Resolved(raw) \subseteq Apis
  BY DEF Resolved, ResolvesTo

\* A table of budgets at time t.
IsRates(rate, t) == \A a \in DOMAIN rate : rate[a] \in [start : 0..t, count : Nat]

\* Of n calls between none and all are within a budget.
LEMMA WithinBounds ==
  ASSUME NEW t \in Nat, NEW u \in Nat, NEW rate, IsRates(rate, t),
         NEW api \in Apis, NEW n \in Nat
  PROVE  Within(rate, api, n, u) \in 0..n
  <1> DEFINE used == IF Running(rate, api, u) THEN rate[api].count ELSE 0
  <1>1. used \in Nat
    BY DEF IsRates, Running
  <1>2. RateLimit[api] \in Nat
    BY LimitsAreNatural
  <1>3. Within(rate, api, n, u) =
          IF used >= RateLimit[api] THEN 0 ELSE Smaller(n, RateLimit[api] - used)
    BY Zenon DEF Within
  <1> HIDE DEF used
  <1> QED
    BY <1>1, <1>2, <1>3 DEF Smaller

\* Spending keeps a table of budgets one.
LEMMA SpendKeepsRates ==
  ASSUME NEW t \in Nat, NEW u \in Nat, t <= u, NEW rate, IsRates(rate, t),
         NEW api, NEW n \in Nat
  PROVE  IsRates(Spend(rate, api, n, u), u)
  <1> DEFINE budget == IF Running(rate, api, u)
                       THEN [rate[api] EXCEPT !.count = @ + n]
                       ELSE [start |-> u, count |-> n]
  <1>1. budget \in [start : 0..u, count : Nat]
    <2>1. CASE Running(rate, api, u)
      <3>1. rate[api] \in [start : 0..t, count : Nat]
        BY <2>1 DEF Running, IsRates
      <3>2. budget = [rate[api] EXCEPT !.count = @ + n]
        BY <2>1
      <3> QED
        BY <3>1, <3>2
    <2>2. CASE ~Running(rate, api, u)
      BY <2>2
    <2> QED
      BY <2>1, <2>2
  <1>2. \A a \in DOMAIN rate : rate[a] \in [start : 0..u, count : Nat]
    BY DEF IsRates
  <1>3. Spend(rate, api, n, u) = [a \in {api} |-> budget] ++ rate
    BY Zenon DEF Spend
  <1> HIDE DEF budget
  <1>4. Spend(rate, api, n, u)
          = [a \in {api} \cup DOMAIN rate |-> IF a = api THEN budget ELSE rate[a]]
    BY <1>3 DEF ++
  <1> QED
    BY <1>1, <1>2, <1>4 DEF IsRates

-----------------------------------------------------------------------------
(* The agent *)

\* What an agent can report of some step of some sample.
Reports ==
    [raw : {s.raw : s \in SampleSteps},
     pid : {s.pid : s \in SampleSteps},
     at : Nat, n : Nat \ {0},
     returned : {Success},
     handle : {s.handle : s \in SampleSteps},
     marks : SUBSET UNION {s.shows : s \in SampleSteps},
     permissions : {s.permissions : s \in SampleSteps}]

\* The types of the sample's side; no batch is empty on its way.
AgentKept ==
    /\ platform \in Platforms
    /\ now \in Nat /\ lastFlush \in 0..now
    /\ failedSends \in 0..MaxFailedSends
    /\ IsRates(guestRate, now)
    /\ todo \in Seq(SampleSteps)
    /\ batch \in Seq(Reports)
    /\ channel \in Seq(Seq(Reports) \ {NoRecords})
    /\ pending \in Seq(Reports)

\* flush() keeps the agent's types.
LEMMA FlushKeeps ==
  ASSUME NEW records, records \in Seq(Reports), records # NoRecords,
         AgentKept, now' \in Nat, Flush(records)
  PROVE  /\ lastFlush' \in 0..now'
         /\ failedSends' \in 0..MaxFailedSends
         /\ batch' \in Seq(Reports)
         /\ channel' \in Seq(Seq(Reports) \ {NoRecords})
  <1>1. NoRecords \in Seq(Reports)
    BY DEF NoRecords
  <1>2. Append(channel, records) \in Seq(Seq(Reports) \ {NoRecords})
    BY DEF AgentKept
  <1>3. CASE channel' = Append(channel, records) /\ batch' = NoRecords
             /\ lastFlush' = now' /\ UNCHANGED failedSends
    BY <1>1, <1>2, <1>3 DEF AgentKept
  <1>4. CASE /\ failedSends < MaxFailedSends
             /\ failedSends' = failedSends + 1
             /\ batch' = IF platform = "windows" THEN NoRecords ELSE records
             /\ lastFlush' = now'
             /\ UNCHANGED channel
    BY <1>1, <1>4, AgentAssumption DEF AgentKept
  <1> QED
    BY <1>3, <1>4 DEF Flush

\* emit() keeps them.
LEMMA EmitKeeps ==
  ASSUME NEW record \in Reports, AgentKept, now' \in Nat, now <= now', Emit(record)
  PROVE  /\ lastFlush' \in 0..now'
         /\ failedSends' \in 0..MaxFailedSends
         /\ batch' \in Seq(Reports)
         /\ channel' \in Seq(Seq(Reports) \ {NoRecords})
  <1> DEFINE held == Append(batch, record)
  <1>1. held \in Seq(Reports) /\ held # NoRecords
    <2>1. batch \in Seq(Reports)
      BY DEF AgentKept
    <2> QED
      BY <2>1, AppendProperties DEF NoRecords
  <1>2. CASE Flush(held)
    BY <1>1, <1>2, FlushKeeps
  <1>3. CASE batch' = held /\ UNCHANGED <<lastFlush, channel, failedSends>>
    BY <1>1, <1>3 DEF AgentKept
  <1> QED
    BY <1>2, <1>3, Zenon DEF Emit

\* A report of calls that were made is one of the reports.
LEMMA ReportIsOne ==
  ASSUME NEW step \in SampleSteps, NEW n \in Nat \ {0}, platform \in Platforms, now' \in Nat
  PROVE  Report(step, n) \in Reports
  <1>1. Evident(step.shows, Captured[platform][step.raw]) \subseteq step.shows
    BY DEF Evident
  <1> QED
    BY <1>1 DEF Report, Reports

\* Observing a step keeps them.
LEMMA ObserveKeeps ==
  ASSUME NEW step \in SampleSteps, AgentKept, now' \in Nat, now <= now', Observe(step)
  PROVE  /\ IsRates(guestRate, now)'
         /\ lastFlush' \in 0..now'
         /\ failedSends' \in 0..MaxFailedSends
         /\ batch' \in Seq(Reports)
         /\ channel' \in Seq(Seq(Reports) \ {NoRecords})
  <1> DEFINE api == Canonical(step.raw)
  <1> DEFINE passed == IF platform = "windows" THEN Within(guestRate, api, step.n, now')
                       ELSE step.n
  <1>1. step.n \in Nat \ {0} /\ platform \in Platforms /\ now \in Nat
    BY SampleAssumption DEF AgentKept
  <1>2. IsRates(guestRate, now')
    BY <1>1 DEF AgentKept, IsRates
  <1>3. CASE step.raw \notin DOMAIN Captured[platform]
    <2>1. UNCHANGED <<guestRate, batch, lastFlush, channel, failedSends>>
      BY <1>3 DEF Observe
    <2> QED
      BY <1>1, <1>2, <2>1 DEF AgentKept, IsRates
  <1>4. CASE step.raw \in DOMAIN Captured[platform]
    <2>1. api \in Apis
      BY <1>1, <1>4, HookedAssumption
    <2>2. passed \in Nat
      <3>1. Within(guestRate, api, step.n, now') \in 0..step.n
        <4>1. IsRates(guestRate, now) /\ step.n \in Nat
          BY <1>1 DEF AgentKept
        <4> HIDE DEF api
        <4> QED
          BY <1>1, <2>1, <4>1, WithinBounds
      <3> QED
        BY <1>1, <3>1
    <2>3. /\ guestRate' = IF platform = "windows"
                           THEN Spend(guestRate, api, step.n, now') ELSE guestRate
          /\ IF passed = 0 THEN UNCHANGED <<batch, lastFlush, channel, failedSends>>
             ELSE Emit(Report(step, passed))
      BY <1>4, Zenon DEF Observe
    <2> HIDE DEF api, passed
    <2>4. IsRates(guestRate, now)'
      <3>1. IsRates(Spend(guestRate, api, step.n, now'), now')
        BY <1>1, SpendKeepsRates DEF AgentKept
      <3>2. guestRate' = guestRate \/ guestRate' = Spend(guestRate, api, step.n, now')
        BY <2>3
      <3> QED
        BY <1>2, <3>1, <3>2 DEF IsRates
    <2>5. CASE passed = 0
      BY <1>1, <2>3, <2>4, <2>5 DEF AgentKept
    <2>6. CASE passed # 0
      <3>1. Report(step, passed) \in Reports
        BY <1>1, <2>2, <2>6, ReportIsOne
      <3> QED
        BY <2>3, <2>4, <2>6, <3>1, EmitKeeps
    <2> QED
      BY <2>5, <2>6
  <1> QED
    BY <1>3, <1>4

-----------------------------------------------------------------------------
(* The engine *)

\* The types of the engine's counters: every API that was received has a
\* budget, and what was suppressed was received.
EngineKept ==
    /\ IsRates(hostRate, now)
    /\ DOMAIN hostRate = DOMAIN callCounts
    /\ DOMAIN callCounts \subseteq Apis
    /\ \A a \in DOMAIN callCounts : callCounts[a] \in Nat \ {0}
    /\ total \in Nat
    /\ suppressed \in 0..total
    /\ DOMAIN chainCounts \subseteq RuleIds

\* The last emission of a rule for a process is no earlier than its chains.
ChainsKept ==
    /\ \A k \in DOMAIN emitted : emitted[k] \in Nat
    /\ \A c \in chains :
          /\ c.at \in Nat
          /\ <<c.rule, c.pid>> \in DOMAIN emitted
          /\ c.at <= emitted[<<c.rule, c.pid>>]
    /\ ChainsSpaced

\* What a closed stage's rollup says, and what it will say from then on.
Balanced(s) ==
    /\ rollups[s].calls \in Nat
    /\ rollups[s].chains = {c \in chains : c.stage = s}
    /\ rollups[s].byApi = ByApi(s)
    /\ CallsIn(rollups[s].byApi) <= rollups[s].calls
    /\ rollups[s].chains # {} => rollups[s].calls > 0
    /\ rollups[s].active <=> rollups[s].calls > 0

\* The stage that is open: the chains it has not found were there before it,
\* and a chain or a call that was logged is a call that was counted.
OpenStage ==
    /\ \A c \in chains : c.stage = stage <=> c \notin startChains
    /\ chains # startChains => total > startCalls
    /\ CallsIn(ByApi(stage)) <= total - startCalls

LedgerKept ==
    /\ stage \in StageNames \cup {NoStage}
    /\ DOMAIN rollups \subseteq StageNames \ {stage}
    /\ startCalls \in 0..total
    /\ startChains \subseteq chains
    /\ \A c \in chains : c.stage \in DOMAIN rollups \cup {NoStage, stage}
    /\ IsFiniteSet(DOMAIN stageCounts)
    /\ DOMAIN stageCounts \subseteq ((DOMAIN rollups \cup {stage}) \ {NoStage}) \X Apis
    /\ \A k \in DOMAIN stageCounts : stageCounts[k] \in Nat
    /\ stage # NoStage => OpenStage
    /\ \A s \in DOMAIN rollups : Balanced(s)

MonitorInv == AgentKept /\ EngineKept /\ ChainsKept /\ LedgerKept

\* What Put does to a dictionary.
LEMMA PutIs ==
  ASSUME NEW dict, NEW k, NEW v
  PROVE  Put(dict, k, v) = [x \in DOMAIN dict \cup {k} |-> IF x = k THEN v ELSE dict[x]]
  BY DEF Put, ++

\* What Bump does to a counter.
LEMMA BumpIs ==
  ASSUME NEW dict, NEW k, NEW n
  PROVE  Bump(dict, k, n)
           = [x \in DOMAIN dict \cup {k} |->
                IF x = k THEN (IF k \in DOMAIN dict THEN dict[k] ELSE 0) + n ELSE dict[x]]
  BY DEF Bump, At, Put, ++

\* What ingest() does with every call it resolves.
Counted(call, api, n) ==
    /\ hostRate' = Spend(hostRate, api, call.n, now)
    /\ callCounts' = Bump(callCounts, api, call.n)
    /\ total' = total + call.n
    /\ suppressed' = suppressed + (call.n - n)

\* ingest(): a name nobody knows, a call that is logged, or one that is only
\* counted; the calls logged are among those received.
LEMMA IngestCases ==
  ASSUME AgentKept, EngineKept, NEW call \in Reports, NEW st, Ingest(call, st)
  PROVE  \/ UNCHANGED engineVars
         \/ \E api \in Apis : \E n \in 0..call.n :
               /\ Counted(call, api, n)
               /\ (n > 0 /\ Log(call, api, n, st)) \/ (n = 0 /\ Suppress)
  <1>1. call.n \in Nat \ {0}
    BY DEF Reports
  <1>2. CASE Resolved(call.raw) = {}
    BY <1>2, Zenon DEF Ingest
  <1>3. CASE Resolved(call.raw) # {}
    <2>1. PICK api \in Resolved(call.raw) :
            LET n == Within(hostRate, api, call.n, now)
            IN  /\ Counted(call, api, n)
                /\ IF n > 0 THEN Log(call, api, n, st) ELSE Suppress
      BY <1>3, Zenon DEF Ingest, Counted
    <2> DEFINE n == Within(hostRate, api, call.n, now)
    <2>2. api \in Apis
      BY ResolvedAreApis
    <2>3. n \in 0..call.n
      <3>1. now \in Nat /\ IsRates(hostRate, now) /\ call.n \in Nat
        BY <1>1 DEF AgentKept, EngineKept
      <3> QED
        BY <2>2, <3>1, WithinBounds
    <2>4. /\ Counted(call, api, n)
          /\ (n > 0 /\ Log(call, api, n, st)) \/ (n = 0 /\ Suppress)
      BY <2>1, <2>3
    <2> HIDE DEF n
    <2> QED
      BY <2>2, <2>3, <2>4
  <1> QED
    BY <1>2, <1>3

\* Whatever is logged, the rules it matches are rules of the book.
LEMMA CandidatesAreRules ==
  ASSUME NEW trigger, NEW history, trigger.api \in Apis
  PROVE  Candidates(trigger, history) \subseteq RuleBook
  BY DEF Candidates, RulesEndingIn

\* What logging a call does to the chains, given the rules it completes.
Chained(candidates, call, st) ==
    LET new == Emissions(candidates, call.pid, call.at)
    IN  /\ DOMAIN chainCounts' = DOMAIN chainCounts \cup {r.id : r \in candidates}
        /\ emitted' = [k \in {<<r.id, call.pid>> : r \in new} |-> call.at] ++ emitted
        /\ chains' = chains \cup
              {[rule |-> r.id, severity |-> r.severity, pid |-> call.pid,
                at |-> call.at, stage |-> st] : r \in new}

\* Logging does that, for some rules of the book.
LEMMA LogChains ==
  ASSUME NEW call, NEW api \in Apis, NEW n, NEW st, Log(call, api, n, st)
  PROVE  \E candidates \in SUBSET RuleBook : Chained(candidates, call, st)
  <1> DEFINE seen == Decode(call, api, n)
  <1> DEFINE candidates == Candidates(seen, Front(window'[call.pid]))
  <1>1. seen.api = api
    BY DEF Decode
  <1>2. candidates \in SUBSET RuleBook
    BY <1>1, CandidatesAreRules
  <1>3. MatchChains(call, seen, st, n)
    BY Zenon DEF Log
  <1> HIDE DEF seen
  <1> QED
    BY <1>2, <1>3 DEF MatchChains, Chained

\* Counting a call keeps the engine's counters.
LEMMA CountedKeeps ==
  ASSUME AgentKept, EngineKept, NEW call \in Reports, NEW api \in Apis,
         NEW n \in 0..call.n, Counted(call, api, n), now' = now
  PROVE  /\ IsRates(hostRate, now)'
         /\ DOMAIN hostRate' = DOMAIN callCounts'
         /\ DOMAIN callCounts' \subseteq Apis
         /\ \A a \in DOMAIN callCounts' : callCounts'[a] \in Nat \ {0}
         /\ total' \in Nat /\ total' > total /\ n <= total' - total
         /\ suppressed' \in 0..total'
  <1>1. call.n \in Nat \ {0} /\ now \in Nat
    BY DEF Reports, AgentKept
  <1>2. /\ IsRates(Spend(hostRate, api, call.n, now), now)
        /\ DOMAIN Spend(hostRate, api, call.n, now) = DOMAIN hostRate \cup {api}
    <2>1. IsRates(hostRate, now) /\ call.n \in Nat /\ now <= now
      BY <1>1 DEF EngineKept
    <2>2. IsRates(Spend(hostRate, api, call.n, now), now)
      BY <1>1, <2>1, SpendKeepsRates
    <2>3. DOMAIN Spend(hostRate, api, call.n, now) = DOMAIN hostRate \cup {api}
      BY DEF Spend, ++
    <2> QED
      BY <2>2, <2>3
  <1>3. IsRates(hostRate, now)' /\ DOMAIN hostRate' = DOMAIN hostRate \cup {api}
    BY <1>2 DEF Counted, IsRates
  <1>4. callCounts' = [a \in DOMAIN callCounts \cup {api} |->
                         IF a = api
                         THEN (IF api \in DOMAIN callCounts THEN callCounts[api] ELSE 0) + call.n
                         ELSE callCounts[a]]
    BY BumpIs, Zenon DEF Counted
  <1>5. \A a \in DOMAIN callCounts' : callCounts'[a] \in Nat \ {0}
    BY <1>1, <1>4 DEF EngineKept
  <1>6. total' \in Nat /\ total' > total /\ n <= total' - total /\ suppressed' \in 0..total'
    BY <1>1 DEF Counted, EngineKept
  <1> QED
    BY <1>3, <1>4, <1>5, <1>6 DEF EngineKept

\* A rule's identifier is one of the book's, and only its own.
LEMMA RuleIdsAreUnique ==
  /\ \A r \in RuleBook : r.id \in RuleIds /\ r.window \in Nat
  /\ \A r \in RuleBook : \A s \in RuleBook : r.id = s.id => r = s
  BY EngineAssumption DEF RuleIds

\* Emitting chains keeps a rule's chains of one process a window apart.
LEMMA EmittingKeepsChains ==
  ASSUME ChainsKept, NEW call, call.at \in Nat, NEW st,
         NEW candidates \in SUBSET RuleBook, Chained(candidates, call, st)
  PROVE  ChainsKept'
  <1> DEFINE pid == call.pid
  <1> DEFINE at == call.at
  <1> DEFINE new == Emissions(candidates, pid, at)
  <1> DEFINE Chain(r) == [rule |-> r.id, severity |-> r.severity, pid |-> pid,
                          at |-> at, stage |-> st]
  <1> DEFINE Keys == {<<r.id, pid>> : r \in new}
  <1>1. /\ \A r \in new : r \in RuleBook
        /\ \A r \in new : <<r.id, pid>> \in DOMAIN emitted
                            => at - emitted[<<r.id, pid>>] >= r.window
    BY DEF Emissions, Fresh
  <1>2. /\ DOMAIN emitted' = Keys \cup DOMAIN emitted
        /\ \A k \in Keys : emitted'[k] = at
        /\ \A k \in DOMAIN emitted \ Keys : emitted'[k] = emitted[k]
    BY DEF Chained, ++
  <1>3. chains' = chains \cup {Chain(r) : r \in new} /\ at \in Nat
    BY Zenon DEF Chained
  <1> HIDE DEF new
  <1>4. \A k \in DOMAIN emitted : k \in Keys => emitted[k] <= at
    <2> SUFFICES ASSUME NEW r \in new, <<r.id, pid>> \in DOMAIN emitted
                 PROVE  emitted[<<r.id, pid>>] <= at
      OBVIOUS
    <2>1. at - emitted[<<r.id, pid>>] >= r.window /\ r.window \in Nat
      BY <1>1, RuleIdsAreUnique
    <2>2. emitted[<<r.id, pid>>] \in Nat
      BY DEF ChainsKept
    <2> QED
      BY <2>1, <2>2
  <1>5. \A k \in DOMAIN emitted' : emitted'[k] \in Nat
    BY <1>2 DEF ChainsKept
  <1>6. \A c \in chains' : /\ c.at \in Nat
                           /\ <<c.rule, c.pid>> \in DOMAIN emitted'
                           /\ c.at <= emitted'[<<c.rule, c.pid>>]
    <2> SUFFICES ASSUME NEW c \in chains'
                 PROVE  /\ c.at \in Nat
                        /\ <<c.rule, c.pid>> \in DOMAIN emitted'
                        /\ c.at <= emitted'[<<c.rule, c.pid>>]
      OBVIOUS
    <2>1. CASE c \in chains
      <3>1. /\ c.at \in Nat
            /\ <<c.rule, c.pid>> \in DOMAIN emitted
            /\ c.at <= emitted[<<c.rule, c.pid>>]
            /\ emitted[<<c.rule, c.pid>>] \in Nat
        BY <2>1 DEF ChainsKept
      <3>2. CASE <<c.rule, c.pid>> \in Keys
        <4>1. emitted[<<c.rule, c.pid>>] <= at /\ emitted'[<<c.rule, c.pid>>] = at
          BY <1>2, <1>4, <3>1, <3>2
        <4> QED
          BY <1>2, <3>1, <4>1
      <3>3. CASE <<c.rule, c.pid>> \notin Keys
        <4>1. emitted'[<<c.rule, c.pid>>] = emitted[<<c.rule, c.pid>>]
          BY <1>2, <3>1, <3>3
        <4> QED
          BY <1>2, <3>1, <4>1
      <3> QED
        BY <3>2, <3>3
    <2>2. CASE c \notin chains
      <3>1. PICK r \in new : c = Chain(r)
        BY <1>3, <2>2
      <3>2. c.rule = r.id /\ c.pid = pid /\ c.at = at
        BY <3>1
      <3>3. <<c.rule, c.pid>> \in Keys
        BY <3>2
      <3> QED
        BY <1>2, <3>2, <3>3
    <2> QED
      BY <2>1, <2>2
  <1>7. ChainsSpaced'
    <2> SUFFICES ASSUME NEW r \in RuleBook, NEW c \in chains', NEW d \in chains',
                        c # d, c.rule = r.id, d.rule = r.id, c.pid = d.pid, c.at <= d.at
                 PROVE  d.at - c.at >= r.window
      BY DEF ChainsSpaced
    <2>1. CASE c \in chains /\ d \in chains
      BY <2>1, Zenon DEF ChainsKept, ChainsSpaced
    <2>2. ASSUME NEW e \in chains, NEW q \in new, e.rule = r.id, q.id = r.id, e.pid = pid
          PROVE  e.at \in Nat /\ at - e.at >= r.window
      <3>1. q = r
        BY <1>1, <2>2, RuleIdsAreUnique
      <3>2. <<r.id, pid>> \in DOMAIN emitted /\ e.at <= emitted[<<r.id, pid>>]
            /\ e.at \in Nat /\ emitted[<<r.id, pid>>] \in Nat
        BY <2>2 DEF ChainsKept
      <3>3. at - emitted[<<r.id, pid>>] >= r.window
        BY <1>1, <3>1, <3>2
      <3> QED
        BY <3>2, <3>3, RuleIdsAreUnique
    <2>3. CASE c \in chains /\ d \notin chains
      <3>1. PICK q \in new : d = Chain(q)
        BY <1>3, <2>3
      <3>2. d.rule = q.id /\ d.pid = pid /\ d.at = at
        BY <3>1
      <3> QED
        BY <2>2, <2>3, <3>2
    <2>4. CASE c \notin chains /\ d \in chains
      <3>1. PICK q \in new : c = Chain(q)
        BY <1>3, <2>4
      <3>2. c.rule = q.id /\ c.pid = pid /\ c.at = at
        BY <3>1
      <3>3. d.at \in Nat /\ at - d.at >= r.window
        BY <2>2, <2>4, <3>2
      <3> QED
        BY <3>2, <3>3, RuleIdsAreUnique
    <2>5. CASE c \notin chains /\ d \notin chains
      <3>1. PICK q \in new : c = Chain(q)
        BY <1>3, <2>5
      <3>2. PICK o \in new : d = Chain(o)
        BY <1>3, <2>5
      <3>3. q.id = r.id /\ o.id = r.id
        BY <3>1, <3>2
      <3>4. q = o
        BY <1>1, <3>3, RuleIdsAreUnique
      <3> QED
        BY <3>1, <3>2, <3>4
    <2> QED
      BY <2>1, <2>3, <2>4, <2>5
  <1> QED
    BY <1>5, <1>6, <1>7 DEF ChainsKept

\* Whatever ingest() does with a call, the engine stays in order.
LEMMA IngestKeepsEngine ==
  ASSUME AgentKept, EngineKept, ChainsKept, NEW call \in Reports, NEW st,
         Ingest(call, st), now' = now
  PROVE  EngineKept' /\ ChainsKept'
  <1>1. CASE UNCHANGED engineVars
    <2>1. EngineKept'
      BY <1>1 DEF EngineKept, IsRates, engineVars
    <2>2. ChainsKept'
      BY <1>1 DEF ChainsKept, ChainsSpaced, engineVars
    <2> QED
      BY <2>1, <2>2
  <1>2. ASSUME NEW api \in Apis, NEW n \in 0..call.n, Counted(call, api, n), Suppress
        PROVE  EngineKept' /\ ChainsKept'
    <2>1. ChainsKept'
      BY <1>2 DEF ChainsKept, ChainsSpaced, Suppress
    <2>2. DOMAIN chainCounts' \subseteq RuleIds
      BY <1>2 DEF EngineKept, Suppress
    <2> QED
      BY <1>2, <2>1, <2>2, CountedKeeps DEF EngineKept
  <1>3. ASSUME NEW api \in Apis, NEW n \in 0..call.n, Counted(call, api, n),
               Log(call, api, n, st)
        PROVE  EngineKept' /\ ChainsKept'
    <2>1. PICK candidates \in SUBSET RuleBook :
            Chained(candidates, call, st)
      BY <1>3, LogChains
    <2>2. DOMAIN chainCounts' \subseteq RuleIds
      BY <2>1, RuleIdsAreUnique DEF EngineKept, Chained
    <2>3. ChainsKept'
      <3>1. call.at \in Nat
        BY DEF Reports
      <3> QED
        BY <2>1, <3>1, EmittingKeepsChains
    <2> QED
      BY <1>3, <2>2, <2>3, CountedKeeps DEF EngineKept
  <1> QED
    BY <1>1, <1>2, <1>3, IngestCases

-----------------------------------------------------------------------------
(* The ledger *)

\* The counters of a stage by API, out of any table of counters.
OfStage(counts, s) ==
    [a \in {k[2] : k \in {x \in DOMAIN counts : x[1] = s}} |-> counts[<<s, a>>]]

\* What they are, and that there are finitely many of them.
LEMMA OfStageIs ==
  ASSUME NEW counts, NEW stages, DOMAIN counts \subseteq stages \X Apis, NEW s,
         IsFiniteSet(DOMAIN counts), \A k \in DOMAIN counts : counts[k] \in Nat
  PROVE  /\ DOMAIN OfStage(counts, s) = {a \in Apis : <<s, a>> \in DOMAIN counts}
         /\ \A a \in DOMAIN OfStage(counts, s) : /\ OfStage(counts, s)[a] = counts[<<s, a>>]
                                                 /\ OfStage(counts, s)[a] \in Nat
         /\ IsFiniteSet(DOMAIN OfStage(counts, s))
  <1> DEFINE Keys == {x \in DOMAIN counts : x[1] = s}
  <1> DEFINE Names == {a \in Apis : <<s, a>> \in DOMAIN counts}
  <1>1. \A k \in Keys : k[2] \in Names
    OBVIOUS
  <1>2. \A a \in Names : <<s, a>> \in Keys
    OBVIOUS
  <1>3. DOMAIN OfStage(counts, s) = Names
    BY <1>1, <1>2 DEF OfStage
  <1>4. \A a \in Names : OfStage(counts, s)[a] = counts[<<s, a>>]
    BY <1>3 DEF OfStage
  <1>5. IsFiniteSet(Names)
    <2> DEFINE f == [k \in Keys |-> k[2]]
    <2>1. IsFiniteSet(Keys)
      BY FS_Subset
    <2>2. f \in Surjection(Keys, Names)
      BY <1>1, <1>2 DEF Surjection
    <2> HIDE DEF f, Keys, Names
    <2> QED
      BY <2>1, <2>2, FS_Surjection
  <1> QED
    BY <1>3, <1>4, <1>5

\* ByApi is that, for the engine's own counters.
LEMMA ByApiIs ==
  \A s : ByApi(s) = OfStage(stageCounts, s) /\ ByApi(s)' = OfStage(stageCounts', s)
  BY DEF ByApi, OfStage

\* A part that grows by no more than the whole stays below it.
LEMMA StillBelow ==
  ASSUME NEW part \in Nat, NEW newPart \in Nat, NEW n \in Nat,
         NEW whole \in Nat, NEW newWhole \in Nat, NEW start \in Nat,
         newPart <= part + n, part <= whole - start, n <= newWhole - whole
  PROVE  newPart <= newWhole - start
  OBVIOUS

\* A call that counts for the open stage keeps the ledger: it raises the total
\* by no less than the counter of its API.
LEMMA CountingKeepsLedger ==
  ASSUME EngineKept, LedgerKept, UNCHANGED <<stage, startChains, startCalls, rollups>>,
         NEW api \in Apis, NEW n \in Nat, total' \in Nat, total' > total, n <= total' - total,
         \/ stageCounts' = stageCounts
         \/ stage # NoStage /\ stageCounts' = Bump(stageCounts, <<stage, api>>, n),
         NEW new, chains' = chains \cup new, \A c \in new : c.stage = stage
  PROVE  LedgerKept'
  <1> DEFINE stages == (DOMAIN rollups \cup {stage}) \ {NoStage}
  <1>1. NoStage \notin StageNames
    BY SampleAssumption
  <1>2. /\ startCalls \in 0..total /\ total \in Nat
        /\ stage # NoStage => OpenStage
        /\ DOMAIN rollups \subseteq StageNames \ {stage}
        /\ IsFiniteSet(DOMAIN stageCounts)
        /\ DOMAIN stageCounts \subseteq stages \X Apis
        /\ \A k \in DOMAIN stageCounts : stageCounts[k] \in Nat
    BY DEF LedgerKept, EngineKept
  <1>3. /\ IsFiniteSet(DOMAIN stageCounts')
        /\ DOMAIN stageCounts' \subseteq stages \X Apis
        /\ \A k \in DOMAIN stageCounts' : stageCounts'[k] \in Nat
        /\ \A k \in DOMAIN stageCounts' : k[1] # stage =>
              k \in DOMAIN stageCounts /\ stageCounts'[k] = stageCounts[k]
        /\ DOMAIN stageCounts \subseteq DOMAIN stageCounts'
    <2>1. CASE stageCounts' = stageCounts
      BY <1>2, <2>1
    <2>2. CASE stage # NoStage /\ stageCounts' = Bump(stageCounts, <<stage, api>>, n)
      <3>1. stageCounts' = [k \in DOMAIN stageCounts \cup {<<stage, api>>} |->
                              IF k = <<stage, api>>
                              THEN (IF <<stage, api>> \in DOMAIN stageCounts
                                    THEN stageCounts[<<stage, api>>] ELSE 0) + n
                              ELSE stageCounts[k]]
        BY <2>2, BumpIs, Zenon
      <3>2. <<stage, api>> \in stages \X Apis
        BY <2>2
      <3>3. IsFiniteSet(DOMAIN stageCounts \cup {<<stage, api>>})
        BY <1>2, FS_AddElement
      <3> HIDE DEF stages
      <3> QED
        BY <1>2, <3>1, <3>2, <3>3
    <2> QED
      BY <2>1, <2>2
  <1>4. \A s : s # stage => ByApi(s)' = ByApi(s)
    <2> SUFFICES ASSUME NEW s, s # stage
                 PROVE  OfStage(stageCounts', s) = OfStage(stageCounts, s)
      BY ByApiIs
    <2>1. {x \in DOMAIN stageCounts' : x[1] = s} = {x \in DOMAIN stageCounts : x[1] = s}
      BY <1>3
    <2>2. \A k \in {x \in DOMAIN stageCounts : x[1] = s} :
             k = <<s, k[2]>> /\ stageCounts'[<<s, k[2]>>] = stageCounts[<<s, k[2]>>]
      BY <1>2, <1>3
    <2> QED
      BY <2>1, <2>2 DEF OfStage
  <1>5. ASSUME stage # NoStage
        PROVE  CallsIn(ByApi(stage))' <= total' - startCalls
    <2> DEFINE f == OfStage(stageCounts, stage)
    <2> DEFINE g == OfStage(stageCounts', stage)
    <2>1. /\ DOMAIN f = {a \in Apis : <<stage, a>> \in DOMAIN stageCounts}
          /\ \A a \in DOMAIN f : f[a] = stageCounts[<<stage, a>>] /\ f[a] \in Nat
          /\ IsFiniteSet(DOMAIN f)
      BY <1>2, OfStageIs
    <2>2. /\ DOMAIN g = {a \in Apis : <<stage, a>> \in DOMAIN stageCounts'}
          /\ \A a \in DOMAIN g : g[a] = stageCounts'[<<stage, a>>]
      <3>1. /\ IsFiniteSet(DOMAIN stageCounts')
            /\ DOMAIN stageCounts' \subseteq stages \X Apis
            /\ \A k \in DOMAIN stageCounts' : stageCounts'[k] \in Nat
        BY <1>3
      <3> HIDE DEF stages
      <3> QED
        BY ONLY <3>1, OfStageIs DEF g
    <2>3. CallsIn(f) \in Nat
      <3> HIDE DEF f
      <3> QED
        BY <2>1, SumIsNat, CallsInIsSum
    <2>4. ASSUME stageCounts' = stageCounts PROVE CallsIn(g) = CallsIn(f)
      BY <2>3, <2>4
    <2>5. ASSUME stageCounts' = Bump(stageCounts, <<stage, api>>, n)
          PROVE  CallsIn(g) = CallsIn(f) + n
      <3>1. stageCounts' = [k \in DOMAIN stageCounts \cup {<<stage, api>>} |->
                              IF k = <<stage, api>>
                              THEN (IF <<stage, api>> \in DOMAIN stageCounts
                                    THEN stageCounts[<<stage, api>>] ELSE 0) + n
                              ELSE stageCounts[k]]
        BY <2>5, BumpIs, Zenon
      <3> HIDE DEF f, g
      <3>2. /\ DOMAIN g = DOMAIN f \cup {api}
            /\ \A a \in DOMAIN f \ {api} : g[a] = f[a]
            /\ g[api] = (IF api \in DOMAIN f THEN f[api] ELSE 0) + n
        <4>1. \A a : <<stage, a>> \in DOMAIN stageCounts'
                        <=> <<stage, a>> \in DOMAIN stageCounts \/ a = api
          BY <3>1
        <4>2. DOMAIN g = DOMAIN f \cup {api}
          BY <2>1, <2>2, <4>1
        <4> QED
          BY <2>1, <2>2, <3>1, <4>2
      <3>3. IsFiniteSet(DOMAIN f) /\ \A a \in DOMAIN f : f[a] \in Nat
        BY <2>1
      <3> QED
        BY ONLY <3>2, <3>3, n \in Nat, CallsInAfterBump
    <2>6. CallsIn(g) <= CallsIn(f) + n /\ CallsIn(g) \in Nat
      BY <2>3, <2>4, <2>5
    <2>7. CallsIn(f) <= total - startCalls
      BY <1>2, <1>5, ByApiIs DEF OpenStage, f
    <2>8. CallsIn(ByApi(stage))' = CallsIn(g)
      <3>1. ByApi(stage)' = g
        BY ByApiIs DEF g
      <3> QED
        BY <3>1
    <2>9. startCalls \in Nat /\ total \in Nat
      BY <1>2
    <2> HIDE DEF f, g
    <2>10. CallsIn(g) <= total' - startCalls
      BY <2>3, <2>6, <2>7, <2>9, StillBelow
    <2> QED
      BY <2>8, <2>10
  <1>6. (stage # NoStage => OpenStage)'
    <2> SUFFICES ASSUME stage # NoStage PROVE OpenStage'
      OBVIOUS
    <2>1. OpenStage /\ startChains \subseteq chains
      BY <1>2 DEF LedgerKept
    <2>2. \A c \in chains' : c.stage = stage <=> c \notin startChains
      BY <2>1 DEF OpenStage
    <2>3. total' > startCalls
      BY <1>2
    <2> QED
      BY <1>5, <2>2, <2>3 DEF OpenStage
  <1>7. \A s \in DOMAIN rollups : Balanced(s)'
    <2> SUFFICES ASSUME NEW s \in DOMAIN rollups PROVE Balanced(s)'
      OBVIOUS
    <2>1. s # stage /\ Balanced(s)
      BY <1>2 DEF LedgerKept
    <2>2. {c \in chains' : c.stage = s} = {c \in chains : c.stage = s}
      BY <2>1
    <2>3. ByApi(s)' = ByApi(s)
      BY <1>4, <2>1
    <2> QED
      BY <2>1, <2>2, <2>3 DEF Balanced
  <1>8. \A c \in chains' : c.stage \in DOMAIN rollups \cup {NoStage, stage}
    BY DEF LedgerKept
  <1>9. startCalls \in 0..total' /\ startChains \subseteq chains'
    BY <1>2 DEF LedgerKept
  <1> QED
    BY <1>2, <1>3, <1>6, <1>7, <1>8, <1>9 DEF LedgerKept

\* What touches neither the counters, the chains nor the stage keeps the ledger.
LEMMA LedgerStays ==
  ASSUME LedgerKept,
         UNCHANGED <<chains, total, stageCounts, stage, startChains, startCalls, rollups>>
  PROVE  LedgerKept'
  <1>1. \A s : ByApi(s)' = ByApi(s)
    BY ByApiIs
  <1>2. (stage # NoStage => OpenStage)'
    <2>1. ByApi(stage)' = ByApi(stage)
      BY <1>1
    <2> QED
      BY <2>1 DEF LedgerKept, OpenStage
  <1>3. \A s \in DOMAIN rollups : Balanced(s)'
    BY <1>1 DEF LedgerKept, Balanced
  <1> QED
    BY <1>2, <1>3 DEF LedgerKept

\* Whatever ingest() does with a call, the ledger is kept.
LEMMA IngestKeepsLedger ==
  ASSUME AgentKept, EngineKept, LedgerKept, NEW call \in Reports, Ingest(call, stage),
         now' = now, UNCHANGED <<stage, startChains, startCalls, rollups>>
  PROVE  LedgerKept'
  <1>1. CASE UNCHANGED engineVars
    BY <1>1, LedgerStays DEF engineVars
  <1>2. ASSUME NEW api \in Apis, NEW n \in 0..call.n, Counted(call, api, n), Suppress
        PROVE  LedgerKept'
    <2>1. total' \in Nat /\ total' > total /\ n <= total' - total /\ n \in Nat
      BY <1>2, CountedKeeps DEF Reports
    <2>2. stageCounts' = stageCounts /\ chains' = chains
      BY <1>2 DEF Suppress
    <2> DEFINE new == {}
    <2>3. chains' = chains \cup new /\ \A c \in new : c.stage = stage
      BY <2>2
    <2> HIDE DEF new
    <2> QED
      BY <2>1, <2>2, <2>3, CountingKeepsLedger
  <1>3. ASSUME NEW api \in Apis, NEW n \in 0..call.n, Counted(call, api, n),
               Log(call, api, n, stage)
        PROVE  LedgerKept'
    <2>1. total' \in Nat /\ total' > total /\ n <= total' - total /\ n \in Nat
      BY <1>3, CountedKeeps DEF Reports
    <2>2. \/ stageCounts' = stageCounts
          \/ stage # NoStage /\ stageCounts' = Bump(stageCounts, <<stage, api>>, n)
      BY <1>3, Zenon DEF Log, NoStage
    <2>3. PICK candidates : Chained(candidates, call, stage)
      BY <1>3, LogChains
    <2> DEFINE new == {[rule |-> r.id, severity |-> r.severity, pid |-> call.pid,
                        at |-> call.at, stage |-> stage] :
                         r \in Emissions(candidates, call.pid, call.at)}
    <2>4. chains' = chains \cup new
      BY <2>3, Zenon DEF Chained
    <2>5. \A c \in new : c.stage = stage
      OBVIOUS
    <2> HIDE DEF new
    <2> QED
      BY <2>1, <2>2, <2>4, <2>5, CountingKeepsLedger
  <1> QED
    BY <1>1, <1>2, <1>3, IngestCases

\* Entering a stage keeps the ledger: nothing was counted or found for it yet.
LEMMA EnterKeepsLedger ==
  ASSUME EngineKept, LedgerKept, NEW s \in StageNames, EnterStage(s)
  PROVE  LedgerKept'
  <1>1. /\ stage = NoStage /\ s \notin DOMAIN rollups /\ s # NoStage
        /\ stage' = s /\ startChains' = chains /\ startCalls' = total
        /\ UNCHANGED <<chains, total, stageCounts, rollups>>
    BY SampleAssumption DEF EnterStage, engineVars
  <1>2. total \in Nat
    BY DEF EngineKept
  <1>3. \A t : ByApi(t)' = ByApi(t)
    BY <1>1, ByApiIs
  <1>4. CallsIn(ByApi(s)) = 0
    <2>1. ByApi(s) = OfStage(stageCounts, s)
      BY ByApiIs
    <2>2. DOMAIN ByApi(s) = {}
      <3>1. \A k \in DOMAIN stageCounts : k[1] # s
        BY <1>1 DEF LedgerKept
      <3> QED
        BY <2>1, <3>1 DEF OfStage
    <2>3. Sum(ByApi(s), {}) = 0
      BY SumUnfolds, FS_EmptySet
    <2> QED
      BY <2>2, <2>3, CallsInIsSum
  <1>5. OpenStage'
    <2>1. \A c \in chains : c.stage # s
      BY <1>1 DEF LedgerKept
    <2>2. ByApi(stage)' = ByApi(s)
      BY <1>1, ByApiIs
    <2> QED
      BY <1>1, <1>2, <1>4, <2>1, <2>2 DEF OpenStage
  <1>6. \A t \in DOMAIN rollups : Balanced(t)'
    BY <1>1, <1>3 DEF LedgerKept, Balanced
  <1>7. DOMAIN stageCounts \subseteq ((DOMAIN rollups \cup {s}) \ {NoStage}) \X Apis
    BY <1>1 DEF LedgerKept
  <1> QED
    BY <1>1, <1>2, <1>5, <1>6, <1>7 DEF LedgerKept

\* Leaving a stage keeps it: the rollup that is made is balanced.
LEMMA ExitKeepsLedger ==
  ASSUME EngineKept, LedgerKept, ExitStage
  PROVE  LedgerKept'
  <1>1. /\ stage # NoStage /\ stage' = NoStage
        /\ rollups' = Put(rollups, stage, Rollup(stage))
        /\ UNCHANGED <<chains, total, stageCounts, startChains, startCalls>>
    BY DEF ExitStage, engineVars
  <1>2. rollups' = [s \in DOMAIN rollups \cup {stage} |->
                      IF s = stage THEN Rollup(stage) ELSE rollups[s]]
    BY <1>1, PutIs, Zenon
  <1>3. \A s : ByApi(s)' = ByApi(s)
    BY <1>1, ByApiIs
  <1>4. \A s \in DOMAIN rollups' : Balanced(s)'
    <2> SUFFICES ASSUME NEW s \in DOMAIN rollups' PROVE Balanced(s)'
      OBVIOUS
    <2>1. CASE s = stage
      <3>1. OpenStage /\ startCalls \in 0..total /\ startChains \subseteq chains /\ total \in Nat
        BY <1>1 DEF LedgerKept, EngineKept
      <3>2. rollups'[s] = Rollup(stage)
        BY <1>2, <2>1
      <3>3. chains \ startChains = {c \in chains : c.stage = stage}
        BY <3>1 DEF OpenStage
      <3>4. /\ Rollup(stage).calls = total - startCalls
            /\ Rollup(stage).chains = {c \in chains : c.stage = stage}
            /\ Rollup(stage).byApi = ByApi(stage)
            /\ Rollup(stage).active <=> total > startCalls \/ chains \ startChains # {}
        BY <3>3 DEF Rollup
      <3>5. chains \ startChains # {} => total > startCalls
        BY <3>1 DEF OpenStage
      <3>6. CallsIn(ByApi(stage)) <= total - startCalls
        BY <3>1 DEF OpenStage
      <3> QED
        BY <1>1, <1>3, <2>1, <3>1, <3>2, <3>3, <3>4, <3>5, <3>6 DEF Balanced
    <2>2. CASE s # stage
      <3>1. s \in DOMAIN rollups /\ rollups'[s] = rollups[s]
        BY <1>2, <2>2
      <3>2. Balanced(s)
        BY <3>1 DEF LedgerKept
      <3> QED
        BY <1>1, <1>3, <3>1, <3>2 DEF Balanced
    <2> QED
      BY <2>1, <2>2
  <1>5. DOMAIN rollups' \subseteq StageNames \ {NoStage}
    BY <1>1, <1>2, SampleAssumption DEF LedgerKept
  <1>6. DOMAIN rollups' = DOMAIN rollups \cup {stage}
    BY <1>2
  <1> QED
    BY <1>1, <1>4, <1>5, <1>6 DEF LedgerKept

-----------------------------------------------------------------------------
(* The invariant *)

\* The engine may look on while time passes.
LEMMA EngineStays ==
  ASSUME AgentKept, EngineKept, ChainsKept, UNCHANGED engineVars,
         now' \in Nat, now <= now'
  PROVE  EngineKept' /\ ChainsKept'
  <1>1. ChainsKept'
    BY DEF ChainsKept, ChainsSpaced, engineVars
  <1>2. IsRates(hostRate, now)'
    BY DEF EngineKept, AgentKept, IsRates, engineVars
  <1> QED
    BY <1>1, <1>2 DEF EngineKept, engineVars

\* Nothing has happened yet.
LEMMA MonitorInvInit == Init => MonitorInv
  <1> SUFFICES ASSUME Init PROVE MonitorInv
    OBVIOUS
  <1>1. AgentKept
    <2>1. todo \in Seq(SampleSteps) /\ platform \in Platforms
      BY SampleAssumption DEF Init, AgentInit
    <2>2. <<>> \in Seq(Reports) /\ <<>> \in Seq(Seq(Reports) \ {NoRecords})
      OBVIOUS
    <2> QED
      BY <2>1, <2>2, AgentAssumption
      DEF Init, AgentInit, AgentKept, IsRates, NoRates, NoRecords
  <1>2. EngineKept
    BY DEF Init, EngineInit, EngineKept, IsRates, NoRates, Empty
  <1>3. ChainsKept
    BY DEF Init, EngineInit, ChainsKept, ChainsSpaced, Empty
  <1>4. LedgerKept
    <2>1. DOMAIN stageCounts = {} /\ DOMAIN rollups = {}
      BY DEF Init, EngineInit, Empty
    <2> QED
      BY <2>1, FS_EmptySet DEF Init, EngineInit, LedgerKept
  <1> QED
    BY <1>1, <1>2, <1>3, <1>4 DEF MonitorInv

\* A step of the sample.
LEMMA SampleKeeps ==
  ASSUME MonitorInv, SampleCalls
  PROVE  MonitorInv'
  <1> DEFINE step == Head(todo)
  <1>1. step \in SampleSteps /\ Tail(todo) \in Seq(SampleSteps)
    BY HeadTailProperties DEF MonitorInv, AgentKept, SampleCalls
  <1>2. /\ now' = now + step.wait /\ Observe(step) /\ todo' = Tail(todo)
        /\ UNCHANGED <<platform, engineVars, monitorVars>>
    BY DEF SampleCalls
  <1> HIDE DEF step
  <1>3. now \in Nat /\ now' \in Nat /\ now <= now'
    BY <1>1, <1>2, SampleAssumption DEF MonitorInv, AgentKept
  <1>4. AgentKept'
    BY <1>1, <1>2, <1>3, ObserveKeeps DEF MonitorInv, AgentKept, monitorVars
  <1>5. EngineKept' /\ ChainsKept'
    BY <1>2, <1>3, EngineStays DEF MonitorInv
  <1>6. LedgerKept'
    BY <1>2, LedgerStays DEF MonitorInv, monitorVars, engineVars
  <1> QED
    BY <1>4, <1>5, <1>6 DEF MonitorInv

\* The agent's timer.
LEMMA TimerKeeps ==
  ASSUME MonitorInv, TimerFires
  PROVE  MonitorInv'
  <1>1. /\ batch # NoRecords /\ now' = now /\ Flush(batch)
        /\ UNCHANGED <<platform, guestRate, engineVars, monitorVars, todo>>
    BY DEF TimerFires, FlushTimer
  <1>2. now \in Nat /\ batch \in Seq(Reports)
    BY DEF MonitorInv, AgentKept
  <1>3. AgentKept'
    <2>1. /\ lastFlush' \in 0..now'
          /\ failedSends' \in 0..MaxFailedSends
          /\ batch' \in Seq(Reports)
          /\ channel' \in Seq(Seq(Reports) \ {NoRecords})
      BY <1>1, <1>2, FlushKeeps DEF MonitorInv
    <2> QED
      BY <1>1, <2>1 DEF MonitorInv, AgentKept, monitorVars, IsRates
  <1>4. EngineKept' /\ ChainsKept'
    BY <1>1, <1>2, EngineStays DEF MonitorInv
  <1>5. LedgerKept'
    BY <1>1, LedgerStays DEF MonitorInv, monitorVars, engineVars
  <1> QED
    BY <1>3, <1>4, <1>5 DEF MonitorInv

\* A batch arrives.
LEMMA ReceiveKeeps ==
  ASSUME MonitorInv, ReceiveBatch
  PROVE  MonitorInv'
  <1>1. /\ channel # <<>> /\ pending' = Head(channel) /\ channel' = Tail(channel)
        /\ UNCHANGED <<platform, now, guestRate, batch, lastFlush, failedSends, engineVars,
                       stage, startChains, startCalls, rollups, todo>>
    BY DEF ReceiveBatch
  <1>2. now \in Nat
    BY DEF MonitorInv, AgentKept
  <1>3. AgentKept'
    <2>1. /\ Head(channel) \in Seq(Reports) \ {NoRecords}
          /\ Tail(channel) \in Seq(Seq(Reports) \ {NoRecords})
      BY <1>1, HeadTailProperties DEF MonitorInv, AgentKept
    <2> QED
      BY <1>1, <2>1 DEF MonitorInv, AgentKept, IsRates
  <1>4. EngineKept' /\ ChainsKept'
    BY <1>1, <1>2, EngineStays DEF MonitorInv
  <1>5. LedgerKept'
    BY <1>1, LedgerStays DEF MonitorInv, engineVars
  <1> QED
    BY <1>3, <1>4, <1>5 DEF MonitorInv

\* A call of the batch is ingested.
LEMMA IngestNextKeeps ==
  ASSUME MonitorInv, IngestNext
  PROVE  MonitorInv'
  <1> DEFINE call == Head(pending)
  <1>1. call \in Reports /\ Tail(pending) \in Seq(Reports)
    BY HeadTailProperties DEF MonitorInv, AgentKept, IngestNext
  <1>2. /\ Ingest(call, stage) /\ pending' = Tail(pending)
        /\ UNCHANGED <<agentVars, stage, startChains, startCalls, rollups, todo>>
    BY DEF IngestNext
  <1> HIDE DEF call
  <1>3. now' = now
    BY <1>2 DEF agentVars
  <1>4. AgentKept'
    BY <1>1, <1>2 DEF MonitorInv, AgentKept, agentVars, IsRates
  <1>5. EngineKept' /\ ChainsKept'
    BY <1>1, <1>2, <1>3, IngestKeepsEngine DEF MonitorInv
  <1>6. LedgerKept'
    BY <1>1, <1>2, <1>3, IngestKeepsLedger DEF MonitorInv
  <1> QED
    BY <1>4, <1>5, <1>6 DEF MonitorInv

\* The pipeline moves on: only the ledger hears of it.
LEMMA StageKeeps ==
  ASSUME MonitorInv, LedgerKept', UNCHANGED <<agentVars, engineVars, pending, todo>>
  PROVE  MonitorInv'
  <1>1. now \in Nat /\ now' = now
    BY DEF MonitorInv, AgentKept, agentVars
  <1>2. AgentKept'
    BY DEF MonitorInv, AgentKept, agentVars, IsRates
  <1>3. EngineKept' /\ ChainsKept'
    BY <1>1, EngineStays DEF MonitorInv
  <1> QED
    BY <1>2, <1>3 DEF MonitorInv

\* Every step keeps the invariant.
LEMMA MonitorInvStep == MonitorInv /\ [Next]_vars => MonitorInv'
  <1> SUFFICES ASSUME MonitorInv, [Next]_vars PROVE MonitorInv'
    OBVIOUS
  <1>1. CASE SampleCalls
    BY <1>1, SampleKeeps
  <1>2. CASE TimerFires
    BY <1>2, TimerKeeps
  <1>3. CASE ReceiveBatch
    BY <1>3, ReceiveKeeps
  <1>4. CASE IngestNext
    BY <1>4, IngestNextKeeps
  <1>5. ASSUME NEW s \in StageNames, EnterStage(s)
        PROVE  MonitorInv'
    <2>1. LedgerKept'
      BY <1>5, EnterKeepsLedger DEF MonitorInv
    <2> QED
      BY <1>5, <2>1, StageKeeps DEF EnterStage, historyVars
  <1>6. CASE ExitStage
    <2>1. LedgerKept'
      BY <1>6, ExitKeepsLedger DEF MonitorInv
    <2> QED
      BY <1>6, <2>1, StageKeeps DEF ExitStage, historyVars
  <1>7. CASE UNCHANGED vars
    <2>1. LedgerKept'
      BY <1>7, LedgerStays DEF MonitorInv, vars, engineVars, monitorVars
    <2> QED
      BY <1>7, <2>1, StageKeeps DEF vars, monitorVars
  <1> QED
    BY <1>1, <1>2, <1>3, <1>4, <1>5, <1>6, <1>7 DEF Next

\* What the invariant says of the types, the ledger and the chains.
LEMMA MonitorInvSays == MonitorInv => TypeOK /\ StageLedger /\ ChainsSpaced
  <1> SUFFICES ASSUME MonitorInv PROVE TypeOK /\ StageLedger /\ ChainsSpaced
    OBVIOUS
  <1>1. TypeOK
    <2>1. \A a \in DOMAIN guestRate : guestRate[a].start \in 0..now
      BY DEF MonitorInv, AgentKept, IsRates
    <2>2. \A i \in DOMAIN channel : channel[i] # NoRecords
      BY DEF MonitorInv, AgentKept
    <2> QED
      BY <2>1, <2>2 DEF MonitorInv, AgentKept, EngineKept, LedgerKept, TypeOK
  <1>2. StageLedger
    <2> SUFFICES ASSUME NEW s \in DOMAIN rollups
                 PROVE  /\ rollups[s].chains = {c \in chains : c.stage = s}
                        /\ \A a \in Apis : At(rollups[s].byApi, a, 0)
                                             = At(stageCounts, <<s, a>>, 0)
                        /\ rollups[s].calls >= CallsIn(rollups[s].byApi)
                        /\ rollups[s].active <=> rollups[s].calls > 0
                        /\ StageFindings(s) # {} => rollups[s].active
      BY DEF StageLedger
    <2>1. Balanced(s)
      BY DEF MonitorInv, LedgerKept
    <2> DEFINE stages == (DOMAIN rollups \cup {stage}) \ {NoStage}
    <2>2. /\ IsFiniteSet(DOMAIN stageCounts) /\ DOMAIN stageCounts \subseteq stages \X Apis
          /\ \A k \in DOMAIN stageCounts : stageCounts[k] \in Nat
      BY DEF MonitorInv, LedgerKept
    <2> DEFINE f == OfStage(stageCounts, s)
    <2>3. rollups[s].byApi = f
      BY <2>1, ByApiIs DEF Balanced
    <2>4. /\ DOMAIN f = {a \in Apis : <<s, a>> \in DOMAIN stageCounts}
          /\ \A a \in DOMAIN f : f[a] = stageCounts[<<s, a>>] /\ f[a] \in Nat
          /\ IsFiniteSet(DOMAIN f)
      <3> HIDE DEF stages
      <3> QED
        BY <2>2, OfStageIs
    <2>5. \A a \in Apis : At(rollups[s].byApi, a, 0) = At(stageCounts, <<s, a>>, 0)
      <3> SUFFICES ASSUME NEW a \in Apis PROVE At(f, a, 0) = At(stageCounts, <<s, a>>, 0)
        BY <2>3
      <3>1. a \in DOMAIN f <=> <<s, a>> \in DOMAIN stageCounts
        BY <2>4
      <3> HIDE DEF f
      <3> QED
        BY <2>4, <3>1 DEF At
    <2>6. CallsIn(rollups[s].byApi) \in Nat
      <3> HIDE DEF f
      <3>1. CallsIn(f) \in Nat
        BY <2>4, SumIsNat, CallsInIsSum
      <3> QED
        BY <2>3, <3>1
    <2>7. StageFindings(s) # {} => rollups[s].active
      BY <2>1 DEF Balanced, StageFindings
    <2> QED
      BY <2>1, <2>5, <2>6, <2>7 DEF Balanced
  <1>3. ChainsSpaced
    BY DEF MonitorInv, ChainsKept
  <1> QED
    BY <1>1, <1>2, <1>3

\* Every reachable state satisfies the invariant.
LEMMA MonitorInvHolds == Spec => []MonitorInv
  BY MonitorInvInit, MonitorInvStep, PTL DEF Spec

-----------------------------------------------------------------------------
(* The theorems *)

\* Whatever the samples do and however batches fill, fail and wait: the types
\* hold, no empty batch is on its way (flush() returns early on one), every API
\* with a budget on the host is one it counted calls of, and nothing is
\* suppressed that was not received.
THEOREM MonitoringTypes == Spec => []TypeOK
  BY MonitorInvHolds, MonitorInvSays, PTL

\* enter_stage() and exit_stage(): for any number of stages, a closed stage's
\* rollup holds the chains found while it ran and no others, accounts for every
\* call logged under it, sums to no more than the calls it received, and is
\* active when a severe chain was found.
THEOREM StageLedgerExact == Spec => []StageLedger
  BY MonitorInvHolds, MonitorInvSays, PTL

\* _match_chains(): for any rule book, two chains of one rule in one process
\* are a window of that rule or more apart, so a behaviour that goes on is
\* reported once per window.
THEOREM BehaviourReportedOncePerWindow == Spec => []ChainsSpaced
  BY MonitorInvHolds, MonitorInvSays, PTL
====
