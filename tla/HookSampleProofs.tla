--------------------------- MODULE HookSampleProofs ---------------------------
(***************************************************************************)
(* Proofs about the way from the sample to the findings, for every sample, *)
(* batch size and rule book.  Volume findings: whatever the budgets of the *)
(* guest and of the host keep from the engine, a finding is made exactly   *)
(* when the sample made that many calls.  Behaviours: what is on its way   *)
(* will make the engine's histories look, to the rules, like what the      *)
(* sample did; where all of it arrived each rule counts what the sample's  *)
(* calls complete.                                                         *)
(***************************************************************************)
EXTENDS HookChainProofs

-----------------------------------------------------------------------------
(* The calls under way *)

\* How many calls of the APIs in A each report tells of, and each batch.
InReport(A) ==
    [c \in Reports |-> IF Resolved(c.raw) # {} /\ Canonical(c.raw) \in A THEN c.n ELSE 0]

InBatch(A) == [b \in Seq(Reports) |-> Amount(InReport(A), b)]

\* What is on the sample's side of the channel, and what is not yet ingested.
Held(A) == Amount(InBatch(A), channel) + Amount(InReport(A), batch)

UnderWay(A) == Amount(InReport(A), pending) + Held(A)

\* They are numbers.
LEMMA ReportsAreCounted ==
  ASSUME NEW A
  PROVE  InReport(A) \in [Reports -> Nat] /\ InBatch(A) \in [Seq(Reports) -> Nat]
<1>1. InReport(A) \in [Reports -> Nat]
  BY DEF InReport, Reports
<1> HIDE DEF InReport
<1>2. \A b \in Seq(Reports) : Amount(InReport(A), b) \in Nat
  BY <1>1, AmountOf DEF InReport
<1> QED BY <1>1, <1>2 DEF InBatch

\* The reports in a sequence of them, and those in a sequence of batches.
LEMMA InReports ==
  ASSUME NEW A, NEW q \in Seq(Reports)
  PROVE  /\ Amount(InReport(A), q) \in Nat
         /\ q = <<>> => Amount(InReport(A), q) = 0
         /\ \A c \in Reports :
               Amount(InReport(A), Append(q, c)) = Amount(InReport(A), q) + InReport(A)[c]
         /\ q # <<>> => Amount(InReport(A), q)
                          = InReport(A)[Head(q)] + Amount(InReport(A), Tail(q))
  BY ReportsAreCounted, AmountOf, Zenon

LEMMA InBatches ==
  ASSUME NEW A, NEW q \in Seq(Seq(Reports))
  PROVE  /\ Amount(InBatch(A), q) \in Nat
         /\ q = <<>> => Amount(InBatch(A), q) = 0
         /\ \A b \in Seq(Reports) :
               Amount(InBatch(A), Append(q, b))
                 = Amount(InBatch(A), q) + Amount(InReport(A), b)
         /\ q # <<>> => Amount(InBatch(A), q)
                          = Amount(InReport(A), Head(q)) + Amount(InBatch(A), Tail(q))
<1>1. /\ Amount(InBatch(A), q) \in Nat
      /\ q = <<>> => Amount(InBatch(A), q) = 0
      /\ \A b \in Seq(Reports) :
            Amount(InBatch(A), Append(q, b)) = Amount(InBatch(A), q) + InBatch(A)[b]
      /\ q # <<>> => Amount(InBatch(A), q)
                       = InBatch(A)[Head(q)] + Amount(InBatch(A), Tail(q))
  BY ReportsAreCounted, AmountOf, ZenonT(30)
<1>2. \A b \in Seq(Reports) : InBatch(A)[b] = Amount(InReport(A), b)
  BY DEF InBatch
<1>3. q # <<>> => Head(q) \in Seq(Reports)
  BY HeadTailProperties
<1> QED BY <1>1, <1>2, <1>3, Zenon

\* What is under way are numbers too.
LEMMA UnderWayIsNat ==
  ASSUME AgentKept, NEW A
  PROVE  /\ channel \in Seq(Seq(Reports)) /\ batch \in Seq(Reports) /\ pending \in Seq(Reports)
         /\ Held(A) \in Nat /\ UnderWay(A) \in Nat
<1>1. channel \in Seq(Seq(Reports)) /\ batch \in Seq(Reports) /\ pending \in Seq(Reports)
  BY DEF AgentKept
<1>2. /\ Amount(InBatch(A), channel) \in Nat /\ Amount(InReport(A), batch) \in Nat
      /\ Amount(InReport(A), pending) \in Nat
  BY <1>1, InReports, InBatches
<1> QED BY <1>1, <1>2 DEF Held, UnderWay

-----------------------------------------------------------------------------
(* The agent *)

\* A batch that is lost.
Lost == platform = "windows" /\ failedSends' # 0

\* flush() loses nothing, or what it was given.
LEMMA FlushHolds ==
  ASSUME AgentKept, NEW A, NEW records \in Seq(Reports), Flush(records)
  PROVE  /\ failedSends' # 0 \/ failedSends' = failedSends
         /\ LET amount == Amount(InBatch(A), channel) + Amount(InReport(A), records)
            IN  Held(A)' = amount \/ (Lost /\ Held(A)' <= amount)
<1> DEFINE f == InReport(A)
           g == InBatch(A)
<1>1. /\ channel \in Seq(Seq(Reports)) /\ <<>> \in Seq(Reports) /\ failedSends \in Nat
  BY AgentAssumption, UnderWayIsNat DEF AgentKept
<1>2. /\ Amount(g, channel) \in Nat /\ Amount(f, records) \in Nat /\ Amount(f, <<>>) = 0
      /\ Amount(g, Append(channel, records)) = Amount(g, channel) + Amount(f, records)
  BY <1>1, InReports, InBatches
<1>3. f' = f /\ g' = g
  OBVIOUS
<1>4. Held(A)' = Amount(g, channel') + Amount(f, batch')
  BY DEF Held
<1> HIDE DEF f, g
<1>5. CASE /\ channel' = Append(channel, records)
           /\ batch' = NoRecords
           /\ UNCHANGED failedSends
  BY <1>2, <1>4, <1>5 DEF NoRecords, f, g
<1>6. CASE /\ failedSends' = failedSends + 1
           /\ batch' = IF platform = "windows" THEN NoRecords ELSE records
           /\ UNCHANGED channel
  <2>1. failedSends' # 0
    BY <1>1, <1>6
  <2>2. CASE platform = "windows"
    BY <1>2, <1>4, <1>6, <2>1, <2>2 DEF NoRecords, Lost, f, g
  <2>3. CASE platform # "windows"
    BY <1>2, <1>4, <1>6, <2>1, <2>3 DEF f, g
  <2> QED BY <2>2, <2>3
<1> QED BY <1>5, <1>6 DEF Flush

\* Neither does emit(), of the report it adds or of those it has.
LEMMA EmitHolds ==
  ASSUME AgentKept, NEW A, NEW record \in Reports, Emit(record)
  PROVE  /\ failedSends' # 0 \/ failedSends' = failedSends
         /\ LET amount == Held(A) + InReport(A)[record]
            IN  Held(A)' = amount \/ (Lost /\ Held(A)' <= amount)
<1> DEFINE held == Append(batch, record)
           m == Amount(InBatch(A), channel)
           n == Amount(InReport(A), batch)
           k == InReport(A)[record]
<1>1. batch \in Seq(Reports) /\ channel \in Seq(Seq(Reports)) /\ held \in Seq(Reports)
  BY UnderWayIsNat
<1>2. Amount(InReport(A), held) = n + k
  BY <1>1, InReports
<1>3. m \in Nat /\ n \in Nat /\ k \in Nat
  BY <1>1, InReports, InBatches, ReportsAreCounted
<1>4. Held(A) = m + n
  BY DEF Held
<1>5. CASE Flush(held)
  <2>1. /\ failedSends' # 0 \/ failedSends' = failedSends
        /\ LET amount == m + Amount(InReport(A), held)
           IN  Held(A)' = amount \/ (Lost /\ Held(A)' <= amount)
    <3> HIDE DEF held
    <3> QED BY <1>1, <1>5, FlushHolds
  <2> HIDE DEF held, m, n
  <2> QED BY <1>2, <1>3, <1>4, <2>1
<1>6. CASE batch' = held /\ UNCHANGED <<lastFlush, channel, failedSends>>
  <2>1. Held(A)' = m + Amount(InReport(A), held)
    BY <1>6 DEF Held
  <2> HIDE DEF held, m, n
  <2> QED BY <1>2, <1>3, <1>4, <1>6, <2>1
<1> QED BY <1>5, <1>6, Zenon DEF Emit

-----------------------------------------------------------------------------
(* The budgets *)

\* What has passed is as much as was made, or as the budget of an API allows.
Enough(A, n) == \E a \in A : n >= RateLimit[a]

\* What has passed is no less than what the running budgets have let through.
Spent(A, rate, n) == \A a \in A \cap DOMAIN rate : Smaller(rate[a].count, RateLimit[a]) <= n

\* Enough stays enough, and so does what the budgets have let through.
LEMMA MoreIsEnough ==
  ASSUME NEW A \in SUBSET Apis, NEW m \in Nat, NEW n \in Nat, m <= n
  PROVE  /\ Enough(A, m) => Enough(A, n)
         /\ \A t \in Nat : \A rate : IsRates(rate, t) /\ Spent(A, rate, m) => Spent(A, rate, n)
<1>1. \A a \in A : RateLimit[a] \in Nat
  BY LimitsAreNatural
<1>2. Enough(A, m) => Enough(A, n)
  BY <1>1 DEF Enough
<1>3. ASSUME NEW t \in Nat, NEW rate, IsRates(rate, t), Spent(A, rate, m)
      PROVE  Spent(A, rate, n)
  <2>1. \A a \in A \cap DOMAIN rate : rate[a].count \in Nat
    BY <1>3 DEF IsRates
  <2> QED BY <1>1, <1>3, <2>1 DEF Spent, Smaller
<1> QED BY <1>2, <1>3

\* Of n calls that meet a budget as many pass as were made, or it is used up.
LEMMA BudgetLetsPass ==
  ASSUME NEW t \in Nat, NEW u \in Nat, NEW rate, IsRates(rate, t), NEW api \in Apis,
         NEW n \in Nat, NEW k \in Nat, Spent({api}, rate, k)
  PROVE  LET p == Within(rate, api, n, u)
         IN  /\ p \in 0..n
             /\ p = n \/ k + p >= RateLimit[api]
             /\ Spent({api}, Spend(rate, api, n, u), k + p)
<1> DEFINE used == IF Running(rate, api, u) THEN rate[api].count ELSE 0
           limit == RateLimit[api]
           p == Within(rate, api, n, u)
           spent == Spend(rate, api, n, u)
<1>1. used \in Nat /\ limit \in Nat
  BY LimitsAreNatural DEF IsRates, Running
<1>2. p = IF used >= limit THEN 0 ELSE Smaller(n, limit - used)
  BY Zenon DEF Within
<1>3. Smaller(used, limit) <= k
  BY <1>1 DEF Spent, Running, Smaller
<1>4. spent[api].count = used + n /\ api \in DOMAIN spent
  <2>1. spent[api] = IF Running(rate, api, u) THEN [rate[api] EXCEPT !.count = @ + n]
                     ELSE [start |-> u, count |-> n]
    BY DEF Spend, ++
  <2>2. Running(rate, api, u) => rate[api] \in [start : 0..t, count : Nat]
    BY DEF Running, IsRates
  <2>3. api \in DOMAIN spent
    BY DEF Spend, ++
  <2> QED BY <2>1, <2>2, <2>3
<1> HIDE DEF used, limit, p, spent
<1>5. p \in 0..n /\ (p = n \/ k + p >= limit) /\ Smaller(used + n, limit) <= k + p
  BY <1>1, <1>2, <1>3 DEF Smaller
<1>6. Spent({api}, spent, k + p)
  BY <1>4, <1>5 DEF Spent, limit
<1> QED BY <1>5, <1>6 DEF p, spent, limit

-----------------------------------------------------------------------------
(* What was made, what was received, and what is between *)

\* The calls of the APIs in A that the engine has counted.
Received(A) == Sum([a \in A |-> At(callCounts, a, 0)], A)

Coming(A) == Received(A) + UnderWay(A)

VolumeKept(A) ==
    /\ Coming(A) <= TimesMade(A)
    /\ NothingLost =>
          /\ Coming(A) = TimesMade(A) \/ Enough(A, Coming(A))
          /\ platform = "windows" => Spent(A, guestRate, Coming(A))

\* A signal that goes up with the logged calls of A, and only with them.
SignalKept(A, s) ==
    LET k == At(signals, s, 0)
    IN  /\ k \in Nat /\ k <= Received(A)
        /\ k = Received(A) \/ Enough(A, k)
        /\ Spent(A, hostRate, k)

\* APIs whose reports the host always knows.
IsVolume(A) == A \in SUBSET Apis /\ IsFiniteSet(A) /\ "CreateRemoteThread" \notin A

\* What was received is a number.
LEMMA ReceivedIsNat ==
  ASSUME EngineKept, NEW A, IsVolume(A)
  PROVE  Received(A) \in Nat /\ \A a \in A : At(callCounts, a, 0) \in Nat
<1>1. \A a \in A : At(callCounts, a, 0) \in Nat
  BY DEF EngineKept, At
<1> QED BY <1>1, SumIsNat DEF Received, IsVolume

\* Of one or two APIs it is their counts.
LEMMA ReceivedIsCount ==
  ASSUME EngineKept, NEW A, IsVolume(A)
  PROVE  /\ \A a : A = {a} => Received(A) = At(callCounts, a, 0)
         /\ \A a, b : a # b /\ A = {a, b} =>
               Received(A) = At(callCounts, a, 0) + At(callCounts, b, 0)
<1> DEFINE f == [x \in A |-> At(callCounts, x, 0)]
<1>1. /\ Received(A) = Sum(f, A) /\ \A x \in A : f[x] = At(callCounts, x, 0)
      /\ \A x \in A : f[x] \in Nat
  BY ReceivedIsNat DEF Received
<1>2. IsFiniteSet(A) /\ Sum(f, {}) = 0
  BY FS_EmptySet, SumUnfolds DEF IsVolume
<1> HIDE DEF f
<1>3. ASSUME NEW a \in A PROVE Sum(f, A) = f[a] + Sum(f, A \ {a})
  BY <1>1, <1>2, SumTakesAny
<1>4. ASSUME NEW a, A = {a} PROVE Received(A) = At(callCounts, a, 0)
  <2>1. a \in A /\ A \ {a} = {}
    BY <1>4
  <2>2. Sum(f, A) = f[a] + 0
    BY <1>2, <1>3, <2>1
  <2> QED BY <1>1, <2>1, <2>2
<1>5. ASSUME NEW a, NEW b, a # b, A = {a, b}
      PROVE  Received(A) = At(callCounts, a, 0) + At(callCounts, b, 0)
  <2>1. /\ a \in A /\ b \in A /\ A \ {a} = {b} /\ {b} \ {b} = {} /\ {b} \subseteq A
    BY <1>5
  <2>2. IsFiniteSet({b}) /\ \A x \in {b} : f[x] \in Nat
    BY <1>1, <2>1, FS_Singleton
  <2>3. Sum(f, {b}) = f[b] + 0
    BY <1>2, <2>1, <2>2, SumTakesAny
  <2>4. Sum(f, A) = f[a] + Sum(f, {b})
    BY <1>3, <2>1
  <2> QED BY <1>1, <2>1, <2>3, <2>4
<1> QED BY <1>4, <1>5

\* A call that is counted adds to it when it is one of A's.
LEMMA ReceivedAfterBump ==
  ASSUME EngineKept, NEW A, IsVolume(A), NEW api \in Apis, NEW n \in Nat,
         callCounts' = Bump(callCounts, api, n)
  PROVE  Received(A)' = Received(A) + IF api \in A THEN n ELSE 0
<1> DEFINE f == [a \in A |-> At(callCounts, a, 0)]
           g == [a \in A |-> At(callCounts', a, 0)]
<1>1. /\ \A a \in A \ {api} : g[a] = f[a]
      /\ api \in A => g[api] = f[api] + n
  BY BumpIs DEF At
<1>2. Received(A) = Sum(f, A) /\ Received(A)' = Sum(g, A)
  BY DEF Received
<1>3. /\ \A a \in A : f[a] \in Nat
      /\ \A a \in A : g[a] \in Nat
  <2>1. \A a \in A : f[a] \in Nat
    BY ReceivedIsNat
  <2> QED BY <1>1, <2>1
<1>4. IsFiniteSet(A) /\ IsFiniteSet(A \ {api})
  BY FS_Subset DEF IsVolume
<1> HIDE DEF f, g
<1>5. CASE api \notin A
  <2>1. Sum(f, A) = Sum(g, A)
    BY <1>1, <1>4, <1>5, SumOfSameTerms
  <2>2. Sum(f, A) \in Nat
    BY <1>3, <1>4, SumIsNat
  <2> QED BY <1>2, <1>5, <2>1, <2>2
<1>6. CASE api \in A
  <2>1. Sum(f, A) = f[api] + Sum(f, A \ {api})
    BY <1>3, <1>4, <1>6, SumTakesAny
  <2>2. Sum(g, A) = g[api] + Sum(g, A \ {api})
    BY <1>3, <1>4, <1>6, SumTakesAny
  <2>3. Sum(f, A \ {api}) = Sum(g, A \ {api})
    BY <1>1, <1>4, SumOfSameTerms
  <2>4. Sum(f, A \ {api}) \in Nat /\ f[api] \in Nat
    BY <1>3, <1>4, <1>6, SumIsNat
  <2> QED BY <1>1, <1>2, <1>6, <2>1, <2>2, <2>3, <2>4
<1> QED BY <1>5, <1>6

-----------------------------------------------------------------------------
(* The sample *)

MadeCalls ==
    [raw : {s.raw : s \in SampleSteps}, pid : {s.pid : s \in SampleSteps},
     at : Nat, n : Nat \ {0},
     marks : {s.shows : s \in SampleSteps}, handle : {s.handle : s \in SampleSteps}]

\* How many calls each record of the sample's history stands for, and which of
\* the records are A's.
Numbers == [i \in DOMAIN made |-> made[i].n]

MadeOf(A) == {i \in DOMAIN made : Hooked(made[i]) /\ Canonical(made[i].raw) \in A}

MadeStep(g, s) == IF s = {} THEN 0 ELSE made[Some(s)].n + g[s \ {Some(s)}]

\* TimesMade() is a sum.
LEMMA TimesMadeIsSum ==
  ASSUME NEW A
  PROVE  TimesMade(A) = Sum(Numbers, MadeOf(A))
<1> DEFINE S == MadeOf(A)
           f == Numbers
<1>1. TimesMade(A) = (CHOOSE g : g = [s \in SUBSET S |-> MadeStep(g, s)])[S]
  BY ZenonT(60) DEF TimesMade, MapThenSumSet, MapThenFoldSet, MadeStep, Some, MadeOf
<1>2. \A g : \A s \in SUBSET S : MadeStep(g, s) = SumStep(f, g, s)
  <2>1. \A s \in SUBSET S : s # {} => Some(s) \in DOMAIN made
    BY SomeIsIn DEF MadeOf
  <2> QED BY <2>1 DEF MadeStep, SumStep, Numbers
<1>3. \A g : [s \in SUBSET S |-> MadeStep(g, s)] = [s \in SUBSET S |-> SumStep(f, g, s)]
  BY <1>2
<1> HIDE DEF f, S
<1>4. \A g : g = [s \in SUBSET S |-> MadeStep(g, s)] <=> IsSums(f, g, S)
  BY <1>3 DEF IsSums
<1>5. (CHOOSE g : g = [s \in SUBSET S |-> MadeStep(g, s)]) = Sums(f, S)
  BY <1>4, Zenon DEF Sums
<1> QED BY <1>1, <1>5 DEF Sum, f, S

\* It is a number.
LEMMA TimesMadeIsNat ==
  ASSUME made \in Seq(MadeCalls), NEW A
  PROVE  /\ MadeOf(A) \subseteq DOMAIN made /\ IsFiniteSet(MadeOf(A))
         /\ \A i \in MadeOf(A) : Numbers[i] \in Nat
         /\ TimesMade(A) \in Nat
<1>1. DOMAIN made = 1..Len(made) /\ Len(made) \in Nat
  OBVIOUS
<1>2. MadeOf(A) \subseteq DOMAIN made
  BY DEF MadeOf
<1>3. IsFiniteSet(MadeOf(A))
  <2>1. IsFiniteSet(DOMAIN made)
    BY <1>1, FS_Interval
  <2> QED BY <1>2, <2>1, FS_Subset
<1>4. \A i \in MadeOf(A) : Numbers[i] \in Nat
  <2>1. \A i \in DOMAIN made : made[i] \in MadeCalls
    BY <1>1
  <2> QED BY <1>2, <2>1 DEF Numbers, MadeCalls
<1>5. Sum(Numbers, MadeOf(A)) \in Nat
  BY <1>3, <1>4, SumIsNat
<1> QED BY <1>2, <1>3, <1>4, <1>5, TimesMadeIsSum

\* A step of the sample makes as many calls of A as it says.
LEMMA SampleMakes ==
  ASSUME made \in Seq(MadeCalls), NEW call \in MadeCalls, made' = Append(made, call),
         platform' = platform, NEW A
  PROVE  TimesMade(A)' = TimesMade(A)
                           + IF Hooked(call) /\ Canonical(call.raw) \in A THEN call.n ELSE 0
<1> DEFINE m == Len(made) + 1
           S == MadeOf(A)
           T == MadeOf(A)'
           f == Numbers
           g == Numbers'
<1>1. /\ Len(made) \in Nat /\ DOMAIN made = 1..Len(made) /\ DOMAIN made' = 1..m
      /\ made'[m] = call /\ \A i \in DOMAIN made : made'[i] = made[i]
      /\ made' \in Seq(MadeCalls)
  OBVIOUS
<1>2. /\ S \subseteq DOMAIN made /\ IsFiniteSet(S) /\ TimesMade(A) \in Nat
      /\ \A i \in S : f[i] \in Nat
  BY TimesMadeIsNat
<1>3. /\ IsFiniteSet(T) /\ \A i \in T : g[i] \in Nat
  <2>1. (made \in Seq(MadeCalls))'
    BY <1>1
  <2>2. (IsFiniteSet(MadeOf(A)) /\ \A i \in MadeOf(A) : Numbers[i] \in Nat)'
    BY <2>1, TimesMadeIsNat, PTL
  <2> QED BY <2>2
<1>4. m \notin DOMAIN made /\ m \in DOMAIN made' /\ DOMAIN made' = DOMAIN made \cup {m}
  BY <1>1
<1>5. (\A i \in S : f[i] = g[i]) /\ g[m] = call.n
  BY <1>1, <1>2, <1>4 DEF Numbers
<1>6. T = {i \in DOMAIN made' : Hooked(made'[i]) /\ Canonical(made'[i].raw) \in A}
  BY DEF MadeOf, Hooked
<1>7. T = IF Hooked(call) /\ Canonical(call.raw) \in A THEN S \cup {m} ELSE S
  <2>1. S = {i \in DOMAIN made : Hooked(made[i]) /\ Canonical(made[i].raw) \in A}
    BY DEF MadeOf
  <2> HIDE DEF m, S, T
  <2> QED BY <1>1, <1>4, <1>6, <2>1, Zenon
<1>8. TimesMade(A) = Sum(f, S) /\ TimesMade(A)' = Sum(g, T)
  <2>1. (TimesMade(A) = Sum(Numbers, MadeOf(A)))'
    BY TimesMadeIsSum, PTL
  <2> QED BY <2>1, TimesMadeIsSum
<1> HIDE DEF m, S, T, f, g
<1>9. Sum(f, S) = Sum(g, S)
  BY <1>2, <1>5, SumOfSameTerms
<1>10. CASE Hooked(call) /\ Canonical(call.raw) \in A
  <2>1. T \ {m} = S /\ m \in T
    BY <1>2, <1>4, <1>7, <1>10
  <2>2. Sum(g, T) = g[m] + Sum(g, T \ {m})
    BY <1>3, <2>1, SumTakesAny
  <2>3. call.n \in Nat
    BY DEF MadeCalls
  <2>4. TimesMade(A)' = call.n + TimesMade(A)
    BY <1>5, <1>8, <1>9, <2>1, <2>2
  <2> QED BY <1>2, <1>10, <2>3, <2>4
<1>11. CASE ~(Hooked(call) /\ Canonical(call.raw) \in A)
  BY <1>2, <1>7, <1>8, <1>9, <1>11
<1> QED BY <1>10, <1>11

-----------------------------------------------------------------------------
(* The tables *)

\* The calls that make a finding, by what is called.
Threshold ==
    [DeleteFile |-> 100, GetProcAddress |-> 50, SendSMS |-> 10, SendMultipartSMS |-> 10,
     RequestLocationUpdates |-> 20, GetLastKnownLocation |-> 20,
     FusedLocationUpdates |-> 20, AudioRecordRead |-> 50, ClipboardRead |-> 30,
     ClipboardCheck |-> 30]

\* A table of budgets none of which keeps a finding from being made.
Suffices(f) == \A a \in DOMAIN f \cap DOMAIN Threshold : f[a] >= Threshold[a]

\* Entries with one limit are such a table when the limit is enough for each.
LEMMA EntriesSuffice ==
  ASSUME NEW S, NEW n, \A a \in S \cap DOMAIN Threshold : n >= Threshold[a]
  PROVE  DOMAIN Each(S, n) = S /\ Suffices(Each(S, n))
  BY DEF Each, Suffices

\* A hundred is, whatever the entries; and entries no finding is about are one.
LEMMA PlentySuffices ==
  ASSUME NEW S, NEW n \in Nat, n >= 100
  PROVE  DOMAIN Each(S, n) = S /\ Suffices(Each(S, n))
<1>1. \A a \in DOMAIN Threshold : Threshold[a] \in 0..100
  BY DEF Threshold
<1> QED BY <1>1, EntriesSuffice

\* Merging and listing keep them such.
LEMMA MergeSuffices ==
  ASSUME NEW f, NEW g, Suffices(f), Suffices(g)
  PROVE  DOMAIN (f ++ g) = DOMAIN f \cup DOMAIN g /\ Suffices(f ++ g)
  BY DEF ++, Suffices

LEMMA ListedSuffices ==
  ASSUME NEW sections, \A s \in sections : Suffices(s)
  PROVE  /\ DOMAIN Listed(sections) = UNION {DOMAIN s : s \in sections}
         /\ Suffices(Listed(sections))
<1>1. DOMAIN Listed(sections) = UNION {DOMAIN s : s \in sections}
  BY DEF Listed
<1>2. ASSUME NEW a \in DOMAIN Listed(sections)
      PROVE  \E s \in sections : a \in DOMAIN s /\ Listed(sections)[a] = s[a]
  BY <1>1 DEF Listed
<1> QED BY <1>1, <1>2 DEF Suffices

\* No budget keeps a finding from being made.
LEMMA BudgetsSuffice == Suffices(RateLimit)
<1>1. Suffices(FilesystemHooks)
  <2> DEFINE a == Each({"ReadFile", "WriteFile"}, 500)
             b == Each({"CreateFile", "DeleteFile", "FindNextFile"}, 200)
             c == Each({"MoveFile", "CopyFile", "FindFirstFile"}, 100)
  <2>1. Suffices(a) /\ Suffices(b) /\ Suffices(c)
    BY PlentySuffices
  <2>2. FilesystemHooks = a ++ b ++ c
    BY DEF FilesystemHooks
  <2> HIDE DEF a, b, c
  <2> QED BY <2>1, <2>2, MergeSuffices
<1>2. Suffices(RegistryHooks)
  <2> DEFINE a == Each({"RegOpenKey"}, 200)
             b == Each({"RegCreateKey", "RegSetValue", "RegDeleteKey",
                        "RegDeleteValue", "RegEnumKey"}, 100)
  <2>1. Suffices(a) /\ Suffices(b)
    BY PlentySuffices
  <2>2. RegistryHooks = a ++ b
    BY DEF RegistryHooks
  <2> HIDE DEF a, b
  <2> QED BY <2>1, <2>2, MergeSuffices
<1>3. Suffices(NetworkHooks)
  <2> DEFINE a == Each({"send", "recv"}, 200)
             b == Each({"InternetConnect", "WinHttpSendRequest", "InternetOpenUrl",
                        "connect"}, 100)
  <2>1. Suffices(a) /\ Suffices(b)
    BY PlentySuffices
  <2>2. NetworkHooks = a ++ b
    BY DEF NetworkHooks
  <2> HIDE DEF a, b
  <2> QED BY <2>1, <2>2, MergeSuffices
<1>4. Suffices(ProcessHooks)
  <2> DEFINE a == Each({"EnumProcesses", "EnumProcessModules"}, 50)
             b == Each({"CreateProcess", "OpenProcess", "TerminateProcess",
                        "GetModuleFileName"}, 100)
  <2>1. Suffices(b)
    BY PlentySuffices
  <2>2. Suffices(a)
    BY EntriesSuffice DEF Threshold
  <2>3. ProcessHooks = a ++ b
    BY DEF ProcessHooks
  <2> HIDE DEF a, b
  <2> QED BY <2>1, <2>2, <2>3, MergeSuffices
<1>5. Suffices(ExecutionHooks)
  BY PlentySuffices DEF ExecutionHooks
<1>6. Suffices(MemoryHooks)
  <2> DEFINE a == Each({"VirtualAlloc"}, 300)
             b == Each({"VirtualProtect"}, 100)
  <2>1. Suffices(a) /\ Suffices(b)
    BY PlentySuffices
  <2>2. MemoryHooks = a ++ b
    BY DEF MemoryHooks
  <2> HIDE DEF a, b
  <2> QED BY <2>1, <2>2, MergeSuffices
<1>7. Suffices(InjectionHooks)
  BY PlentySuffices DEF InjectionHooks
<1>8. Suffices(ResolutionHooks)
  <2> DEFINE a == Each({"LoadLibrary"}, 200)
             b == Each({"GetProcAddress"}, 1000)
  <2>1. Suffices(a) /\ Suffices(b)
    BY PlentySuffices
  <2>2. ResolutionHooks = a ++ b
    BY DEF ResolutionHooks
  <2> HIDE DEF a, b
  <2> QED BY <2>1, <2>2, MergeSuffices
<1>9. Suffices(CryptoHooks)
  BY EntriesSuffice DEF CryptoHooks, Threshold
<1>10. Suffices(DeviceHooks)
  BY PlentySuffices DEF DeviceHooks
<1>11. Suffices(ServiceHooks)
  BY PlentySuffices DEF ServiceHooks
<1>12. Suffices(DriverHooks)
  BY PlentySuffices DEF DriverHooks
<1>13. Suffices(TokenHooks)
  BY PlentySuffices DEF TokenHooks
<1>14. Suffices(PermissionHooks)
  <2> DEFINE a == Each({"RequestPermissions"}, 20)
             b == Each({"CheckPermission"}, 200)
             c == Each({"GrantRuntimePermission", "SetPackagePermission"}, 10)
  <2>1. Suffices(b)
    BY PlentySuffices
  <2>2. Suffices(a) /\ Suffices(c)
    BY EntriesSuffice DEF Threshold
  <2>3. PermissionHooks = a ++ b ++ c
    BY DEF PermissionHooks
  <2> HIDE DEF a, b, c
  <2> QED BY <2>1, <2>2, <2>3, MergeSuffices
<1>15. Suffices(SmsHooks)
  <2> DEFINE a == Each({"ReadSMS"}, 100)
             b == Each({"DownloadMMS"}, 20)
             c == Each({"SendSMS", "SendMultipartSMS", "DeleteSMS",
                        "SendMultipartTextMessage"}, 50)
  <2>1. Suffices(a)
    BY PlentySuffices
  <2>2. Suffices(b) /\ Suffices(c)
    BY EntriesSuffice DEF Threshold
  <2>3. SmsHooks = a ++ b ++ c
    BY DEF SmsHooks
  <2> HIDE DEF a, b, c
  <2> QED BY <2>1, <2>2, <2>3, MergeSuffices
<1>16. Suffices(LocationHooks)
  <2> DEFINE a == Each({"GetLastKnownLocation"}, 100)
             b == Each({"GeofencingAdd"}, 20)
             c == Each({"LocationRequestHighAccuracy"}, 30)
             d == Each({"RequestLocationUpdates", "FusedLocationUpdates"}, 50)
  <2>1. Suffices(a)
    BY PlentySuffices
  <2>2. Suffices(b) /\ Suffices(c) /\ Suffices(d)
    BY EntriesSuffice DEF Threshold
  <2>3. LocationHooks = a ++ b ++ c ++ d
    BY DEF LocationHooks
  <2> HIDE DEF a, b, c, d
  <2> QED BY <2>1, <2>2, <2>3, MergeSuffices
<1>17. Suffices(ContactHooks)
  <2> DEFINE a == Each({"ReadContacts"}, 100)
             b == Each({"ContactsContractAccess", "WriteContacts", "DeleteContacts"},
                        50)
  <2>1. Suffices(a)
    BY PlentySuffices
  <2>2. Suffices(b)
    BY EntriesSuffice DEF Threshold
  <2>3. ContactHooks = a ++ b
    BY DEF ContactHooks
  <2> HIDE DEF a, b
  <2> QED BY <2>1, <2>2, <2>3, MergeSuffices
<1>18. Suffices(ClipboardHooks)
  <2> DEFINE a == Each({"ClipboardCheck"}, 500)
             b == Each({"ClipboardRead", "ClipboardWrite"}, 200)
  <2>1. Suffices(a) /\ Suffices(b)
    BY PlentySuffices
  <2>2. ClipboardHooks = a ++ b
    BY DEF ClipboardHooks
  <2> HIDE DEF a, b
  <2> QED BY <2>1, <2>2, MergeSuffices
<1>19. Suffices(CameraHooks)
  <2> DEFINE a == Each({"CameraSetParameters"}, 50)
             b == Each({"CameraOpen", "CameraStartPreview", "MediaRecorderVideoSource",
                        "CameraTakePicture"}, 20)
  <2>1. Suffices(a) /\ Suffices(b)
    BY EntriesSuffice DEF Threshold
  <2>2. CameraHooks = a ++ b
    BY DEF CameraHooks
  <2> HIDE DEF a, b
  <2> QED BY <2>1, <2>2, MergeSuffices
<1>20. Suffices(MicrophoneHooks)
  <2> DEFINE a == Each({"AudioRecordRead"}, 500)
             b == Each({"AudioRecordStart", "MediaRecorderAudioSource"}, 20)
  <2>1. Suffices(a)
    BY PlentySuffices
  <2>2. Suffices(b)
    BY EntriesSuffice DEF Threshold
  <2>3. MicrophoneHooks = a ++ b
    BY DEF MicrophoneHooks
  <2> HIDE DEF a, b
  <2> QED BY <2>1, <2>2, <2>3, MergeSuffices
<1>21. Suffices(MediaHooks)
  BY EntriesSuffice DEF MediaHooks, Threshold
<1>22. Suffices(AccessibilityHooks)
  <2> DEFINE a == Each({"AccessibilityEvent"}, 300)
             b == Each({"AccessibilityFindByText"}, 200)
             c == Each({"AccessibilityPerformAction"}, 100)
             d == Each({"AccessibilityFindAccessibilityNodeInfo"}, 150)
  <2>1. Suffices(a) /\ Suffices(b) /\ Suffices(c) /\ Suffices(d)
    BY PlentySuffices
  <2>2. AccessibilityHooks = a ++ b ++ c ++ d
    BY DEF AccessibilityHooks
  <2> HIDE DEF a, b, c, d
  <2> QED BY <2>1, <2>2, MergeSuffices
<1>23. Suffices(OverlayHooks)
  <2> DEFINE a == Each({"LayoutInflate"}, 300)
             b == Each({"SystemAlertWindowRequest"}, 10)
             c == Each({"OverlayWindowAdded", "WindowManagerAddView"}, 50)
  <2>1. Suffices(a)
    BY PlentySuffices
  <2>2. Suffices(b) /\ Suffices(c)
    BY EntriesSuffice DEF Threshold
  <2>3. OverlayHooks = a ++ b ++ c
    BY DEF OverlayHooks
  <2> HIDE DEF a, b, c
  <2> QED BY <2>1, <2>2, <2>3, MergeSuffices
<1>24. Suffices(WindowsCatalog)
  BY <1>1, <1>2, <1>3, <1>4, <1>5, <1>6, <1>7, <1>8, <1>9, <1>10, <1>11, <1>12, <1>13,
     ListedSuffices, Zenon DEF WindowsCatalog
<1>25. Suffices(AndroidCatalog)
  BY <1>14, <1>15, <1>16, <1>17, <1>18, <1>19, <1>20, <1>21, <1>22, <1>23,
     ListedSuffices, Zenon DEF AndroidCatalog
<1> QED BY <1>24, <1>25, MergeSuffices DEF RateLimit
\* What the findings are about is monitored.
LEMMA FindingsAreMonitored == DOMAIN Threshold \subseteq Apis
<1>1. Apis = DOMAIN WindowsCatalog \cup DOMAIN AndroidCatalog
  BY DEF Apis, RateLimit, ++
<1>2. "DeleteFile" \in DOMAIN FilesystemHooks
  BY DEF FilesystemHooks, Each, ++
<1>3. "GetProcAddress" \in DOMAIN ResolutionHooks
  BY DEF ResolutionHooks, Each, ++
<1>4. {"SendSMS", "SendMultipartSMS"} \subseteq DOMAIN SmsHooks
  BY DEF SmsHooks, Each, ++
<1>5. {"RequestLocationUpdates", "GetLastKnownLocation", "FusedLocationUpdates"}
        \subseteq DOMAIN LocationHooks
  BY DEF LocationHooks, Each, ++
<1>6. "AudioRecordRead" \in DOMAIN MicrophoneHooks
  BY DEF MicrophoneHooks, Each, ++
<1>7. {"ClipboardRead", "ClipboardCheck"} \subseteq DOMAIN ClipboardHooks
  BY DEF ClipboardHooks, Each, ++
<1>8. DOMAIN FilesystemHooks \cup DOMAIN ResolutionHooks \subseteq DOMAIN WindowsCatalog
  BY Zenon DEF WindowsCatalog, Listed
<1>9. DOMAIN SmsHooks \cup DOMAIN LocationHooks \cup DOMAIN MicrophoneHooks
        \cup DOMAIN ClipboardHooks \subseteq DOMAIN AndroidCatalog
  BY Zenon DEF AndroidCatalog, Listed
<1> QED BY <1>1, <1>2, <1>3, <1>4, <1>5, <1>6, <1>7, <1>8, <1>9 DEF Threshold

\* So the findings are about APIs whose reports the host knows, and each of them
\* alone may be let through as often as makes the finding.
LEMMA VolumesAreJudged ==
  ASSUME NEW f \in DOMAIN VolumeApis
  PROVE  /\ IsVolume(VolumeApis[f])
         /\ LET limit == WindowsVolumes(Empty, Empty) ++ AndroidVolumes(Empty, Empty, 0)
            IN  \A a \in VolumeApis[f] : RateLimit[a] >= limit[f][2]
<1> DEFINE limit == WindowsVolumes(Empty, Empty) ++ AndroidVolumes(Empty, Empty, 0)
<1>1. VolumeApis[f] \subseteq DOMAIN Threshold
  BY DEF VolumeApis, Threshold
<1>2. IsFiniteSet(VolumeApis[f])
  <2>1. ASSUME NEW a, NEW b, NEW c PROVE IsFiniteSet({a, b, c})
    <3>1. {a, b, c} = ({a} \cup {b}) \cup {c}
      OBVIOUS
    <3>2. IsFiniteSet({a} \cup {b})
      BY FS_Singleton, FS_AddElement
    <3>3. IsFiniteSet(({a} \cup {b}) \cup {c})
      BY <3>2, FS_AddElement
    <3> QED BY <3>1, <3>3
  <2>2. VolumeApis[f] \in
          {{"DeleteFile", "DeleteFile", "DeleteFile"},
           {"GetProcAddress", "GetProcAddress", "GetProcAddress"},
           {"SendSMS", "SendMultipartSMS", "SendSMS"},
           {"RequestLocationUpdates", "GetLastKnownLocation", "FusedLocationUpdates"},
           {"AudioRecordRead", "AudioRecordRead", "AudioRecordRead"},
           {"ClipboardRead", "ClipboardCheck", "ClipboardRead"}}
    BY DEF VolumeApis
  <2>3. \A S, a, b, c : S = {a, b, c} => IsFiniteSet(S)
    BY <2>1
  <2> QED BY <2>2, <2>3, Zenon
<1>3. "CreateRemoteThread" \notin VolumeApis[f]
  BY DEF VolumeApis
<1>4. \A a \in VolumeApis[f] : Threshold[a] = limit[f][2]
  BY DEF VolumeApis, Threshold, WindowsVolumes, AndroidVolumes, ++
<1>5. \A a \in VolumeApis[f] : RateLimit[a] >= Threshold[a]
  BY <1>1, BudgetsSuffice, FindingsAreMonitored DEF Suffices, Apis
<1> QED BY <1>1, <1>2, <1>3, <1>4, <1>5, FindingsAreMonitored DEF IsVolume

-----------------------------------------------------------------------------
(* The invariant *)

\* What arrives is a number.
LEMMA ComingIsNat ==
  ASSUME MonitorInv, NEW A, IsVolume(A)
  PROVE  Received(A) \in Nat /\ UnderWay(A) \in Nat /\ Coming(A) \in Nat
<1>1. AgentKept /\ EngineKept
  BY DEF MonitorInv
<1>2. Received(A) \in Nat /\ UnderWay(A) \in Nat
  BY <1>1, ReceivedIsNat, UnderWayIsNat, Zenon
<1> QED BY <1>2 DEF Coming

\* And they stay such.
LEMMA HeldNext ==
  ASSUME AgentKept', NEW A
  PROVE  Held(A)' \in Nat
<1>1. (Held(A) \in Nat)'
  BY UnderWayIsNat, PTL
<1> QED BY <1>1

LEMMA ComingNext ==
  ASSUME MonitorInv', NEW A, IsVolume(A)
  PROVE  Coming(A)' \in Nat
<1>1. (Coming(A) \in Nat)'
  BY ComingIsNat, PTL
<1> QED BY <1>1

\* Of n calls more that are made k more are on their way: all of them, unless as
\* many are as some budget allows.
LEMMA VolumeMoves ==
  ASSUME MonitorInv, NEW A, IsVolume(A), VolumeKept(A),
         NEW n \in Nat, NEW k \in 0..n, TimesMade(A) \in Nat, Coming(A)' \in Nat,
         platform' = platform,
         TimesMade(A)' = TimesMade(A) + n,
         Coming(A)' <= Coming(A) + k,
         NothingLost' =>
            /\ NothingLost
            /\ Coming(A)' = Coming(A) + k
            /\ k = n \/ Enough(A, Coming(A) + k)
            /\ platform = "windows" => Spent(A, guestRate', Coming(A) + k)
  PROVE  VolumeKept(A)'
<1> DEFINE m == Coming(A)
           t == TimesMade(A)
<1>1. m \in Nat /\ m <= t /\ t \in Nat /\ TimesMade(A)' = t + n
  BY ComingIsNat DEF VolumeKept
<1>2. (Coming(A) <= TimesMade(A))'
  BY <1>1
<1>3. ASSUME NothingLost'
      PROVE  /\ Coming(A)' = TimesMade(A)' \/ Enough(A, Coming(A)')
             /\ platform' = "windows" => Spent(A, guestRate', Coming(A)')
  <2>1. /\ Coming(A)' = m + k
        /\ k = n \/ Enough(A, Coming(A)')
        /\ platform' = "windows" => Spent(A, guestRate', Coming(A)')
    BY <1>3
  <2>2. m = t \/ Enough(A, m)
    BY <1>3 DEF VolumeKept
  <2>3. Enough(A, m) => Enough(A, m + k)
    BY <1>1, MoreIsEnough DEF IsVolume
  <2> HIDE DEF m, t
  <2> QED BY <1>1, <2>1, <2>2, <2>3
<1>4. (Enough(A, Coming(A)))' = Enough(A, Coming(A)')
      /\ (Spent(A, guestRate, Coming(A)))' = Spent(A, guestRate', Coming(A)')
  BY DEF Enough, Spent
<1> QED BY <1>2, <1>3, <1>4 DEF VolumeKept

\* What a step of the sample adds to the calls made: one record of the history.
LEMMA SampleRecords ==
  ASSUME MonitorInv, made \in Seq(MadeCalls), SampleCalls
  PROVE  LET step == Head(todo)
             call == [raw |-> step.raw, pid |-> step.pid, at |-> now', n |-> step.n,
                      marks |-> step.shows, handle |-> step.handle]
         IN  /\ step \in SampleSteps /\ step.n \in Nat \ {0} /\ now' \in Nat /\ now <= now'
             /\ Observe(step) /\ call \in MadeCalls
             /\ made' = Append(made, call) /\ made' \in Seq(MadeCalls)
             /\ UNCHANGED <<platform, engineVars, pending>>
<1> DEFINE step == Head(todo)
           call == [raw |-> step.raw, pid |-> step.pid, at |-> now', n |-> step.n,
                    marks |-> step.shows, handle |-> step.handle]
<1>1. step \in SampleSteps
  BY HeadTailProperties DEF MonitorInv, AgentKept, SampleCalls
<1>2. /\ now' = now + step.wait /\ Observe(step) /\ made' = Append(made, call)
      /\ UNCHANGED <<platform, engineVars, pending>>
  BY DEF SampleCalls, monitorVars
<1> HIDE DEF step
<1>3. step.n \in Nat \ {0} /\ now' \in Nat /\ now <= now'
  BY <1>1, <1>2, SampleAssumption DEF MonitorInv, AgentKept
<1>4. call \in MadeCalls
  BY <1>1, <1>3 DEF MadeCalls
<1> HIDE DEF call
<1>5. made' \in Seq(MadeCalls)
  BY <1>2, <1>4
<1> QED BY <1>1, <1>2, <1>3, <1>4, <1>5 DEF call, step

\* Observing a hooked step passes on as much of it as the guest's budget allows.
LEMMA ObserveHolds ==
  ASSUME AgentKept, NEW A, NEW step \in SampleSteps, now' \in Nat, now <= now',
         step.raw \in DOMAIN Captured[platform], Observe(step),
         Canonical(step.raw) \in A => Resolved(step.raw) # {}
  PROVE  LET api == Canonical(step.raw)
             passed == IF platform = "windows" THEN Within(guestRate, api, step.n, now')
                       ELSE step.n
             amount == Held(A) + IF api \in A THEN passed ELSE 0
         IN  /\ api \in Apis /\ passed \in 0..step.n
             /\ guestRate' = IF platform = "windows"
                             THEN Spend(guestRate, api, step.n, now') ELSE guestRate
             /\ failedSends' # 0 \/ failedSends' = failedSends
             /\ Held(A)' = amount \/ (Lost /\ Held(A)' <= amount)
<1> DEFINE api == Canonical(step.raw)
           passed == IF platform = "windows" THEN Within(guestRate, api, step.n, now')
                     ELSE step.n
<1>1. step.n \in Nat \ {0} /\ platform \in Platforms /\ now \in Nat /\ IsRates(guestRate, now)
  BY SampleAssumption DEF AgentKept
<1>2. api \in Apis
  BY <1>1, HookedAssumption
<1>3. passed \in 0..step.n
  <2>1. Within(guestRate, api, step.n, now') \in 0..step.n
    <3> HIDE DEF api
    <3> QED BY <1>1, <1>2, WithinBounds
  <2> QED BY <1>1, <2>1
<1>4. /\ guestRate' = IF platform = "windows"
                      THEN Spend(guestRate, api, step.n, now') ELSE guestRate
      /\ IF passed = 0 THEN UNCHANGED <<batch, lastFlush, channel, failedSends>>
         ELSE Emit(Report(step, passed))
  BY Zenon DEF Observe
<1>5. Held(A) \in Nat
  BY UnderWayIsNat
<1> DEFINE k == IF api \in A THEN passed ELSE 0
<1>6. /\ failedSends' # 0 \/ failedSends' = failedSends
      /\ Held(A)' = Held(A) + k \/ (Lost /\ Held(A)' <= Held(A) + k)
  <2>1. CASE passed = 0
    <3>1. Held(A)' = Held(A) /\ failedSends' = failedSends
      BY <1>4, <2>1 DEF Held
    <3> QED BY <1>5, <2>1, <3>1
  <2>2. CASE passed # 0
    <3> DEFINE record == Report(step, passed)
    <3>1. record \in Reports
      <4> HIDE DEF passed
      <4> QED BY <1>1, <1>3, <2>2, ReportIsOne
    <3>2. InReport(A)[record] = k
      <4>1. record.raw = step.raw /\ record.n = passed
        BY DEF Report
      <4>2. InReport(A)[record]
              = IF Resolved(record.raw) # {} /\ Canonical(record.raw) \in A
                THEN record.n ELSE 0
        BY <3>1 DEF InReport
      <4> HIDE DEF record, passed
      <4> QED BY <4>1, <4>2
    <3>3. Emit(record)
      BY <1>4, <2>2
    <3> HIDE DEF record, k
    <3> QED BY <3>1, <3>2, <3>3, EmitHolds
  <2> QED BY <2>1, <2>2
<1> QED BY <1>2, <1>3, <1>4, <1>6

\* A step of the sample.
LEMMA SampleKeepsVolume ==
  ASSUME MonitorInv, made \in Seq(MadeCalls), SampleCalls, NEW A, IsVolume(A), VolumeKept(A)
  PROVE  VolumeKept(A)'
<1> DEFINE step == Head(todo)
           call == [raw |-> step.raw, pid |-> step.pid, at |-> now', n |-> step.n,
                    marks |-> step.shows, handle |-> step.handle]
<1>1. /\ step \in SampleSteps /\ step.n \in Nat \ {0} /\ now' \in Nat /\ now <= now'
      /\ Observe(step) /\ call \in MadeCalls
      /\ made' = Append(made, call)
      /\ platform' = platform /\ UNCHANGED engineVars /\ pending' = pending
  BY SampleRecords
<1>2. TimesMade(A) \in Nat
  BY TimesMadeIsNat
<1>3. TimesMade(A)' = TimesMade(A)
                        + IF Hooked(call) /\ Canonical(call.raw) \in A THEN call.n ELSE 0
  <2> HIDE DEF call
  <2> QED BY <1>1, SampleMakes
<1>4. Coming(A)' \in Nat
  BY SampleKeeps, ComingNext
<1>5. call.raw = step.raw /\ call.n = step.n
  OBVIOUS
<1>6. Coming(A)' = Coming(A) - Held(A) + Held(A)'
  <2>1. Received(A)' = Received(A) /\ InReport(A)' = InReport(A)
    BY <1>1 DEF Received, engineVars, InReport
  <2>2. UnderWay(A)' = Amount(InReport(A), pending) + Held(A)'
    BY <1>1, <2>1 DEF UnderWay
  <2>3. AgentKept /\ EngineKept
    BY DEF MonitorInv
  <2>4. /\ Received(A) \in Nat /\ Amount(InReport(A), pending) \in Nat /\ Held(A) \in Nat
        /\ Held(A)' \in Nat
    <3>1. pending \in Seq(Reports)
      BY <2>3, UnderWayIsNat
    <3>2. AgentKept'
      BY SampleKeeps DEF MonitorInv
    <3> QED BY <2>3, <3>1, <3>2, ReceivedIsNat, UnderWayIsNat, HeldNext, InReports
  <2> QED BY <2>1, <2>2, <2>4 DEF Coming, UnderWay
<1>7. AgentKept /\ Held(A) \in Nat /\ Coming(A) \in Nat /\ Held(A)' \in Nat
  <2>1. AgentKept /\ AgentKept'
    BY SampleKeeps DEF MonitorInv
  <2> QED BY <2>1, UnderWayIsNat, HeldNext, ComingIsNat
<1> HIDE DEF call, step
<1>8. CASE step.raw \notin DOMAIN Captured[platform]
  <2>1. UNCHANGED <<guestRate, batch, lastFlush, channel, failedSends>>
    BY <1>1, <1>8 DEF Observe
  <2>2. Held(A)' = Held(A)
    BY <2>1 DEF Held
  <2>3. TimesMade(A)' = TimesMade(A) + 0
    BY <1>2, <1>3, <1>5, <1>8 DEF Hooked
  <2>4. NothingLost' => NothingLost
    BY <1>1, <2>1 DEF NothingLost
  <2>5. Coming(A)' = Coming(A) + 0
    BY <1>6, <1>7, <2>2
  <2>6. NothingLost /\ platform = "windows" => Spent(A, guestRate', Coming(A) + 0)
    BY <1>7, <2>1 DEF VolumeKept
  <2> QED BY <1>1, <1>2, <1>4, <1>7, <2>3, <2>4, <2>5, <2>6, VolumeMoves
<1>9. CASE step.raw \in DOMAIN Captured[platform]
  <2> DEFINE api == Canonical(step.raw)
             passed == IF platform = "windows" THEN Within(guestRate, api, step.n, now')
                       ELSE step.n
             n == IF api \in A THEN step.n ELSE 0
             k == IF api \in A THEN passed ELSE 0
  <2>1. platform \in Platforms /\ now \in Nat /\ IsRates(guestRate, now)
    BY <1>7 DEF AgentKept
  <2>2. api \in A => Resolved(step.raw) # {}
    BY <1>9, <2>1, ResolvedAssumption DEF IsVolume, Canonical
  <2>3. /\ api \in Apis /\ passed \in 0..step.n
        /\ guestRate' = IF platform = "windows"
                        THEN Spend(guestRate, api, step.n, now') ELSE guestRate
        /\ failedSends' # 0 \/ failedSends' = failedSends
        /\ Held(A)' = Held(A) + k \/ (Lost /\ Held(A)' <= Held(A) + k)
    BY <1>1, <1>7, <1>9, <2>2, ObserveHolds
  <2>4. n \in Nat /\ k \in 0..n
    BY <1>1, <2>3
  <2>5. TimesMade(A)' = TimesMade(A) + n
    BY <1>2, <1>3, <1>5, <1>9, <2>2 DEF Hooked
  <2>6. Coming(A)' <= Coming(A) + k
    <3> HIDE DEF k
    <3> QED BY <1>6, <1>7, <2>3, <2>4
  <2>7. ASSUME NothingLost'
        PROVE  NothingLost /\ Coming(A)' = Coming(A) + k
    <3>1. NothingLost /\ ~Lost
      BY <1>1, <2>3, <2>1, <1>7, <2>7 DEF NothingLost, Lost, Platforms
    <3> HIDE DEF k
    <3> QED BY <1>6, <1>7, <2>3, <2>4, <3>1
  <2>8. ASSUME NothingLost'
        PROVE  /\ k = n \/ Enough(A, Coming(A) + k)
               /\ platform = "windows" => Spent(A, guestRate', Coming(A) + k)
    <3>1. CASE platform # "windows"
      BY <3>1
    <3>2. CASE platform = "windows" /\ api \notin A
      <4>1. Spent(A, guestRate, Coming(A))
        BY <2>7, <2>8, <3>2 DEF VolumeKept
      <4>2. /\ DOMAIN guestRate' = DOMAIN guestRate \cup {api}
            /\ \A a \in DOMAIN guestRate \ {api} : guestRate'[a] = guestRate[a]
        <5>1. guestRate' = Spend(guestRate, api, step.n, now')
          BY <2>3, <3>2
        <5> HIDE DEF api
        <5> QED BY <5>1 DEF Spend, ++
      <4>3. Spent(A, guestRate', Coming(A))
        BY <3>2, <4>1, <4>2 DEF Spent
      <4> QED BY <1>7, <3>2, <4>3
    <3>3. CASE platform = "windows" /\ api \in A
      <4> DEFINE m == Coming(A)
                 spent == Spend(guestRate, api, step.n, now')
      <4>1. Spent(A, guestRate, m)
        BY <2>7, <2>8, <3>3 DEF VolumeKept
      <4>2. Spent({api}, guestRate, m)
        BY <3>3, <4>1 DEF Spent
      <4>3. /\ passed = step.n \/ m + passed >= RateLimit[api]
            /\ Spent({api}, spent, m + passed)
        <5>1. step.n \in Nat /\ passed = Within(guestRate, api, step.n, now')
          BY <1>1, <3>3
        <5> HIDE DEF api, m
        <5> QED BY <1>1, <1>7, <2>1, <2>3, <4>2, <5>1, BudgetLetsPass DEF m
      <4>4. /\ DOMAIN spent = DOMAIN guestRate \cup {api}
            /\ \A a \in DOMAIN guestRate \ {api} : spent[a] = guestRate[a]
        <5> HIDE DEF api
        <5> QED BY DEF Spend, ++
      <4>5. Spent(A, guestRate, m + passed)
        <5>1. m + passed \in Nat /\ m <= m + passed
          BY <1>1, <1>7, <2>3
        <5> HIDE DEF m, passed
        <5> QED BY <2>1, <4>1, <5>1, <1>7, MoreIsEnough DEF IsVolume, m
      <4>6. Spent(A, spent, m + passed)
        <5> HIDE DEF spent, m, passed, api
        <5> QED BY <4>3, <4>4, <4>5 DEF Spent
      <4>7. k = n \/ Enough(A, m + passed)
        <5> HIDE DEF m, passed, api
        <5> QED BY <3>3, <4>3 DEF Enough
      <4> QED BY <2>3, <3>3, <4>6, <4>7
    <3> QED BY <3>1, <3>2, <3>3
  <2> HIDE DEF n, k
  <2> QED BY <1>1, <1>2, <1>4, <2>4, <2>5, <2>6, <2>7, <2>8, VolumeMoves
<1> QED BY <1>8, <1>9

\* Steps that make no call and let none through.
LEMMA VolumeStays ==
  ASSUME MonitorInv, MonitorInv', made \in Seq(MadeCalls), NEW A, IsVolume(A), VolumeKept(A),
         UNCHANGED <<platform, made, guestRate>>,
         failedSends' # 0 \/ failedSends' = failedSends,
         Coming(A)' = Coming(A)
           \/ (platform = "windows" /\ failedSends' # 0 /\ Coming(A)' <= Coming(A))
  PROVE  VolumeKept(A)'
<1>1. TimesMade(A) \in Nat
  BY TimesMadeIsNat
<1>2. TimesMade(A)' = TimesMade(A) + 0
  <2>1. TimesMade(A)' = TimesMade(A)
    <3>1. Numbers' = Numbers /\ MadeOf(A)' = MadeOf(A)
      BY DEF Numbers, MadeOf, Hooked
    <3>2. (TimesMade(A) = Sum(Numbers, MadeOf(A)))'
      BY TimesMadeIsSum, PTL
    <3> QED BY <3>1, <3>2, TimesMadeIsSum
  <2> QED BY <1>1, <2>1
<1>3. Coming(A)' \in Nat /\ Coming(A) \in Nat
  BY ComingNext, ComingIsNat
<1>4. platform \in Platforms
  BY DEF MonitorInv, AgentKept
<1>5. Coming(A)' <= Coming(A) + 0
  BY <1>3
<1>6. ASSUME NothingLost'
      PROVE  NothingLost /\ Coming(A)' = Coming(A) + 0
  BY <1>3, <1>4, <1>6 DEF NothingLost, Platforms
<1>7. NothingLost /\ platform = "windows" => Spent(A, guestRate', Coming(A) + 0)
  BY <1>3 DEF VolumeKept
<1> QED BY <1>1, <1>2, <1>3, <1>5, <1>6, <1>7, VolumeMoves

\* The agent's timer.
LEMMA TimerKeepsVolume ==
  ASSUME MonitorInv, made \in Seq(MadeCalls), TimerFires, NEW A, IsVolume(A), VolumeKept(A)
  PROVE  VolumeKept(A)'
<1>1. /\ Flush(batch)
      /\ UNCHANGED <<platform, guestRate, engineVars, pending, made>>
  BY DEF TimerFires, FlushTimer, monitorVars, historyVars
<1>2. AgentKept /\ EngineKept /\ MonitorInv' /\ AgentKept'
  BY TimerKeeps DEF MonitorInv
<1>3. /\ failedSends' # 0 \/ failedSends' = failedSends
      /\ Held(A)' = Held(A) \/ (Lost /\ Held(A)' <= Held(A))
  <2>1. batch \in Seq(Reports)
    BY <1>2 DEF AgentKept
  <2>2. LET amount == Amount(InBatch(A), channel) + Amount(InReport(A), batch)
        IN  /\ failedSends' # 0 \/ failedSends' = failedSends
            /\ Held(A)' = amount \/ (Lost /\ Held(A)' <= amount)
    BY <1>1, <1>2, <2>1, FlushHolds
  <2> QED BY <2>2 DEF Held
<1>4. Coming(A)' = Coming(A) \/ (Lost /\ Coming(A)' <= Coming(A))
  <2>1. Received(A)' = Received(A) /\ InReport(A)' = InReport(A)
    BY <1>1 DEF Received, engineVars, InReport
  <2>2. /\ Coming(A)' = Received(A) + (Amount(InReport(A), pending) + Held(A)')
        /\ Coming(A) = Received(A) + (Amount(InReport(A), pending) + Held(A))
    BY <1>1, <2>1 DEF Coming, UnderWay
  <2>3. pending \in Seq(Reports) /\ Held(A) \in Nat
    BY <1>2, UnderWayIsNat
  <2>4. /\ Received(A) \in Nat /\ Amount(InReport(A), pending) \in Nat /\ Held(A)' \in Nat
    BY <1>2, <2>3, ReceivedIsNat, HeldNext, InReports
  <2> QED BY <1>3, <2>2, <2>3, <2>4
<1> QED BY <1>1, <1>2, <1>3, <1>4, VolumeStays DEF Lost

\* A batch arrives.
LEMMA ReceiveKeepsVolume ==
  ASSUME MonitorInv, made \in Seq(MadeCalls), ReceiveBatch, NEW A, IsVolume(A), VolumeKept(A)
  PROVE  VolumeKept(A)'
<1>1. /\ pending = <<>> /\ channel # <<>>
      /\ pending' = Head(channel) /\ channel' = Tail(channel)
      /\ UNCHANGED <<platform, guestRate, batch, failedSends, engineVars, made>>
  BY DEF ReceiveBatch, historyVars
<1>2. AgentKept /\ EngineKept /\ MonitorInv'
  BY ReceiveKeeps DEF MonitorInv
<1>3. Coming(A)' = Coming(A)
  <2>1. Received(A)' = Received(A) /\ InReport(A)' = InReport(A) /\ InBatch(A)' = InBatch(A)
    BY <1>1 DEF Received, engineVars, InReport, InBatch
  <2>2. UnderWay(A)' = Amount(InReport(A), Head(channel))
                         + (Amount(InBatch(A), Tail(channel)) + Amount(InReport(A), batch))
    BY <1>1, <2>1 DEF UnderWay, Held
  <2>3. /\ channel \in Seq(Seq(Reports)) /\ batch \in Seq(Reports) /\ pending \in Seq(Reports)
    BY <1>2, UnderWayIsNat
  <2>4. /\ Amount(InBatch(A), channel)
             = Amount(InReport(A), Head(channel)) + Amount(InBatch(A), Tail(channel))
        /\ Amount(InReport(A), pending) = 0
    BY <1>1, <2>3, InBatches, InReports
  <2>5. /\ Amount(InReport(A), Head(channel)) \in Nat
        /\ Amount(InBatch(A), Tail(channel)) \in Nat
        /\ Amount(InReport(A), batch) \in Nat
    <3>1. Head(channel) \in Seq(Reports) /\ Tail(channel) \in Seq(Seq(Reports))
      BY <1>1, <2>3, HeadTailProperties
    <3> QED BY <2>3, <3>1, InBatches, InReports
  <2>6. UnderWay(A)' = UnderWay(A)
    BY <2>2, <2>4, <2>5 DEF UnderWay, Held
  <2> QED BY <2>1, <2>6 DEF Coming
<1> QED BY <1>1, <1>2, <1>3, VolumeStays

\* What ingest() does to the counters and the signals: nothing when the host does
\* not know the name, and otherwise it counts what is reported, by the name that
\* the sample's call has.
LEMMA IngestReceives ==
  ASSUME AgentKept, EngineKept, NEW call \in Reports, NEW st, Ingest(call, st)
  PROVE  \/ Resolved(call.raw) = {} /\ UNCHANGED engineVars
         \/ LET api == Canonical(call.raw)
                n == Within(hostRate, api, call.n, now)
            IN  /\ Resolved(call.raw) # {} /\ api \in Apis /\ n \in 0..call.n
                /\ hostRate' = Spend(hostRate, api, call.n, now)
                /\ callCounts' = Bump(callCounts, api, call.n)
                /\ \/ n > 0 /\ TrackAndroidSignals(call, api, n)
                   \/ n = 0 /\ signals' = signals
<1>1. CASE Resolved(call.raw) = {}
  BY <1>1, Zenon DEF Ingest
<1>2. CASE Resolved(call.raw) # {}
  <2>1. PICK api \in Resolved(call.raw) :
          LET n == Within(hostRate, api, call.n, now)
          IN  /\ Counted(call, api, n)
              /\ IF n > 0 THEN Log(call, api, n, st) ELSE Suppress
    BY <1>2, Zenon DEF Ingest, Counted
  <2>2. api = Canonical(call.raw)
    BY ResolvedAssumption DEF Resolved
  <2> DEFINE n == Within(hostRate, api, call.n, now)
  <2>3. api \in Apis
    BY ResolvedAreApis
  <2>4. n \in 0..call.n
    <3>1. now \in Nat /\ IsRates(hostRate, now) /\ call.n \in Nat
      BY DEF AgentKept, EngineKept, Reports
    <3> QED BY <2>3, <3>1, WithinBounds
  <2>5. /\ hostRate' = Spend(hostRate, api, call.n, now)
        /\ callCounts' = Bump(callCounts, api, call.n)
    BY <2>1, Zenon DEF Counted
  <2>6. IF n > 0 THEN TrackAndroidSignals(call, api, n) ELSE signals' = signals
    BY <2>1, Zenon DEF Log, Suppress
  <2>7. (n > 0 /\ TrackAndroidSignals(call, api, n)) \/ (n = 0 /\ signals' = signals)
    <3> HIDE DEF n
    <3> QED BY <2>4, <2>6
  <2> QED BY <1>2, <2>2, <2>3, <2>4, <2>5, <2>7
<1> QED BY <1>1, <1>2

\* A call of the batch is ingested: it was on its way, and now it is received.
LEMMA IngestKeepsVolume ==
  ASSUME MonitorInv, made \in Seq(MadeCalls), IngestNext, NEW A, IsVolume(A), VolumeKept(A)
  PROVE  VolumeKept(A)'
<1> DEFINE call == Head(pending)
<1>1. /\ pending # <<>> /\ Ingest(call, stage) /\ pending' = Tail(pending)
      /\ UNCHANGED <<agentVars, made>>
  BY DEF IngestNext
<1>2. AgentKept /\ EngineKept /\ MonitorInv' /\ pending \in Seq(Reports)
  BY IngestNextKeeps DEF MonitorInv, AgentKept
<1>3. call \in Reports /\ Tail(pending) \in Seq(Reports)
  BY <1>1, <1>2, HeadTailProperties
<1> DEFINE k == InReport(A)[call]
<1>4. k = IF Resolved(call.raw) # {} /\ Canonical(call.raw) \in A THEN call.n ELSE 0
  BY <1>3 DEF InReport
<1>5. /\ Amount(InReport(A), pending) = k + Amount(InReport(A), Tail(pending))
      /\ Amount(InReport(A), Tail(pending)) \in Nat /\ k \in Nat
  BY <1>1, <1>2, <1>3, InReports, ReportsAreCounted
<1>6. Held(A)' = Held(A) /\ InReport(A)' = InReport(A)
  BY <1>1 DEF Held, agentVars, InReport, InBatch
<1>7. Received(A)' = Received(A) + k
  <2> HIDE DEF call, k
  <2>1. CASE Resolved(call.raw) = {} /\ UNCHANGED engineVars
    <3>1. Received(A)' = Received(A) /\ k = 0
      BY <1>4, <2>1 DEF Received, engineVars
    <3> QED BY <1>2, <3>1, ReceivedIsNat
  <2>2. CASE /\ Resolved(call.raw) # {} /\ Canonical(call.raw) \in Apis
             /\ callCounts' = Bump(callCounts, Canonical(call.raw), call.n)
    <3>1. call.n \in Nat
      BY <1>3 DEF Reports
    <3>2. Received(A)' = Received(A) + IF Canonical(call.raw) \in A THEN call.n ELSE 0
      <4> DEFINE api == Canonical(call.raw)
                 n == call.n
      <4>1. api \in Apis /\ n \in Nat /\ callCounts' = Bump(callCounts, api, n)
        BY <2>2, <3>1
      <4> HIDE DEF api, n
      <4>2. Received(A)' = Received(A) + IF api \in A THEN n ELSE 0
        BY <1>2, <4>1, ReceivedAfterBump
      <4> QED BY <4>2 DEF api, n
    <3> QED BY <1>4, <2>2, <3>2
  <2> QED BY <1>1, <1>2, <1>3, <2>1, <2>2, IngestReceives, Zenon
<1>8. Coming(A)' = Coming(A)
  <2> DEFINE p == Amount(InReport(A), pending)
             q == Amount(InReport(A), Tail(pending))
             h == Held(A)
             r == Received(A)
  <2>1. h \in Nat /\ r \in Nat
    BY <1>2, UnderWayIsNat, ReceivedIsNat
  <2>2. Coming(A) = r + (p + h)
    BY DEF Coming, UnderWay
  <2>3. Coming(A)' = (r + k) + (q + h)
    BY <1>1, <1>6, <1>7 DEF Coming, UnderWay
  <2>4. p = k + q /\ q \in Nat /\ k \in Nat
    BY <1>5
  <2> HIDE DEF p, q, h, r, k
  <2> QED BY <2>1, <2>2, <2>3, <2>4
<1> QED BY <1>1, <1>2, <1>8, VolumeStays DEF agentVars

\* The signals that count the calls of some APIs.
RaisedBy(A, s) == \A api, marks : s \in SignalsOf(api, marks) <=> api \in A

Tracking == {"RequestLocationUpdates", "GetLastKnownLocation", "FusedLocationUpdates"}
Clipboard == {"ClipboardRead", "ClipboardCheck"}

LEMMA SignalsAreRaised ==
  RaisedBy(Tracking, "location_requests") /\ RaisedBy(Clipboard, "clipboard_polls")
<1>1. RaisedBy(Tracking, "location_requests")
  BY DEF RaisedBy, SignalsOf, Tracking
<1>2. RaisedBy(Clipboard, "clipboard_polls")
  BY DEF RaisedBy, SignalsOf, Clipboard
<1> QED BY <1>1, <1>2

\* Such a signal goes up with the calls that are logged.
LEMMA SignalAfter ==
  ASSUME NEW A, NEW s, RaisedBy(A, s), At(signals, s, 0) \in Nat, NEW call, NEW api,
         NEW n \in Nat, TrackAndroidSignals(call, api, n)
  PROVE  At(signals, s, 0)' = At(signals, s, 0) + IF api \in A THEN n ELSE 0
<1> DEFINE up == SignalsOf(api, call.marks)
<1>1. signals' = [x \in DOMAIN signals \cup up |->
                    At(signals, x, 0) + IF x \in up THEN n ELSE 0]
  BY Zenon DEF TrackAndroidSignals
<1>2. s \in up <=> api \in A
  BY DEF RaisedBy
<1>3. At(signals, s, 0)' = At(signals', s, 0)
  BY DEF At
<1> HIDE DEF up
<1>4. CASE s \in DOMAIN signals \cup up
  BY <1>1, <1>2, <1>3, <1>4 DEF At
<1>5. CASE s \notin DOMAIN signals \cup up
  BY <1>1, <1>2, <1>3, <1>5 DEF At
<1> QED BY <1>4, <1>5

\* Where nothing is ingested the signals stay.
LEMMA SignalStays ==
  ASSUME NEW A, NEW s, SignalKept(A, s), UNCHANGED engineVars
  PROVE  SignalKept(A, s)'
<1>1. signals' = signals /\ callCounts' = callCounts /\ hostRate' = hostRate
  BY DEF engineVars
<1> QED BY <1>1 DEF SignalKept, Received, At, Enough, Spent

\* Ingesting a call keeps them level with what was received, up to the budget.
LEMMA IngestKeepsSignal ==
  ASSUME MonitorInv, IngestNext, NEW A, IsVolume(A), NEW s, RaisedBy(A, s), SignalKept(A, s)
  PROVE  SignalKept(A, s)'
<1> DEFINE call == Head(pending)
<1>1. pending # <<>> /\ Ingest(call, stage)
  BY DEF IngestNext
<1>2. AgentKept /\ EngineKept /\ pending \in Seq(Reports) /\ now \in Nat
  BY DEF MonitorInv, AgentKept
<1>3. call \in Reports /\ call.n \in Nat
  <2>1. call \in Reports
    BY <1>1, <1>2, HeadTailProperties
  <2> QED BY <2>1 DEF Reports
<1> HIDE DEF call
<1>4. CASE UNCHANGED engineVars
  BY <1>4, SignalStays
<1>5. CASE LET api == Canonical(call.raw)
               n == Within(hostRate, api, call.n, now)
           IN  /\ Resolved(call.raw) # {} /\ api \in Apis /\ n \in 0..call.n
               /\ hostRate' = Spend(hostRate, api, call.n, now)
               /\ callCounts' = Bump(callCounts, api, call.n)
               /\ (n > 0 /\ TrackAndroidSignals(call, api, n)) \/ (n = 0 /\ signals' = signals)
  <2> DEFINE api == Canonical(call.raw)
             m == call.n
             n == Within(hostRate, api, m, now)
             k == At(signals, s, 0)
             r == Received(A)
             spent == Spend(hostRate, api, m, now)
  <2>1. /\ api \in Apis /\ n \in 0..m /\ m \in Nat /\ hostRate' = spent
        /\ callCounts' = Bump(callCounts, api, m)
        /\ (n > 0 /\ TrackAndroidSignals(call, api, n)) \/ (n = 0 /\ signals' = signals)
    BY <1>3, <1>5
  <2>2. /\ k \in Nat /\ k <= r /\ (k = r \/ Enough(A, k)) /\ Spent(A, hostRate, k)
        /\ r \in Nat
    BY <1>2, ReceivedIsNat DEF SignalKept
  <2>3. IsRates(hostRate, now)
    BY <1>2 DEF EngineKept
  <2>4. /\ DOMAIN spent = DOMAIN hostRate \cup {api}
        /\ \A a \in DOMAIN hostRate \ {api} : spent[a] = hostRate[a]
    <3> HIDE DEF api
    <3> QED BY DEF Spend, ++
  <2>5. At(signals, s, 0)' = k + IF api \in A THEN n ELSE 0
    <3> HIDE DEF api, n
    <3>1. CASE n = 0 /\ signals' = signals
      BY <2>2, <3>1 DEF At
    <3>2. CASE n > 0 /\ TrackAndroidSignals(call, api, n)
      BY <2>1, <2>2, <3>2, SignalAfter
    <3> QED BY <2>1, <3>1, <3>2
  <2>6. Received(A)' = r + IF api \in A THEN m ELSE 0
    <3> HIDE DEF api, m
    <3> QED BY <1>2, <2>1, ReceivedAfterBump
  <2>7. SignalKept(A, s)' <=>
          LET l == At(signals, s, 0)'
          IN  /\ l \in Nat /\ l <= Received(A)'
              /\ l = Received(A)' \/ Enough(A, l)
              /\ Spent(A, spent, l)
    BY <2>1 DEF SignalKept, Enough, Spent, At
  <2>8. CASE api \notin A
    <3>1. At(signals, s, 0)' = k /\ Received(A)' = r
      BY <2>2, <2>5, <2>6, <2>8
    <3>2. Spent(A, spent, k)
      <4> HIDE DEF spent, k, api
      <4> QED BY <2>2, <2>4, <2>8 DEF Spent
    <3> QED BY <2>2, <2>7, <3>1, <3>2
  <2>9. CASE api \in A
    <3>1. At(signals, s, 0)' = k + n /\ Received(A)' = r + m
      BY <2>5, <2>6, <2>9
    <3>2. (n = m \/ k + n >= RateLimit[api]) /\ Spent({api}, spent, k + n)
      <4>1. Spent({api}, hostRate, k)
        BY <2>2, <2>9 DEF Spent
      <4> HIDE DEF api, k, m
      <4> QED BY <1>2, <2>1, <2>2, <2>3, <4>1, BudgetLetsPass
    <3>3. k + n \in Nat /\ k <= k + n
      BY <2>1, <2>2
    <3>4. (Enough(A, k) => Enough(A, k + n)) /\ Spent(A, hostRate, k + n)
      <4> HIDE DEF k, n
      <4> QED BY <1>2, <2>2, <2>3, <3>3, MoreIsEnough DEF IsVolume
    <3>5. Spent(A, spent, k + n)
      <4> HIDE DEF spent, k, n, api
      <4> QED BY <2>4, <3>2, <3>4 DEF Spent
    <3>6. k + n = r + m \/ Enough(A, k + n)
      <4>1. n = m \/ Enough(A, k + n)
        <5> HIDE DEF k, n, api
        <5> QED BY <2>9, <3>2 DEF Enough
      <4> HIDE DEF k, n, r, m
      <4> QED BY <2>2, <3>4, <4>1
    <3> HIDE DEF k, n, r, m, spent
    <3> QED BY <2>1, <2>2, <2>7, <3>1, <3>3, <3>5, <3>6
  <2> QED BY <2>8, <2>9
<1> QED BY <1>1, <1>2, <1>3, <1>4, <1>5, IngestReceives, Zenon

\* Everything about every volume finding.
VolumeInv ==
    /\ MonitorInv
    /\ made \in Seq(MadeCalls)
    /\ \A f \in DOMAIN VolumeApis : VolumeKept(VolumeApis[f])
    /\ SignalKept(Tracking, "location_requests")
    /\ SignalKept(Clipboard, "clipboard_polls")

\* Two of the findings are judged on a signal.
LEMMA SignalsAreJudged ==
  /\ VolumeApis["android_continuous_tracking"] = Tracking /\ IsVolume(Tracking)
  /\ VolumeApis["android_clipboard_monitoring"] = Clipboard /\ IsVolume(Clipboard)
<1>1. /\ VolumeApis["android_continuous_tracking"] = Tracking
      /\ VolumeApis["android_clipboard_monitoring"] = Clipboard
      /\ "android_continuous_tracking" \in DOMAIN VolumeApis
      /\ "android_clipboard_monitoring" \in DOMAIN VolumeApis
  BY DEF VolumeApis, Tracking, Clipboard
<1>2. \A f \in DOMAIN VolumeApis : IsVolume(VolumeApis[f])
  BY VolumesAreJudged
<1>3. /\ IsVolume(VolumeApis["android_continuous_tracking"])
      /\ IsVolume(VolumeApis["android_clipboard_monitoring"])
  BY <1>1, <1>2, Zenon
<1> QED BY <1>1, <1>3, Zenon

\* Nothing has been called yet.
LEMMA VolumeInvInit == Init => VolumeInv
<1> SUFFICES ASSUME Init PROVE VolumeInv
  OBVIOUS
<1>1. MonitorInv
  BY MonitorInvInit
<1>2. made = <<>> /\ made \in Seq(MadeCalls)
  BY DEF Init
<1>3. /\ pending = <<>> /\ batch = <<>> /\ channel = <<>> /\ DOMAIN guestRate = {}
      /\ DOMAIN callCounts = {} /\ DOMAIN signals = {} /\ DOMAIN hostRate = {}
  BY DEF Init, AgentInit, EngineInit, NoRecords, NoRates, Empty
<1>4. ASSUME NEW A, IsVolume(A)
      PROVE  Received(A) = 0 /\ UnderWay(A) = 0 /\ TimesMade(A) = 0
  <2>1. Received(A) = 0
    <3> DEFINE f == [a \in A |-> At(callCounts, a, 0)]
    <3>1. \A a \in A : f[a] = 0
      BY <1>3 DEF At
    <3> HIDE DEF f
    <3>2. Sum(f, A) = 0
      BY <1>4, <3>1, SumOfNothing DEF IsVolume
    <3> QED BY <3>2 DEF Received, f
  <2>2. UnderWay(A) = 0
    <3>1. <<>> \in Seq(Reports) /\ <<>> \in Seq(Seq(Reports))
      OBVIOUS
    <3>2. Amount(InReport(A), <<>>) = 0 /\ Amount(InBatch(A), <<>>) = 0
      BY <3>1, InReports, InBatches
    <3> QED BY <1>3, <3>2 DEF UnderWay, Held
  <2>3. TimesMade(A) = 0
    <3>1. MadeOf(A) = {}
      BY <1>2 DEF MadeOf
    <3>2. Sum(Numbers, {}) = 0
      BY FS_EmptySet, SumUnfolds
    <3> QED BY <3>1, <3>2, TimesMadeIsSum
  <2> QED BY <2>1, <2>2, <2>3
<1>5. ASSUME NEW A, IsVolume(A) PROVE VolumeKept(A)
  BY <1>3, <1>4, <1>5 DEF VolumeKept, Coming, Spent
<1>6. ASSUME NEW A, IsVolume(A), NEW s PROVE SignalKept(A, s)
  BY <1>3, <1>4, <1>6 DEF SignalKept, At, Spent
<1>7. \A f \in DOMAIN VolumeApis : VolumeKept(VolumeApis[f])
  BY <1>5, VolumesAreJudged
<1> QED BY <1>1, <1>2, <1>6, <1>7, SignalsAreJudged DEF VolumeInv

\* Every step keeps what is known of a finding.
LEMMA StepKeepsVolume ==
  ASSUME MonitorInv, made \in Seq(MadeCalls), [Next]_vars, NEW A, IsVolume(A), VolumeKept(A)
  PROVE  VolumeKept(A)' /\ made' \in Seq(MadeCalls)
<1>1. CASE SampleCalls
  BY <1>1, SampleKeepsVolume, SampleRecords
<1>2. CASE TimerFires
  BY <1>2, TimerKeepsVolume DEF TimerFires, historyVars
<1>3. CASE ReceiveBatch
  BY <1>3, ReceiveKeepsVolume DEF ReceiveBatch, historyVars
<1>4. CASE IngestNext
  BY <1>4, IngestKeepsVolume DEF IngestNext
<1>5. CASE UNCHANGED <<agentVars, engineVars, pending, made>>
  <2>1. Coming(A)' = Coming(A)
    BY <1>5 DEF Coming, Received, UnderWay, Held, InReport, InBatch, agentVars, engineVars
  <2>2. MonitorInv'
    BY MonitorInvStep
  <2> QED BY <1>5, <2>1, <2>2, VolumeStays DEF agentVars
<1> QED
  BY <1>1, <1>2, <1>3, <1>4, <1>5
  DEF Next, EnterStage, ExitStage, vars, monitorVars, historyVars

\* And of a signal.
LEMMA StepKeepsSignal ==
  ASSUME MonitorInv, [Next]_vars, NEW A, IsVolume(A), NEW s, RaisedBy(A, s), SignalKept(A, s)
  PROVE  SignalKept(A, s)'
<1>1. CASE IngestNext
  BY <1>1, IngestKeepsSignal
<1>2. CASE UNCHANGED engineVars
  BY <1>2, SignalStays
<1> QED
  BY <1>1, <1>2
  DEF Next, SampleCalls, TimerFires, ReceiveBatch, EnterStage, ExitStage, vars

LEMMA VolumeInvStep == VolumeInv /\ [Next]_vars => VolumeInv'
<1> SUFFICES ASSUME VolumeInv, [Next]_vars PROVE VolumeInv'
  OBVIOUS
<1>1. MonitorInv /\ made \in Seq(MadeCalls) /\ MonitorInv'
  BY MonitorInvStep DEF VolumeInv
<1>2. ASSUME NEW f \in DOMAIN VolumeApis
      PROVE  VolumeKept(VolumeApis[f])' /\ made' \in Seq(MadeCalls)
  <2>1. IsVolume(VolumeApis[f]) /\ VolumeKept(VolumeApis[f])
    BY VolumesAreJudged DEF VolumeInv
  <2> QED BY <1>1, <2>1, StepKeepsVolume
<1>3. /\ SignalKept(Tracking, "location_requests")'
      /\ SignalKept(Clipboard, "clipboard_polls")'
  BY <1>1, SignalsAreJudged, SignalsAreRaised, StepKeepsSignal DEF VolumeInv
<1>4. "mass_deletion" \in DOMAIN VolumeApis
  BY DEF VolumeApis
<1> QED BY <1>1, <1>2, <1>3, <1>4 DEF VolumeInv

LEMMA VolumeInvHolds == Spec => []VolumeInv
  BY VolumeInvInit, VolumeInvStep, PTL DEF Spec

-----------------------------------------------------------------------------
(* The findings on the volume of calls *)

\* Once nothing is under way, the number a finding is judged on reaches the
\* finding's threshold exactly when the calls that were made reach it.
LEMMA CountIsJudged ==
  ASSUME VolumeInv, Drained, NothingLost, NEW f \in DOMAIN VolumeApis,
         NEW count \in Nat, NEW limit \in Nat, \A a \in VolumeApis[f] : RateLimit[a] >= limit,
         count <= Received(VolumeApis[f]),
         count = Received(VolumeApis[f]) \/ Enough(VolumeApis[f], count)
  PROVE  count >= limit <=> TimesMade(VolumeApis[f]) >= limit
<1> DEFINE A == VolumeApis[f]
           r == Received(A)
           t == TimesMade(A)
<1>1. /\ IsVolume(A) /\ VolumeKept(A) /\ MonitorInv /\ AgentKept /\ EngineKept
      /\ made \in Seq(MadeCalls)
  BY VolumesAreJudged DEF VolumeInv, MonitorInv
<1>2. r \in Nat /\ t \in Nat
  BY <1>1, ReceivedIsNat, TimesMadeIsNat
<1>3. UnderWay(A) = 0
  <2>1. pending = <<>> /\ batch = <<>> /\ channel = <<>>
    BY DEF Drained, NoRecords
  <2>2. <<>> \in Seq(Reports) /\ <<>> \in Seq(Seq(Reports))
    OBVIOUS
  <2>3. Amount(InReport(A), <<>>) = 0 /\ Amount(InBatch(A), <<>>) = 0
    BY <2>2, InReports, InBatches
  <2> QED BY <2>1, <2>3 DEF UnderWay, Held
<1>4. Coming(A) = r
  BY <1>2, <1>3 DEF Coming
<1>5. r <= t /\ (r = t \/ Enough(A, r))
  BY <1>1, <1>4 DEF VolumeKept
<1>6. \A a \in A : RateLimit[a] \in Nat
  BY <1>1, LimitsAreNatural DEF IsVolume
<1>7. ASSUME NEW n \in Nat, Enough(A, n) PROVE n >= limit
  BY <1>6, <1>7 DEF Enough
<1> HIDE DEF r, t
<1>8. (count = r \/ count >= limit) /\ (r = t \/ r >= limit) /\ count <= r /\ r <= t
  BY <1>2, <1>5, <1>7 DEF r
<1> QED BY <1>2, <1>8 DEF t

\* volume_findings(): for every sample, every batch size, every failure of the
\* channel that loses nothing and whatever the budgets of the guest and of the
\* host keep from the engine, each of the six findings on the plain volume of
\* calls is made exactly when the sample has made that many.
THEOREM VolumesAreJudgedOnTruth == Spec => []VolumeJudgedOnTruth
<1>1. ASSUME VolumeInv PROVE VolumeJudgedOnTruth
  <2> DEFINE limit == WindowsVolumes(Empty, Empty) ++ AndroidVolumes(Empty, Empty, 0)
  <2> SUFFICES ASSUME Drained, NothingLost, NEW f \in DOMAIN VolumeApis
               PROVE  f \in VolumeFindings <=> TimesMade(VolumeApis[f]) >= limit[f][2]
    BY DEF VolumeJudgedOnTruth
  <2> DEFINE A == VolumeApis[f]
             volumes == WindowsVolumes(callCounts, chainCounts)
                          ++ AndroidVolumes(callCounts, signals, Cardinality(permissions))
             count == volumes[f][1]
             l == limit[f][2]
  <2>1. f \in VolumeFindings <=> count >= l
    BY DEF VolumeFindings, OverThreshold, WindowsVolumes, AndroidVolumes, VolumeApis, ++
  <2>2. l \in Nat /\ \A a \in A : RateLimit[a] >= l
    <3>1. l \in Nat
      BY DEF WindowsVolumes, AndroidVolumes, VolumeApis, ++
    <3> QED BY <3>1, VolumesAreJudged
  <2>3. count \in Nat /\ count <= Received(A) /\ (count = Received(A) \/ Enough(A, count))
    <3>1. EngineKept /\ IsVolume(A) /\ Received(A) \in Nat
      <4>1. EngineKept /\ IsVolume(A)
        BY <1>1, VolumesAreJudged DEF VolumeInv, MonitorInv
      <4> QED BY <4>1, ReceivedIsNat
    <3>2. CASE f = "mass_deletion"
      <4>1. A = {"DeleteFile"}
        BY <3>2 DEF VolumeApis
      <4>2. count = At(callCounts, "DeleteFile", 0)
        BY <3>2 DEF WindowsVolumes, AndroidVolumes, ++
      <4> HIDE DEF A, count
      <4> QED BY <3>1, <4>1, <4>2, ReceivedIsCount
    <3>3. CASE f = "heavy_dynamic_resolution"
      <4>1. A = {"GetProcAddress"}
        BY <3>3 DEF VolumeApis
      <4>2. count = At(callCounts, "GetProcAddress", 0)
        BY <3>3 DEF WindowsVolumes, AndroidVolumes, ++
      <4> HIDE DEF A, count
      <4> QED BY <3>1, <4>1, <4>2, ReceivedIsCount
    <3>4. CASE f = "android_sustained_audio_capture"
      <4>1. A = {"AudioRecordRead"}
        BY <3>4 DEF VolumeApis
      <4>2. count = At(callCounts, "AudioRecordRead", 0)
        BY <3>4 DEF WindowsVolumes, AndroidVolumes, ++
      <4> HIDE DEF A, count
      <4> QED BY <3>1, <4>1, <4>2, ReceivedIsCount
    <3>5. CASE f = "android_sms_burst"
      <4>1. A = {"SendSMS", "SendMultipartSMS"}
        BY <3>5 DEF VolumeApis
      <4>2. count = At(callCounts, "SendSMS", 0) + At(callCounts, "SendMultipartSMS", 0)
        BY <3>5 DEF WindowsVolumes, AndroidVolumes, ++
      <4> HIDE DEF A, count
      <4> QED BY <3>1, <4>1, <4>2, ReceivedIsCount
    <3>6. CASE f = "android_continuous_tracking"
      <4>1. A = Tracking /\ SignalKept(Tracking, "location_requests")
        BY <1>1, <3>6, SignalsAreJudged DEF VolumeInv
      <4>2. count = At(signals, "location_requests", 0)
        BY <3>6 DEF WindowsVolumes, AndroidVolumes, ++
      <4> HIDE DEF A, count
      <4> QED BY <4>1, <4>2 DEF SignalKept
    <3>7. CASE f = "android_clipboard_monitoring"
      <4>1. A = Clipboard /\ SignalKept(Clipboard, "clipboard_polls")
        BY <1>1, <3>7, SignalsAreJudged DEF VolumeInv
      <4>2. count = At(signals, "clipboard_polls", 0)
        BY <3>7 DEF WindowsVolumes, AndroidVolumes, ++
      <4> HIDE DEF A, count
      <4> QED BY <4>1, <4>2 DEF SignalKept
    <3> QED BY <3>2, <3>3, <3>4, <3>5, <3>6, <3>7 DEF VolumeApis
  <2> QED BY <1>1, <2>1, <2>2, <2>3, CountIsJudged
<1> QED BY <1>1, VolumeInvHolds, PTL

-----------------------------------------------------------------------------
(* The sample's calls the host knows *)

\* What the host is told of a call, or of a report, when it knows the name.
Told(c) == [api |-> Canonical(c.raw), at |-> c.at, n |-> c.n, marks |-> c.marks]

AddKnown(p) ==
    [y \in Seq(Records) \X MadeCalls |->
        IF y[2].pid = p /\ Hooked(y[2]) THEN Append(y[1], Told(y[2])) ELSE y[1]]

\* The fold of Known(), as a table of its parts.
KnownStep(p, q, g, s) ==
    IF s = {} THEN <<>>
    ELSE IF q[Max(s)].pid = p /\ Hooked(q[Max(s)])
         THEN Append(g[s \ {Max(s)}], Told(q[Max(s)]))
         ELSE g[s \ {Max(s)}]
KnownTable(p, q) == CHOOSE g : g = [s \in SUBSET DOMAIN q |-> KnownStep(p, q, g, s)]

\* Known() is that fold.
LEMMA KnownIsTable ==
  ASSUME NEW q, NEW p
  PROVE  Known(q, p) = KnownTable(p, q)[DOMAIN q]
  BY ZenonT(60) DEF Known, KnownTable, KnownStep, Told, FoldLeft, MapThenFoldSet

\* A call the host knows is told as a record.
LEMMA ToldIsRecord ==
  ASSUME platform \in Platforms, NEW c \in MadeCalls, Hooked(c)
  PROVE  Told(c) \in Records
<1>1. Canonical(c.raw) \in Apis
  BY HookedAssumption DEF Hooked
<1>2. c.at \in Nat /\ c.n \in Nat \ {0} /\ c.marks \in SUBSET Marks
  BY DEF MadeCalls, Marks
<1> QED BY <1>1, <1>2 DEF Told, Records

LEMMA KnownKeeps ==
  ASSUME platform \in Platforms, NEW p
  PROVE  StaysIn(AddKnown(p), Seq(Records), MadeCalls)
<1> SUFFICES ASSUME NEW q \in Seq(Records), NEW c \in MadeCalls
             PROVE  (IF c.pid = p /\ Hooked(c) THEN Append(q, Told(c)) ELSE q) \in Seq(Records)
  BY DEF StaysIn, AddKnown
<1>1. Hooked(c) => Append(q, Told(c)) \in Seq(Records)
  BY ToldIsRecord
<1> QED BY <1>1

LEMMA KnownIs ==
  ASSUME platform \in Platforms, NEW p, NEW q \in Seq(MadeCalls)
  PROVE  Known(q, p) = Folded(AddKnown(p), <<>>, q)
<1> DEFINE op == AddKnown(p)
           n == Len(q)
           G == FoldTable(op, <<>>, q)
           K == KnownTable(p, q)
<1>1. <<>> \in Seq(Records) /\ StaysIn(op, Seq(Records), MadeCalls)
  BY KnownKeeps
<1>2. /\ n \in Nat /\ G \in [SUBSET (1..n) -> Seq(Records)]
      /\ IsTable(n, op, <<>>, q, G)
  <2> HIDE DEF op
  <2> QED BY <1>1, FoldHasTable
<1>3. DOMAIN q = 1..n /\ \A i \in 1..n : q[i] \in MadeCalls
  OBVIOUS
<1> HIDE DEF n, G
<1>4. \A s \in SUBSET (1..n) : G[s] = KnownStep(p, q, G, s)
  <2> SUFFICES ASSUME NEW s \in SUBSET (1..n) PROVE G[s] = KnownStep(p, q, G, s)
    OBVIOUS
  <2>1. G[s] = FoldsTo(op, <<>>, q, G, s)
    BY <1>2 DEF IsTable
  <2>2. CASE s = {}
    BY <2>1, <2>2 DEF FoldsTo, KnownStep
  <2>3. CASE s # {}
    <3> DEFINE m == Max(s)
               t == s \ {m}
    <3>1. m \in 1..n /\ t \in SUBSET (1..n)
      BY <1>2, <2>3, LastIsIn
    <3>2. G[t] \in Seq(Records) /\ q[m] \in MadeCalls
      BY <1>2, <1>3, <3>1
    <3>3. op[<<G[t], q[m]>>]
            = IF q[m].pid = p /\ Hooked(q[m]) THEN Append(G[t], Told(q[m])) ELSE G[t]
      <4> HIDE DEF m, t
      <4> QED BY <3>2 DEF AddKnown
    <3> HIDE DEF op
    <3> QED BY <2>1, <2>3, <3>3 DEF FoldsTo, KnownStep
  <2> QED BY <2>2, <2>3
<1>5. G = [s \in SUBSET (1..n) |-> KnownStep(p, q, G, s)]
  <2>1. G = [s \in SUBSET (1..n) |-> G[s]]
    BY <1>2
  <2> QED BY <1>4, <2>1
<1>6. K = [s \in SUBSET (1..n) |-> KnownStep(p, q, K, s)]
  BY <1>3, <1>5, Zenon DEF KnownTable
<1> HIDE DEF K
<1>7. \A s \in SUBSET (1..n) : K[s] = G[s]
  <2> DEFINE S == 1..n
  <2> DEFINE B == {s \in SUBSET S : K[s] # G[s]}
  <2> SUFFICES ASSUME B # {} PROVE FALSE
    OBVIOUS
  <2>1. PICK s \in B : \A t \in B : t \subseteq s => t = s
    <3>1. B \in SUBSET SUBSET S /\ IsFiniteSet(S)
      BY <1>2, FS_Interval
    <3> HIDE DEF B, S
    <3> QED BY <3>1, SmallestSet
  <2>2. K[s] = KnownStep(p, q, K, s) /\ G[s] = KnownStep(p, q, G, s)
    BY <1>4, <1>6
  <2>3. s # {}
    BY <2>2 DEF KnownStep
  <2> DEFINE t == s \ {Max(s)}
  <2>4. t \in SUBSET S /\ t # s
    BY <1>2, <2>3, LastIsIn
  <2>5. K[t] = G[t]
    BY <2>1, <2>4
  <2> QED BY <2>2, <2>3, <2>5 DEF KnownStep
<1>8. 1..n \in SUBSET (1..n)
  OBVIOUS
<1> QED BY <1>3, <1>7, <1>8, KnownIsTable DEF Folded, G, K, n

\* It is a history of records.
LEMMA KnownIsHistory ==
  ASSUME platform \in Platforms, NEW p
  PROVE  /\ \A q \in Seq(MadeCalls) : Known(q, p) \in Seq(Records)
         /\ Known(<<>>, p) = <<>>
<1> DEFINE op == AddKnown(p)
           V == Seq(Records)
<1>1. StaysIn(op, V, MadeCalls) /\ <<>> \in V /\ <<>> \in Seq(MadeCalls)
  BY KnownKeeps
<1> HIDE DEF V, op
<1>2. /\ \A q \in Seq(MadeCalls) : Folded(op, <<>>, q) \in V
      /\ Folded(op, <<>>, <<>>) = <<>>
  BY <1>1, FoldedIsIn, FoldedNothing
<1> QED BY <1>1, <1>2, KnownIs DEF V, op

\* After a step it is that of the calls then made.
LEMMA MadeIsKnown ==
  ASSUME platform \in Platforms, made \in Seq(MadeCalls), NEW p
  PROVE  Known(made, p) = Folded(AddKnown(p), <<>>, made)
  BY KnownIs

LEMMA KnownNext ==
  ASSUME platform \in Platforms, platform' = platform, made' \in Seq(MadeCalls)
  PROVE  \A p : Known(made, p)' = Known(made', p)
<1> SUFFICES ASSUME NEW p PROVE Known(made, p)' = Known(made', p)
  OBVIOUS
<1>1. (platform \in Platforms /\ made \in Seq(MadeCalls)
          => Known(made, p) = Folded(AddKnown(p), <<>>, made))'
  BY MadeIsKnown, PTL
<1>2. AddKnown(p)' = AddKnown(p)
  BY DEF AddKnown, Hooked
<1>3. Known(made, p)' = Folded(AddKnown(p), <<>>, made')
  BY <1>1, <1>2
<1> QED BY <1>3, KnownIs

\* A call more that was made.
LEMMA KnownGrows ==
  ASSUME platform \in Platforms, NEW p, NEW q \in Seq(MadeCalls), NEW c \in MadeCalls
  PROVE  /\ Known(Append(q, c), p)
              = IF c.pid = p /\ Hooked(c) THEN Append(Known(q, p), Told(c)) ELSE Known(q, p)
<1> DEFINE op == AddKnown(p)
<1>1. <<>> \in Seq(Records) /\ Append(q, c) \in Seq(MadeCalls)
  OBVIOUS
<1>2. StaysIn(op, Seq(Records), MadeCalls)
  BY KnownKeeps
<1> HIDE DEF op
<1>3. /\ Folded(op, <<>>, q) \in Seq(Records)
      /\ Folded(op, <<>>, Append(q, c)) = op[<<Folded(op, <<>>, q), c>>]
  <2> DEFINE V == Seq(Records)
  <2>1. StaysIn(op, V, MadeCalls) /\ <<>> \in V
    BY <1>1, <1>2
  <2> HIDE DEF V
  <2>2. Folded(op, <<>>, q) \in V
    BY <2>1, FoldedIsIn
  <2>3. Folded(op, <<>>, Append(q, c)) = op[<<Folded(op, <<>>, q), c>>]
    BY <2>1, FoldedAppend
  <2> QED BY <2>2, <2>3 DEF V
<1>4. /\ Known(q, p) = Folded(op, <<>>, q)
      /\ Known(Append(q, c), p) = Folded(op, <<>>, Append(q, c))
  BY <1>1, KnownIs DEF op
<1>5. \A k \in Seq(Records) :
         op[<<k, c>>] = IF c.pid = p /\ Hooked(c) THEN Append(k, Told(c)) ELSE k
  BY DEF op, AddKnown
<1> QED BY <1>3, <1>4, <1>5

-----------------------------------------------------------------------------
(* What the plain rules see of a history *)

PlainRules == {r \in RuleBook : ~OnHandle(r)}

View(c) == [api |-> c.api, at |-> c.at, n |-> c.n, met |-> {r \in PlainRules : Satisfies(r, c)}]
ViewSet == [api : Apis, at : Nat, n : Nat, met : SUBSET PlainRules]
Views(q) == [i \in 1..Len(q) |-> View(q[i])]

LEMMA ViewIsOne ==
  ASSUME NEW c, c.api \in Apis, c.at \in Nat, c.n \in Nat
  PROVE  View(c) \in ViewSet
  BY DEF View, ViewSet

\* What they see of a history is as long, and grows with it.
LEMMA ViewsAre ==
  ASSUME NEW q \in Seq(Records)
  PROVE  Views(q) \in Seq(ViewSet) /\ Len(Views(q)) = Len(q)
<1>1. \A d \in Records : View(d) \in ViewSet
  BY ViewIsOne DEF Records
<1> QED BY <1>1 DEF Views

LEMMA ViewsGrow ==
  ASSUME NEW q \in Seq(Records), NEW c \in Records
  PROVE  Views(Append(q, c)) = Append(Views(q), View(c))
<1>1. \A d \in Records : View(d) \in ViewSet
  BY ViewIsOne DEF Records
<1> DEFINE v == [d \in Records |-> View(d)]
<1>2. Views(q) = [i \in 1..Len(q) |-> v[q[i]]] /\ v \in [Records -> ViewSet]
  BY <1>1 DEF Views
<1>3. Views(Append(q, c)) = [i \in 1..Len(Append(q, c)) |-> v[Append(q, c)[i]]]
  <2>1. \A i \in 1..Len(Append(q, c)) : Append(q, c)[i] \in Records
    OBVIOUS
  <2> QED BY <2>1 DEF Views
<1>4. v[c] = View(c)
  OBVIOUS
<1> HIDE DEF v
<1>5. Views(Append(q, c)) = Append(Views(q), v[c])
  BY <1>2, <1>3
<1> QED BY <1>4, <1>5

-----------------------------------------------------------------------------
(* The history a process will have once all that is on its way was logged *)

\* A report that is ingested, and a batch of them.
TakeReport(p) ==
    [y \in Seq(ViewSet) \X Reports |->
        IF y[2].pid = p /\ Resolved(y[2].raw) # {} THEN Append(y[1], View(Told(y[2])))
        ELSE y[1]]
TakeBatch(p) ==
    [y \in Seq(ViewSet) \X Batches |-> Folded(TakeReport(p), y[1], y[2])]

Way(p, base, ch, b) == Folded(TakeReport(p), Folded(TakeBatch(p), base, ch), b)

LEMMA TakingKeeps ==
  ASSUME NEW p
  PROVE  /\ StaysIn(TakeReport(p), Seq(ViewSet), Reports)
         /\ StaysIn(TakeBatch(p), Seq(ViewSet), Batches)
<1>1. StaysIn(TakeReport(p), Seq(ViewSet), Reports)
  <2> SUFFICES ASSUME NEW q \in Seq(ViewSet), NEW c \in Reports
               PROVE  (IF c.pid = p /\ Resolved(c.raw) # {} THEN Append(q, View(Told(c))) ELSE q)
                         \in Seq(ViewSet)
    BY DEF StaysIn, TakeReport
  <2>1. ASSUME Resolved(c.raw) # {} PROVE View(Told(c)) \in ViewSet
    <3>1. PICK api \in Resolved(c.raw) : TRUE
      BY <2>1
    <3>2. api = Canonical(c.raw) /\ api \in Apis
      BY ResolvedAssumption, ResolvedAreApis DEF Resolved
    <3>3. /\ Told(c).api = Canonical(c.raw) /\ Told(c).at = c.at /\ Told(c).n = c.n
          /\ c.at \in Nat /\ c.n \in Nat
      BY DEF Told, Reports
    <3> QED BY <3>2, <3>3, ViewIsOne
  <2> QED BY <2>1
<1> DEFINE op == TakeReport(p)
<1>2. \A q \in Seq(ViewSet), b \in Batches : Folded(op, q, b) \in Seq(ViewSet)
  <2> HIDE DEF op
  <2> QED BY <1>1, FoldedIsIn DEF Batches, op
<1> QED BY <1>1, <1>2 DEF StaysIn, TakeBatch

\* A report that joins the batch.
LEMMA WayAppends ==
  ASSUME NEW p, NEW base \in Seq(ViewSet), NEW ch \in Seq(Batches), NEW b \in Batches,
         NEW c \in Reports
  PROVE  Way(p, base, ch, Append(b, c)) = TakeReport(p)[<<Way(p, base, ch, b), c>>]
<1> DEFINE op == TakeReport(p)
           bop == TakeBatch(p)
           V == Seq(ViewSet)
           z == Folded(bop, base, ch)
<1>1. StaysIn(op, V, Reports) /\ StaysIn(bop, V, Batches) /\ base \in V /\ b \in Seq(Reports)
  BY TakingKeeps DEF Batches
<1> HIDE DEF op, bop, V
<1>2. z \in V
  BY <1>1, FoldedIsIn
<1> HIDE DEF z
<1>3. Folded(op, z, Append(b, c)) = op[<<Folded(op, z, b), c>>]
  BY <1>1, <1>2, FoldedAppend
<1> QED BY <1>3 DEF Way, op, bop, z

\* A batch that is sent, and one that is received.
LEMMA WayIs ==
  ASSUME NEW p, NEW base \in Seq(ViewSet), NEW ch \in Seq(Batches), NEW b \in Batches
  PROVE  /\ Way(p, base, ch, b) \in Seq(ViewSet)
         /\ Way(p, base, <<>>, <<>>) = base
         /\ Way(p, base, Append(ch, b), <<>>) = Way(p, base, ch, b)
         /\ ch # <<>> =>
               Way(p, base, ch, b)
                 = Way(p, Folded(TakeReport(p), base, Head(ch)), Tail(ch), b)
<1> DEFINE op == TakeReport(p)
           bop == TakeBatch(p)
           V == Seq(ViewSet)
           z == Folded(bop, base, ch)
<1>1. StaysIn(op, V, Reports) /\ StaysIn(bop, V, Batches)
  BY TakingKeeps
<1>2. \A q \in V, d \in Batches : bop[<<q, d>>] = Folded(op, q, d)
  BY DEF TakeBatch
<1>3. \A q \in V : Way(p, q, ch, b) = Folded(op, Folded(bop, q, ch), b)
  BY DEF Way
<1> HIDE DEF op, bop, V
<1>4. b \in Seq(Reports) /\ <<>> \in Batches /\ base \in V
  BY DEF Batches, V
<1>5. z \in V
  BY <1>1, <1>4, FoldedIsIn
<1> HIDE DEF z
<1>6. Folded(op, z, b) \in V
  BY <1>1, <1>4, <1>5, FoldedIsIn
<1>7. \A q \in V : Folded(op, q, <<>>) = q /\ Folded(bop, q, <<>>) = q
  BY <1>1, FoldedNothing
<1>8. Folded(bop, base, Append(ch, b)) = Folded(op, z, b)
  <2>1. Folded(bop, base, Append(ch, b)) = bop[<<z, b>>]
    BY <1>1, <1>4, FoldedAppend DEF z
  <2> QED BY <1>2, <1>5, <2>1
<1>9. ASSUME ch # <<>>
       PROVE  z = Folded(bop, Folded(op, base, Head(ch)), Tail(ch))
  <2>1. z = Folded(bop, bop[<<base, Head(ch)>>], Tail(ch))
    BY <1>1, <1>4, <1>9, FoldedTail DEF z
  <2>2. Head(ch) \in Batches
    BY <1>9, HeadTailProperties
  <2> QED BY <1>2, <1>4, <2>1, <2>2
<1> QED BY <1>4, <1>5, <1>6, <1>7, <1>8, <1>9 DEF Way, op, bop, z, V

-----------------------------------------------------------------------------
(* What the agent does to it *)

\* flush() takes the reports a step further on their way.
LEMMA FlushWay ==
  ASSUME AgentKept, NEW p, NEW base \in Seq(ViewSet), NEW records \in Batches,
         Flush(records), ~Lost
  PROVE  Way(p, base, channel', batch') = Way(p, base, channel, records)
<1>1. channel \in Seq(Batches) /\ failedSends \in Nat
  BY AgentAssumption, BatchesAre DEF AgentKept
<1>2. CASE channel' = Append(channel, records) /\ batch' = NoRecords
  BY <1>1, <1>2, WayIs DEF NoRecords
<1>3. CASE /\ failedSends' = failedSends + 1
           /\ batch' = IF platform = "windows" THEN NoRecords ELSE records
           /\ UNCHANGED channel
  <2>1. platform # "windows"
    BY <1>1, <1>3 DEF Lost
  <2> QED BY <1>3, <2>1
<1> QED BY <1>2, <1>3 DEF Flush

\* emit() adds one.
LEMMA EmitWay ==
  ASSUME AgentKept, NEW p, NEW base \in Seq(ViewSet), NEW record \in Reports,
         Emit(record), ~Lost
  PROVE  Way(p, base, channel', batch')
           = TakeReport(p)[<<Way(p, base, channel, batch), record>>]
<1> DEFINE held == Append(batch, record)
<1>1. channel \in Seq(Batches) /\ batch \in Batches /\ held \in Batches
  BY BatchesAre DEF Batches
<1>2. Way(p, base, channel, held) = TakeReport(p)[<<Way(p, base, channel, batch), record>>]
  BY <1>1, WayAppends
<1>3. CASE Flush(held)
  <2> HIDE DEF held
  <2> QED BY <1>1, <1>2, <1>3, FlushWay
<1>4. CASE batch' = held /\ UNCHANGED <<lastFlush, channel, failedSends>>
  BY <1>2, <1>4
<1> QED BY <1>3, <1>4, Zenon DEF Emit

\* The plain rules see of a call's report what they see of the call.
LEMMA ReportShows ==
  ASSUME FactsReported, platform \in Platforms, NEW step \in SampleSteps,
         step.raw \in DOMAIN Captured[platform], NEW call,
         call.raw = step.raw, call.at = now', call.n = step.n, call.marks = step.shows
  PROVE  View(Told(Report(step, step.n))) = View(Told(call))
<1> DEFINE record == Report(step, step.n)
           seen == Evident(step.shows, Captured[platform][step.raw])
           api == Canonical(step.raw)
<1>1. record.raw = step.raw /\ record.at = now' /\ record.n = step.n /\ record.marks = seen
  BY DEF Report
<1>2. /\ Told(record) = [api |-> api, at |-> now', n |-> step.n, marks |-> seen]
      /\ Told(call) = [api |-> api, at |-> now', n |-> step.n, marks |-> step.shows]
  BY <1>1 DEF Told
<1>3. \A r \in PlainRules : Satisfies(r, Told(record)) <=> Satisfies(r, Told(call))
  <2> SUFFICES ASSUME NEW r \in PlainRules, api \in DOMAIN r.needs
               PROVE  r.needs[api] \in seen <=> r.needs[api] \in step.shows
    BY <1>2 DEF Satisfies
  <2>1. seen \subseteq step.shows
    BY DEF Evident
  <2>2. r.needs[api] \in step.shows => r.needs[api] \in seen
    BY DEF FactsReported, PlainRules
  <2> QED BY <2>1, <2>2
<1> DEFINE a == Told(record)
           b == Told(call)
<1>4. a.api = b.api /\ a.at = b.at /\ a.n = b.n
  BY <1>2
<1>5. {r \in PlainRules : Satisfies(r, a)} = {r \in PlainRules : Satisfies(r, b)}
  BY <1>3
<1> HIDE DEF a, b
<1>6. View(a) = View(b)
  BY <1>4, <1>5, Zenon DEF View
<1> QED BY <1>6 DEF a, b

\* Observing a step, the agent reports of its calls so many, and where it is all
\* of them and none is lost the histories will grow by what the host is told.
LEMMA ObserveWay ==
  ASSUME FactsReported, AgentKept, NEW step \in SampleSteps, now' \in Nat, now <= now',
         Observe(step), NEW call, call.raw = step.raw, call.pid = step.pid, call.at = now',
         call.n = step.n, call.marks = step.shows
  PROVE  LET n == IF Hooked(call) THEN step.n ELSE 0
         IN  \E k \in 0..n :
                /\ failedSends' # 0 \/ failedSends' = failedSends
                /\ \/ Held(Apis)' = Held(Apis) + k
                   \/ Lost /\ Held(Apis)' <= Held(Apis) + k
                /\ ~Lost /\ k = n =>
                      \A p : \A base \in Seq(ViewSet) :
                         LET way == Way(p, base, channel, batch)
                         IN  Way(p, base, channel', batch')
                               = IF call.pid = p /\ Hooked(call)
                                 THEN Append(way, View(Told(call))) ELSE way
<1> DEFINE api == Canonical(step.raw)
           passed == IF platform = "windows" THEN Within(guestRate, api, step.n, now')
                     ELSE step.n
           n == IF Hooked(call) THEN step.n ELSE 0
<1>1. /\ step.n \in Nat \ {0} /\ platform \in Platforms /\ now \in Nat
      /\ IsRates(guestRate, now) /\ Held(Apis) \in Nat
  BY SampleAssumption, UnderWayIsNat DEF AgentKept
<1>2. Hooked(call) <=> step.raw \in DOMAIN Captured[platform] /\ Resolved(step.raw) # {}
  BY DEF Hooked
<1>3. ASSUME UNCHANGED <<batch, channel, failedSends>>, NEW k \in {0}
      PROVE  /\ failedSends' # 0 \/ failedSends' = failedSends
             /\ Held(Apis)' = Held(Apis) + k
             /\ \A p : \A base \in Seq(ViewSet) :
                   Way(p, base, channel', batch') = Way(p, base, channel, batch)
  <2>1. Held(Apis)' = Held(Apis)
    BY <1>3 DEF Held
  <2> QED BY <1>1, <1>3, <2>1
<1>4. CASE step.raw \notin DOMAIN Captured[platform]
  <2>1. UNCHANGED <<batch, channel, failedSends>>
    BY <1>4 DEF Observe
  <2>2. ~Hooked(call) /\ n = 0 /\ 0 \in 0..0
    BY <1>2, <1>4
  <2> QED BY <1>3, <2>1, <2>2
<1>5. CASE step.raw \in DOMAIN Captured[platform]
  <2>1. api \in Apis
    BY <1>1, <1>5, HookedAssumption
  <2>2. passed \in 0..step.n
    <3>1. Within(guestRate, api, step.n, now') \in 0..step.n
      <4> HIDE DEF api
      <4> QED BY <1>1, <2>1, WithinBounds
    <3> QED BY <1>1, <3>1
  <2>3. IF passed = 0 THEN UNCHANGED <<batch, lastFlush, channel, failedSends>>
        ELSE Emit(Report(step, passed))
    BY <1>5, Zenon DEF Observe
  <2> HIDE DEF passed
  <2>4. CASE passed = 0
    <3>1. UNCHANGED <<batch, channel, failedSends>>
      BY <2>3, <2>4
    <3>2. 0 \in 0..n /\ (0 = n => ~Hooked(call))
      BY <1>1
    <3>3. /\ failedSends' # 0 \/ failedSends' = failedSends
          /\ Held(Apis)' = Held(Apis) + 0
          /\ \A p : \A base \in Seq(ViewSet) :
                Way(p, base, channel', batch') = Way(p, base, channel, batch)
      BY <1>3, <3>1
    <3> QED BY <3>2, <3>3
  <2>5. CASE passed # 0
    <3> DEFINE record == Report(step, passed)
               k == IF Hooked(call) THEN passed ELSE 0
    <3>1. record \in Reports
      BY <1>1, <2>2, <2>5, ReportIsOne
    <3>2. record.raw = step.raw /\ record.pid = step.pid /\ record.n = passed
      BY DEF Report
    <3>3. InReport(Apis)[record] = k
      <4>1. InReport(Apis)[record]
              = IF Resolved(record.raw) # {} /\ Canonical(record.raw) \in Apis
                THEN record.n ELSE 0
        BY <3>1 DEF InReport
      <4> HIDE DEF record
      <4> QED BY <1>2, <1>5, <2>1, <3>2, <4>1
    <3>4. Emit(record)
      BY <2>3, <2>5
    <3>5. /\ failedSends' # 0 \/ failedSends' = failedSends
          /\ \/ Held(Apis)' = Held(Apis) + k
             \/ Lost /\ Held(Apis)' <= Held(Apis) + k
      <4> HIDE DEF record, k
      <4> QED BY <3>1, <3>3, <3>4, EmitHolds
    <3>6. ASSUME ~Lost, k = n, NEW p, NEW base \in Seq(ViewSet)
          PROVE  LET way == Way(p, base, channel, batch)
                 IN  Way(p, base, channel', batch')
                       = IF call.pid = p /\ Hooked(call)
                         THEN Append(way, View(Told(call))) ELSE way
      <4> DEFINE way == Way(p, base, channel, batch)
      <4>1. Way(p, base, channel', batch') = TakeReport(p)[<<way, record>>]
        <5> HIDE DEF record
        <5> QED BY <3>1, <3>4, <3>6, EmitWay
      <4>2. way \in Seq(ViewSet)
        BY BatchesAre, WayIs
      <4>3. TakeReport(p)[<<way, record>>]
              = IF record.pid = p /\ Resolved(record.raw) # {}
                THEN Append(way, View(Told(record))) ELSE way
        <5> HIDE DEF record, way
        <5> QED BY <3>1, <4>2 DEF TakeReport
      <4>4. Hooked(call) => View(Told(record)) = View(Told(call))
        <5> SUFFICES ASSUME Hooked(call) PROVE View(Told(record)) = View(Told(call))
          OBVIOUS
        <5>1. passed = step.n
          BY <3>6
        <5>2. View(Told(Report(step, step.n))) = View(Told(call))
          BY <1>1, <1>5, ReportShows
        <5> QED BY <5>1, <5>2
      <4> HIDE DEF record, way
      <4>5. record.pid = p /\ Resolved(record.raw) # {} <=> call.pid = p /\ Hooked(call)
        BY <1>2, <1>5, <3>2
      <4> QED BY <4>1, <4>3, <4>4, <4>5 DEF way
    <3>7. k \in 0..n
      BY <2>2
    <3> HIDE DEF k
    <3> QED BY <3>5, <3>6, <3>7
  <2> QED BY <2>4, <2>5
<1> QED BY <1>4, <1>5

-----------------------------------------------------------------------------
(* From the sample to the history *)

\* A process's history, and what it will be.
History(p) == At(logged, p, <<>>)
Ingested(p) == Folded(TakeReport(p), Views(History(p)), pending)
Trail(p) == Way(p, Ingested(p), channel, batch)

\* The calls received or on their way.
Traced == total + UnderWay(Apis)

Followed == \A p : Trail(p) = Views(Known(made, p))

TrailKept ==
    /\ Traced <= AllMade
    /\ NothingLost /\ suppressed = 0 /\ Traced = AllMade => Followed
    /\ \A p : Known(made, p) # <<>> => p \in {made[i].pid : i \in DOMAIN made}

\* The histories are seen as sequences of views.
LEMMA TrailIs ==
  ASSUME AgentKept, HistoryKept, NEW p
  PROVE  /\ History(p) \in Seq(Records) /\ Views(History(p)) \in Seq(ViewSet)
         /\ Ingested(p) \in Seq(ViewSet) /\ Trail(p) \in Seq(ViewSet)
<1>1. History(p) \in Seq(Records)
  BY DEF HistoryKept, History, At
<1>2. Views(History(p)) \in Seq(ViewSet)
  BY <1>1, ViewsAre
<1>3. pending \in Seq(Reports) /\ channel \in Seq(Batches) /\ batch \in Batches
  BY BatchesAre DEF Batches
<1>4. Ingested(p) \in Seq(ViewSet)
  <2> DEFINE op == TakeReport(p)
             V == Seq(ViewSet)
             base == Views(History(p))
  <2>1. StaysIn(op, V, Reports) /\ base \in V
    BY <1>2, TakingKeeps
  <2> HIDE DEF op, V, base
  <2>2. Folded(op, base, pending) \in V
    BY <1>3, <2>1, FoldedIsIn
  <2> QED BY <2>2 DEF op, V, base, Ingested
<1>5. Trail(p) \in Seq(ViewSet)
  BY <1>3, <1>4, WayIs DEF Trail
<1> QED BY <1>1, <1>2, <1>4, <1>5

\* The numbers are numbers.
LEMMA TracedIsNat ==
  ASSUME MonitorInv, made \in Seq(MadeCalls)
  PROVE  /\ total \in Nat /\ suppressed \in Nat /\ UnderWay(Apis) \in Nat
         /\ Traced \in Nat /\ AllMade \in Nat
<1>1. total \in Nat /\ suppressed \in Nat
  BY DEF MonitorInv, EngineKept
<1>2. UnderWay(Apis) \in Nat /\ AllMade \in Nat
  BY UnderWayIsNat, TimesMadeIsNat DEF MonitorInv, AllMade
<1> QED BY <1>1, <1>2 DEF Traced

\* Of n calls more that are made k more are on their way.
LEMMA TrailMoves ==
  ASSUME MonitorInv, made \in Seq(MadeCalls), TrailKept,
         NEW n \in Nat, NEW k \in 0..n, Traced' \in Nat,
         AllMade' = AllMade + n, Traced' <= Traced + k,
         NothingLost' /\ suppressed' = 0 => NothingLost /\ suppressed = 0,
         NothingLost' /\ suppressed' = 0 /\ k = n /\ Followed => Followed',
         \A p : Known(made', p) # <<>>
                  => Known(made, p) # <<>> \/ p \in {made'[i].pid : i \in DOMAIN made'},
         {made[i].pid : i \in DOMAIN made} \subseteq {made'[i].pid : i \in DOMAIN made'},
         platform' = platform, made' \in Seq(MadeCalls)
  PROVE  TrailKept'
<1>1. Traced \in Nat /\ AllMade \in Nat /\ Traced <= AllMade
  BY TracedIsNat DEF TrailKept
<1>2. Traced' <= AllMade'
  BY <1>1
<1>3. ASSUME NothingLost', suppressed' = 0, Traced' = AllMade' PROVE Followed'
  <2>1. k = n /\ Traced = AllMade
    BY <1>1, <1>3
  <2> QED BY <1>3, <2>1 DEF TrailKept
<1>4. \A p : Known(made, p)' = Known(made', p)
  BY KnownNext DEF MonitorInv, AgentKept
<1>5. \A p : Known(made', p) # <<>> => p \in {made'[i].pid : i \in DOMAIN made'}
  BY DEF TrailKept
<1> QED BY <1>2, <1>3, <1>4, <1>5 DEF TrailKept

LEMMA TracedNext ==
  ASSUME MonitorInv', made' \in Seq(MadeCalls)
  PROVE  Traced' \in Nat
<1>1. (MonitorInv /\ made \in Seq(MadeCalls) => Traced \in Nat)'
  BY TracedIsNat, PTL
<1> QED BY <1>1

\* The calls made are counted as the sum of a history.
LEMMA AllMadeIsSum == AllMade = Sum(Numbers, MadeOf(Apis))
  BY TimesMadeIsSum DEF AllMade

\* Where no call is made.
LEMMA TrailStays ==
  ASSUME MonitorInv, MonitorInv', made \in Seq(MadeCalls), TrailKept,
         made' = made, platform' = platform, Traced' <= Traced,
         NothingLost' /\ suppressed' = 0 => NothingLost /\ suppressed = 0,
         NothingLost' /\ suppressed' = 0 => \A p : Trail(p)' = Trail(p)
  PROVE  TrailKept'
<1>1. Traced' \in Nat /\ AllMade \in Nat /\ Traced \in Nat
  BY TracedNext, TracedIsNat
<1>2. AllMade' = AllMade
  <2>1. (AllMade = Sum(Numbers, MadeOf(Apis)))'
    BY AllMadeIsSum, PTL
  <2>2. Numbers' = Numbers /\ MadeOf(Apis)' = MadeOf(Apis)
    BY DEF Numbers, MadeOf, Hooked
  <2> QED BY <2>1, <2>2, AllMadeIsSum
<1>3. AllMade' = AllMade + 0 /\ Traced' <= Traced + 0 /\ 0 \in 0..0 /\ 0 \in Nat
  BY <1>1, <1>2
<1>4. \A p : Known(made, p)' = Known(made, p)
  BY KnownNext DEF MonitorInv, AgentKept
<1>5. NothingLost' /\ suppressed' = 0 /\ Followed => Followed'
  BY <1>4 DEF Followed
<1>6. \A p : Known(made', p) # <<>> => Known(made, p) # <<>>
  OBVIOUS
<1> QED BY <1>1, <1>3, <1>5, <1>6, TrailMoves

\* The agent's timer.
LEMMA TimerKeepsTrail ==
  ASSUME MonitorInv, HistoryKept, made \in Seq(MadeCalls), TrailKept, TimerFires
  PROVE  TrailKept'
<1>1. /\ Flush(batch)
      /\ UNCHANGED <<platform, engineVars, pending, made, logged>>
  BY DEF TimerFires, FlushTimer, monitorVars, historyVars
<1>2. AgentKept /\ MonitorInv' /\ AgentKept' /\ failedSends \in Nat
  BY TimerKeeps, AgentAssumption DEF MonitorInv, AgentKept
<1>3. batch \in Batches /\ channel \in Seq(Batches) /\ batch \in Seq(Reports)
  BY <1>2, BatchesAre DEF Batches
<1>4. /\ failedSends' # 0 \/ failedSends' = failedSends
      /\ Held(Apis)' = Held(Apis) \/ (Lost /\ Held(Apis)' <= Held(Apis))
  <2>1. LET amount == Amount(InBatch(Apis), channel) + Amount(InReport(Apis), batch)
        IN  /\ failedSends' # 0 \/ failedSends' = failedSends
            /\ Held(Apis)' = amount \/ (Lost /\ Held(Apis)' <= amount)
    BY <1>1, <1>2, <1>3, FlushHolds
  <2> QED BY <2>1 DEF Held
<1>5. Traced' <= Traced
  <2>1. /\ Traced' = total + (Amount(InReport(Apis), pending) + Held(Apis)')
        /\ Traced = total + (Amount(InReport(Apis), pending) + Held(Apis))
    BY <1>1 DEF Traced, UnderWay, engineVars, InReport
  <2>2. /\ Held(Apis) \in Nat /\ Held(Apis)' \in Nat
        /\ Amount(InReport(Apis), pending) \in Nat /\ total \in Nat
    BY <1>2, UnderWayIsNat, HeldNext, InReports, TracedIsNat
  <2>3. Held(Apis)' <= Held(Apis)
    BY <1>4, <2>2
  <2> QED BY <2>1, <2>2, <2>3
<1>6. NothingLost' => NothingLost /\ ~Lost
  BY <1>1, <1>4 DEF NothingLost, Lost
<1>7. ASSUME NothingLost', NEW p PROVE Trail(p)' = Trail(p)
  <2>1. Ingested(p)' = Ingested(p)
    BY <1>1 DEF Ingested, History, engineVars
  <2>2. Ingested(p) \in Seq(ViewSet)
    BY <1>2, TrailIs
  <2>3. Way(p, Ingested(p), channel', batch') = Way(p, Ingested(p), channel, batch)
    BY <1>1, <1>2, <1>3, <1>6, <1>7, <2>2, FlushWay
  <2> QED BY <2>1, <2>3 DEF Trail
<1>8. suppressed' = suppressed
  BY <1>1 DEF engineVars
<1> QED BY <1>1, <1>2, <1>5, <1>6, <1>7, <1>8, TrailStays

\* A batch arrives.
LEMMA ReceiveKeepsTrail ==
  ASSUME MonitorInv, HistoryKept, made \in Seq(MadeCalls), TrailKept, ReceiveBatch
  PROVE  TrailKept'
<1>1. /\ pending = <<>> /\ channel # <<>>
      /\ pending' = Head(channel) /\ channel' = Tail(channel)
      /\ UNCHANGED <<platform, batch, failedSends, engineVars, made, logged>>
  BY DEF ReceiveBatch, historyVars
<1>2. AgentKept /\ MonitorInv'
  BY ReceiveKeeps DEF MonitorInv
<1>3. batch \in Batches /\ channel \in Seq(Batches)
  BY <1>2, BatchesAre
<1>4. Traced' = Traced
  <2>1. InReport(Apis)' = InReport(Apis) /\ InBatch(Apis)' = InBatch(Apis) /\ total' = total
    BY <1>1 DEF engineVars, InReport, InBatch
  <2>2. UnderWay(Apis)' = Amount(InReport(Apis), Head(channel))
                            + (Amount(InBatch(Apis), Tail(channel))
                                 + Amount(InReport(Apis), batch))
    BY <1>1, <2>1 DEF UnderWay, Held
  <2>3. /\ channel \in Seq(Seq(Reports)) /\ batch \in Seq(Reports) /\ pending \in Seq(Reports)
    BY <1>2, UnderWayIsNat
  <2>4. /\ Amount(InBatch(Apis), channel)
             = Amount(InReport(Apis), Head(channel)) + Amount(InBatch(Apis), Tail(channel))
        /\ Amount(InReport(Apis), pending) = 0
    BY <1>1, <2>3, InBatches, InReports
  <2>5. /\ Amount(InReport(Apis), Head(channel)) \in Nat
        /\ Amount(InBatch(Apis), Tail(channel)) \in Nat
        /\ Amount(InReport(Apis), batch) \in Nat
    <3>1. Head(channel) \in Seq(Reports) /\ Tail(channel) \in Seq(Seq(Reports))
      BY <1>1, <2>3, HeadTailProperties
    <3> QED BY <2>3, <3>1, InBatches, InReports
  <2>6. UnderWay(Apis)' = UnderWay(Apis)
    BY <2>2, <2>4, <2>5 DEF UnderWay, Held
  <2> QED BY <2>1, <2>6 DEF Traced
<1>5. ASSUME NEW p PROVE Trail(p)' = Trail(p)
  <2> DEFINE base == Views(History(p))
             op == TakeReport(p)
  <2>1. base \in Seq(ViewSet)
    BY <1>2, TrailIs
  <2>2. Ingested(p) = base
    <3> DEFINE V == Seq(ViewSet)
    <3>1. StaysIn(op, V, Reports) /\ base \in V
      BY <2>1, TakingKeeps
    <3> HIDE DEF op, base, V
    <3>2. Folded(op, base, <<>>) = base
      BY <3>1, FoldedNothing
    <3> QED BY <1>1, <3>2 DEF Ingested, op, base
  <2>3. Ingested(p)' = Folded(op, base, Head(channel))
    <3>1. History(p)' = History(p)
      BY <1>1 DEF History
    <3> QED BY <1>1, <3>1 DEF Ingested
  <2>4. Trail(p)' = Way(p, Ingested(p)', Tail(channel), batch)
    BY <1>1 DEF Trail
  <2> HIDE DEF base, op
  <2>5. Way(p, base, channel, batch)
          = Way(p, Folded(op, base, Head(channel)), Tail(channel), batch)
    BY <1>1, <1>3, <2>1, WayIs DEF op
  <2> QED BY <2>2, <2>3, <2>4, <2>5 DEF Trail
<1>6. NothingLost' = NothingLost /\ suppressed' = suppressed /\ Traced' <= Traced
  <2>1. NothingLost' = NothingLost /\ suppressed' = suppressed
    BY <1>1 DEF NothingLost, engineVars
  <2> QED BY <1>4, <2>1, TracedIsNat
<1> QED BY <1>1, <1>2, <1>5, <1>6, TrailStays

\* A step of the sample.
LEMMA SampleKeepsTrail ==
  ASSUME FactsReported, MonitorInv, HistoryKept, made \in Seq(MadeCalls), TrailKept, SampleCalls
  PROVE  TrailKept'
<1> DEFINE step == Head(todo)
           call == [raw |-> step.raw, pid |-> step.pid, at |-> now', n |-> step.n,
                    marks |-> step.shows, handle |-> step.handle]
           n == IF Hooked(call) THEN step.n ELSE 0
<1>1. /\ step \in SampleSteps /\ step.n \in Nat \ {0} /\ now' \in Nat /\ now <= now'
      /\ Observe(step) /\ call \in MadeCalls
      /\ made' = Append(made, call) /\ made' \in Seq(MadeCalls)
      /\ platform' = platform /\ UNCHANGED engineVars /\ pending' = pending
  BY SampleRecords
<1>2. AgentKept /\ MonitorInv' /\ AgentKept' /\ platform \in Platforms /\ logged' = logged
  BY SampleKeeps DEF MonitorInv, AgentKept, SampleCalls
<1>3. /\ call.raw = step.raw /\ call.pid = step.pid /\ call.at = now' /\ call.n = step.n
      /\ call.marks = step.shows
  OBVIOUS
<1> HIDE DEF step, call
<1>4. AllMade' = AllMade + n /\ n \in Nat
  <2>1. TimesMade(Apis)' = TimesMade(Apis)
          + IF Hooked(call) /\ Canonical(call.raw) \in Apis THEN call.n ELSE 0
    BY <1>1, SampleMakes
  <2>2. Hooked(call) => Canonical(call.raw) \in Apis
    BY <1>2, HookedAssumption DEF Hooked
  <2> QED BY <1>1, <1>3, <2>1, <2>2 DEF AllMade
<1>5. PICK k \in 0..n :
        /\ failedSends' # 0 \/ failedSends' = failedSends
        /\ \/ Held(Apis)' = Held(Apis) + k
           \/ Lost /\ Held(Apis)' <= Held(Apis) + k
        /\ ~Lost /\ k = n =>
              \A p : \A base \in Seq(ViewSet) :
                 LET way == Way(p, base, channel, batch)
                 IN  Way(p, base, channel', batch')
                       = IF call.pid = p /\ Hooked(call)
                         THEN Append(way, View(Told(call))) ELSE way
  BY <1>1, <1>2, <1>3, ObserveWay
<1> HIDE DEF n
<1>6. Traced' \in Nat
  BY <1>1, <1>2, TracedNext
<1>7. Traced' <= Traced + k
  <2>1. /\ Traced' = total + (Amount(InReport(Apis), pending) + Held(Apis)')
        /\ Traced = total + (Amount(InReport(Apis), pending) + Held(Apis))
    BY <1>1 DEF Traced, UnderWay, engineVars, InReport
  <2>2. /\ Held(Apis) \in Nat /\ Held(Apis)' \in Nat /\ k \in Nat
        /\ Amount(InReport(Apis), pending) \in Nat /\ total \in Nat
    BY <1>2, <1>4, UnderWayIsNat, HeldNext, InReports, TracedIsNat
  <2>3. Held(Apis)' <= Held(Apis) + k
    BY <1>5, <2>2
  <2> QED BY <2>1, <2>2, <2>3
<1>8. NothingLost' => NothingLost /\ ~Lost
  BY <1>1, <1>5 DEF NothingLost, Lost
<1>9. suppressed' = suppressed
  BY <1>1 DEF engineVars
<1>10. \A p : /\ Known(made', p)
                   = IF call.pid = p /\ Hooked(call) THEN Append(Known(made, p), Told(call))
                     ELSE Known(made, p)
              /\ Known(made, p) \in Seq(Records)
              /\ Known(made, p)' = Known(made', p)
  BY <1>1, <1>2, KnownGrows, KnownIsHistory, KnownNext
<1>11. ASSUME NothingLost', k = n, Followed PROVE Followed'
  <2> SUFFICES ASSUME NEW p PROVE Trail(p)' = Views(Known(made', p))
    BY <1>10 DEF Followed
  <2>1. Ingested(p) \in Seq(ViewSet)
    BY <1>2, TrailIs
  <2>2. Ingested(p)' = Ingested(p)
    BY <1>1, <1>2 DEF Ingested, History
  <2>3. Trail(p)' = IF call.pid = p /\ Hooked(call) THEN Append(Trail(p), View(Told(call)))
                    ELSE Trail(p)
    BY <1>5, <1>8, <1>11, <2>1, <2>2 DEF Trail
  <2>4. Trail(p) = Views(Known(made, p))
    BY <1>11 DEF Followed
  <2>5. ASSUME Hooked(call)
        PROVE  Views(Append(Known(made, p), Told(call)))
                 = Append(Views(Known(made, p)), View(Told(call)))
    BY <1>1, <1>2, <1>10, <2>5, ToldIsRecord, ViewsGrow
  <2> QED BY <1>10, <2>3, <2>4, <2>5
<1>12. /\ {made[i].pid : i \in DOMAIN made} \subseteq {made'[i].pid : i \in DOMAIN made'}
       /\ call.pid \in {made'[i].pid : i \in DOMAIN made'}
  <2>1. /\ Len(made) \in Nat /\ DOMAIN made = 1..Len(made) /\ DOMAIN made' = 1..(Len(made) + 1)
        /\ made'[Len(made) + 1] = call /\ \A i \in DOMAIN made : made'[i] = made[i]
    BY <1>1
  <2> QED BY <2>1
<1>13. \A p : Known(made', p) # <<>>
                => Known(made, p) # <<>> \/ p \in {made'[i].pid : i \in DOMAIN made'}
  BY <1>10, <1>12
<1> QED BY <1>1, <1>4, <1>5, <1>6, <1>7, <1>8, <1>9, <1>11, <1>12, <1>13, TrailMoves

\* A call that is logged joins the history of its process as it was decoded.
LEMMA LogAppends ==
  ASSUME HistoryKept, NEW call \in Reports, NEW api \in Apis, NEW n \in Nat \ {0}, NEW st,
         Log(call, api, n, st)
  PROVE  Last(window'[call.pid]) = Decode(call, api, n)
<1> DEFINE p == call.pid
           c == Decode(call, api, n)
           H == At(logged, p, <<>>)
           W == At(window, p, <<>>)
           V == Remember(W, c)
<1>1. c \in Records
  BY DecodeIs
<1>2. window' = Put(window, p, V)
  BY Zenon DEF Log
<1>3. H \in Seq(Records) /\ IsWindow(W, H)
  BY <1>1, LongerIs, WindowOf DEF HistoryKept
<1>4. window'[p] = V
  <2> HIDE DEF V, p
  <2> QED BY <1>2, PutIs
<1> HIDE DEF c, H, W
<1>5. IsWindow(V, Append(H, c))
  BY <1>1, <1>3, RememberKeepsWindow
<1> HIDE DEF V
<1>6. Last(V) = c
  BY <1>1, <1>3, <1>5, WindowEnds
<1> QED BY <1>4, <1>6 DEF c

\* The plain rules see of it what they would see of the report.
LEMMA DecodedShows ==
  ASSUME NEW call, NEW api, api = Canonical(call.raw)
  PROVE  View(Decode(call, api, call.n)) = View(Told(call))
<1> DEFINE a == Decode(call, api, call.n)
           b == Told(call)
<1>1. /\ a.api = b.api /\ a.at = b.at /\ a.n = b.n /\ b.api = api
      /\ api # "RegSetValue" => a.marks = b.marks
  BY DEF Decode, Told
<1> HIDE DEF a, b
<1>2. ASSUME NEW r \in PlainRules PROVE Satisfies(r, a) <=> Satisfies(r, b)
  <2>1. "RegSetValue" \notin DOMAIN r.needs
    BY DEF PlainRules, OnHandle
  <2> QED BY <1>1, <2>1 DEF Satisfies
<1>3. {r \in PlainRules : Satisfies(r, a)} = {r \in PlainRules : Satisfies(r, b)}
  BY <1>2
<1>4. View(a) = View(b)
  BY <1>1, <1>3, Zenon DEF View
<1> QED BY <1>4 DEF a, b

\* A turn of the loop of ingest_batch(): the engine hears of the next report's
\* calls, and where the host's budget lets all of them pass the history gets them.
LEMMA IngestTraces ==
  ASSUME MonitorInv, HistoryKept, IngestNext
  PROVE  LET call == Head(pending)
         IN  /\ call \in Reports /\ call.n \in Nat
             /\ total' = total + InReport(Apis)[call]
             /\ suppressed' = 0 =>
                   /\ suppressed = 0
                   /\ \A p : Views(History(p))' = TakeReport(p)[<<Views(History(p)), call>>]
<1> DEFINE call == Head(pending)
           H == At(logged, call.pid, <<>>)
<1>1. /\ pending # <<>> /\ Ingest(call, stage)
      /\ logged' = IF total' - suppressed' = total - suppressed THEN logged
                   ELSE Put(logged, call.pid, Append(H, Last(window'[call.pid])))
  BY Zenon DEF IngestNext
<1>2. /\ AgentKept /\ EngineKept /\ pending \in Seq(Reports) /\ total \in Nat
      /\ suppressed \in Nat /\ platform \in Platforms
  BY DEF MonitorInv, AgentKept, EngineKept
<1>3. call \in Reports /\ call.n \in Nat \ {0}
  <2>1. call \in Reports
    BY <1>1, <1>2, HeadTailProperties
  <2> QED BY <2>1 DEF Reports
<1> HIDE DEF call
<1>4. \A p : History(p) \in Seq(Records) /\ Views(History(p)) \in Seq(ViewSet)
  BY <1>2, TrailIs
<1>5. \A p : TakeReport(p)[<<Views(History(p)), call>>]
               = IF call.pid = p /\ Resolved(call.raw) # {}
                 THEN Append(Views(History(p)), View(Told(call))) ELSE Views(History(p))
  BY <1>3, <1>4 DEF TakeReport
<1>6. \A p : Views(History(p))' = Views(History(p)')
  BY DEF Views
<1>7. InReport(Apis)[call]
        = IF Resolved(call.raw) # {} /\ Canonical(call.raw) \in Apis THEN call.n ELSE 0
  BY <1>3 DEF InReport
<1>8. CASE Resolved(call.raw) = {}
  <2>1. total' = total /\ suppressed' = suppressed
    BY <1>1, <1>8, Zenon DEF Ingest, engineVars
  <2>2. logged' = logged
    BY <1>1, <2>1
  <2>3. \A p : History(p)' = History(p)
    BY <2>2 DEF History
  <2> QED BY <1>2, <1>3, <1>5, <1>6, <1>7, <1>8, <2>1, <2>3 DEF call
<1>9. CASE Resolved(call.raw) # {}
  <2>1. PICK api \in Resolved(call.raw) :
          LET n == Within(hostRate, api, call.n, now)
          IN  /\ total' = total + call.n
              /\ suppressed' = suppressed + (call.n - n)
              /\ IF n > 0 THEN Log(call, api, n, stage) ELSE Suppress
    BY <1>1, <1>9, Zenon DEF Ingest
  <2> DEFINE n == Within(hostRate, api, call.n, now)
  <2>2. api = Canonical(call.raw) /\ api \in Apis
    BY ResolvedAssumption, ResolvedAreApis DEF Resolved
  <2>3. n \in 0..call.n
    <3>1. now \in Nat /\ IsRates(hostRate, now) /\ call.n \in Nat
      BY <1>2, <1>3 DEF AgentKept, EngineKept
    <3> QED BY <2>2, <3>1, WithinBounds
  <2>4. /\ total' = total + call.n /\ suppressed' = suppressed + (call.n - n)
        /\ IF n > 0 THEN Log(call, api, n, stage) ELSE Suppress
    BY <2>1
  <2> HIDE DEF n
  <2>5. total' = total + InReport(Apis)[call]
    BY <1>7, <1>9, <2>2, <2>4
  <2>6. ASSUME suppressed' = 0
        PROVE  /\ suppressed = 0
               /\ \A p : Views(History(p))' = TakeReport(p)[<<Views(History(p)), call>>]
    <3>1. suppressed = 0 /\ n = call.n
      BY <1>2, <1>3, <2>3, <2>4, <2>6
    <3> DEFINE c == Decode(call, api, n)
    <3>2. Log(call, api, n, stage) /\ n \in Nat \ {0}
      BY <1>3, <2>4, <3>1
    <3>3. Last(window'[call.pid]) = c /\ c \in Records
      BY <1>3, <2>2, <3>2, LogAppends, DecodeIs
    <3>4. View(c) = View(Told(call))
      BY <2>2, <3>1, DecodedShows
    <3> HIDE DEF c
    <3>5. logged' = Put(logged, call.pid, Append(H, c))
      <4>1. total' - suppressed' # total - suppressed
        BY <1>2, <1>3, <2>4, <2>6, <3>1
      <4> QED BY <1>1, <3>3, <4>1
    <3>6. \A p : History(p)' = IF p = call.pid THEN Append(History(p), c) ELSE History(p)
      <4>1. logged' = [x \in DOMAIN logged \cup {call.pid} |->
                         IF x = call.pid THEN Append(H, c) ELSE logged[x]]
        BY <3>5, PutIs
      <4> QED BY <4>1 DEF History, At
    <3>7. \A p : Views(Append(History(p), c)) = Append(Views(History(p)), View(c))
      BY <1>4, <3>3, ViewsGrow
    <3> QED BY <1>5, <1>6, <1>9, <3>1, <3>4, <3>6, <3>7
  <2> QED BY <1>3, <2>5, <2>6 DEF call
<1> QED BY <1>8, <1>9

\* So what is on its way comes to the same.
LEMMA IngestKeepsTrail ==
  ASSUME MonitorInv, HistoryKept, made \in Seq(MadeCalls), TrailKept, IngestNext
  PROVE  TrailKept'
<1> DEFINE call == Head(pending)
           k == InReport(Apis)[call]
<1>1. /\ pending # <<>> /\ pending' = Tail(pending)
      /\ UNCHANGED <<agentVars, made>>
  BY DEF IngestNext
<1>2. AgentKept /\ EngineKept /\ MonitorInv' /\ pending \in Seq(Reports)
  BY IngestNextKeeps DEF MonitorInv, AgentKept
<1>3. /\ call \in Reports /\ total' = total + k
      /\ suppressed' = 0 =>
            /\ suppressed = 0
            /\ \A p : Views(History(p))' = TakeReport(p)[<<Views(History(p)), call>>]
  BY IngestTraces
<1>4. Traced' = Traced
  <2>1. Tail(pending) \in Seq(Reports)
    BY <1>1, <1>2, HeadTailProperties
  <2>2. /\ Amount(InReport(Apis), pending) = k + Amount(InReport(Apis), Tail(pending))
        /\ Amount(InReport(Apis), Tail(pending)) \in Nat /\ k \in Nat
    BY <1>1, <1>2, <1>3, <2>1, InReports, ReportsAreCounted
  <2>3. Held(Apis)' = Held(Apis) /\ InReport(Apis)' = InReport(Apis)
    BY <1>1 DEF Held, agentVars, InReport, InBatch
  <2>4. /\ Traced = total + (Amount(InReport(Apis), pending) + Held(Apis))
        /\ Traced' = (total + k) + (Amount(InReport(Apis), Tail(pending)) + Held(Apis))
    BY <1>1, <1>3, <2>3 DEF Traced, UnderWay
  <2>5. total \in Nat /\ Held(Apis) \in Nat
    BY <1>2, TracedIsNat, UnderWayIsNat
  <2> HIDE DEF k
  <2> QED BY <2>2, <2>4, <2>5
<1>5. ASSUME suppressed' = 0, NEW p PROVE Trail(p)' = Trail(p)
  <2> DEFINE op == TakeReport(p)
             base == Views(History(p))
             V == Seq(ViewSet)
  <2>1. StaysIn(op, V, Reports) /\ base \in V
    BY <1>2, TakingKeeps, TrailIs
  <2>2. base' = op[<<base, call>>]
    BY <1>3, <1>5
  <2>3. Ingested(p)' = Folded(op, base', Tail(pending))
    BY <1>1 DEF Ingested
  <2> DEFINE next == op[<<base, call>>]
  <2>4. Ingested(p)' = Folded(op, next, Tail(pending))
    BY <2>2, <2>3
  <2>5. Ingested(p) = Folded(op, base, pending)
    BY DEF Ingested
  <2> HIDE DEF op, base, V
  <2>6. Folded(op, base, pending) = Folded(op, op[<<base, Head(pending)>>], Tail(pending))
    BY <1>1, <1>2, <2>1, FoldedTail
  <2>7. Ingested(p)' = Ingested(p)
    BY <2>4, <2>5, <2>6
  <2>8. channel' = channel /\ batch' = batch
    BY <1>1 DEF agentVars
  <2> QED BY <2>7, <2>8 DEF Trail
<1>6. /\ platform' = platform /\ Traced' <= Traced
      /\ NothingLost' /\ suppressed' = 0 => NothingLost /\ suppressed = 0
  <2>1. platform' = platform /\ NothingLost' = NothingLost
    BY <1>1 DEF agentVars, NothingLost
  <2> QED BY <1>3, <1>4, <2>1, TracedIsNat
<1> QED BY <1>1, <1>2, <1>5, <1>6, TrailStays

\* Nothing is made and nothing on its way at first.
LEMMA TrailKeptInit == Init => TrailKept
<1> SUFFICES ASSUME Init PROVE TrailKept
  OBVIOUS
<1>1. MonitorInv /\ AgentKept /\ HistoryKept /\ platform \in Platforms
  BY MonitorInvInit, MatchingInvInit DEF MonitorInv, AgentKept, MatchingInv
<1>2. /\ made = <<>> /\ logged = Empty /\ pending = <<>> /\ batch = <<>> /\ channel = <<>>
      /\ total = 0
  BY DEF Init, AgentInit, EngineInit, NoRecords
<1>3. AllMade \in Nat /\ Traced = 0
  <2>1. made \in Seq(MadeCalls)
    BY <1>2
  <2>2. <<>> \in Seq(Reports) /\ <<>> \in Seq(Seq(Reports))
    OBVIOUS
  <2>3. Amount(InReport(Apis), <<>>) = 0 /\ Amount(InBatch(Apis), <<>>) = 0
    BY <2>2, InReports, InBatches
  <2>4. AllMade \in Nat
    BY <1>1, <2>1, TracedIsNat
  <2> QED BY <1>2, <2>3, <2>4 DEF Traced, UnderWay, Held
<1>4. \A p : Known(made, p) = <<>>
  BY <1>1, <1>2, KnownIsHistory
<1>5. ASSUME NEW p PROVE Trail(p) = Views(Known(made, p))
  <2> DEFINE V == Seq(ViewSet)
             op == TakeReport(p)
             none == Views(<<>>)
  <2>1. History(p) = <<>>
    BY <1>2 DEF History, At, Empty
  <2>2. StaysIn(op, V, Reports) /\ none \in V
    <3>1. Views(History(p)) \in V
      BY <1>1, TrailIs
    <3> QED BY <2>1, <3>1, TakingKeeps
  <2>3. Trail(p) = Way(p, Folded(op, none, <<>>), <<>>, <<>>)
    BY <1>2, <2>1 DEF Trail, Ingested
  <2>4. <<>> \in Seq(Batches) /\ <<>> \in Batches
    BY DEF Batches
  <2> HIDE DEF V, op, none
  <2>5. Folded(op, none, <<>>) = none
    BY <2>2, FoldedNothing
  <2>6. Way(p, none, <<>>, <<>>) = none
    BY <2>2, <2>4, WayIs DEF V
  <2> QED BY <1>4, <2>3, <2>5, <2>6 DEF none
<1> QED BY <1>3, <1>4, <1>5 DEF TrailKept, Followed

\* Every step keeps it.
LEMMA TrailKeptStep ==
  ASSUME FactsReported, MonitorInv, HistoryKept, made \in Seq(MadeCalls), TrailKept, [Next]_vars
  PROVE  TrailKept'
<1>1. CASE SampleCalls
  BY <1>1, SampleKeepsTrail
<1>2. CASE TimerFires
  BY <1>2, TimerKeepsTrail
<1>3. CASE ReceiveBatch
  BY <1>3, ReceiveKeepsTrail
<1>4. CASE IngestNext
  BY <1>4, IngestKeepsTrail
<1>5. CASE UNCHANGED <<agentVars, engineVars, pending, made, logged>>
  <2>1. /\ MonitorInv' /\ made' = made /\ platform' = platform
        /\ NothingLost' = NothingLost /\ suppressed' = suppressed
    BY <1>5, MonitorInvStep DEF agentVars, engineVars, NothingLost
  <2>2. Traced' = Traced
    BY <1>5 DEF Traced, UnderWay, Held, InReport, InBatch, agentVars, engineVars
  <2>3. Traced' <= Traced
    BY <2>2, TracedIsNat
  <2>4. \A p : Trail(p)' = Trail(p)
    BY <1>5 DEF Trail, Ingested, History, agentVars
  <2> QED BY <2>1, <2>3, <2>4, TrailStays
<1> QED
  BY <1>1, <1>2, <1>3, <1>4, <1>5
  DEF Next, EnterStage, ExitStage, vars, monitorVars, historyVars

\* What holds of the monitoring, the matching, and what is between the two.
BehaviourInv == MonitorInv /\ MatchingInv /\ made \in Seq(MadeCalls) /\ TrailKept

LEMMA BehaviourInvHolds ==
  ASSUME FactsReported
  PROVE  Spec => []BehaviourInv
<1>1. Init => BehaviourInv
  <2>1. Init => made \in Seq(MadeCalls)
    BY DEF Init
  <2> QED BY <2>1, MonitorInvInit, MatchingInvInit, TrailKeptInit DEF BehaviourInv
<1>2. BehaviourInv /\ [Next]_vars => BehaviourInv'
  <2> SUFFICES ASSUME BehaviourInv, [Next]_vars PROVE BehaviourInv'
    OBVIOUS
  <2>1. /\ MonitorInv /\ MatchingInv /\ HistoryKept /\ made \in Seq(MadeCalls) /\ TrailKept
        /\ MonitorInv'
    BY MonitorInvStep DEF BehaviourInv, MatchingInv
  <2>2. MatchingInv'
    BY <2>1, MatchingInvStep
  <2>3. TrailKept'
    BY <2>1, TrailKeptStep
  <2>4. made' \in Seq(MadeCalls)
    <3>1. CASE SampleCalls
      BY <2>1, <3>1, SampleRecords
    <3>2. CASE made' = made
      BY <2>1, <3>2
    <3> QED
      BY <3>1, <3>2
      DEF Next, TimerFires, ReceiveBatch, IngestNext, EnterStage, ExitStage, vars, historyVars
  <2> QED BY <2>1, <2>2, <2>3, <2>4 DEF BehaviourInv
<1> QED BY <1>1, <1>2, PTL DEF Spec

-----------------------------------------------------------------------------
(* From the history to the counts *)

\* Two histories that look alike to the plain rules.
Alike(H, G) == H \in Seq(Records) /\ G \in Seq(Records) /\ Views(H) = Views(G)

LEMMA AlikeIs ==
  ASSUME NEW H, NEW G, Alike(H, G)
  PROVE  /\ Len(H) = Len(G) /\ Len(H) \in Nat
         /\ \A j \in 1..Len(H) :
               /\ H[j].api = G[j].api /\ H[j].at = G[j].at /\ H[j].n = G[j].n
               /\ \A r \in PlainRules : Satisfies(r, H[j]) <=> Satisfies(r, G[j])
<1>1. Len(Views(H)) = Len(H) /\ Len(Views(G)) = Len(G) /\ Len(H) \in Nat
  BY ViewsAre DEF Alike
<1>2. Len(H) = Len(G)
  BY <1>1 DEF Alike
<1>3. ASSUME NEW j \in 1..Len(H) PROVE View(H[j]) = View(G[j])
  <2>1. Views(H)[j] = View(H[j]) /\ Views(G)[j] = View(G[j])
    BY <1>2 DEF Views
  <2> QED BY <2>1 DEF Alike
<1>4. \A j \in 1..Len(H) : /\ View(H[j]).api = View(G[j]).api /\ View(H[j]).at = View(G[j]).at
                           /\ View(H[j]).n = View(G[j]).n /\ View(H[j]).met = View(G[j]).met
  BY <1>3
<1>5. \A c : /\ View(c).api = c.api /\ View(c).at = c.at /\ View(c).n = c.n
             /\ View(c).met = {r \in PlainRules : Satisfies(r, c)}
  BY DEF View
<1> QED BY <1>1, <1>2, <1>4, <1>5

\* As many calls have followed a call in the one as in the other.
LEMMA AlikeCalls ==
  ASSUME NEW H, NEW G, Alike(H, G), NEW i \in 1..Len(H), NEW j \in 1..i
  PROVE  CallsFrom(SubSeq(H, 1, i), j) = CallsFrom(SubSeq(G, 1, i), j)
<1> DEFINE a == SubSeq(H, 1, i)
           b == SubSeq(G, 1, i)
<1>1. /\ H \in Seq(Records) /\ G \in Seq(Records) /\ Len(H) = Len(G) /\ Len(H) \in Nat
      /\ \A k \in 1..Len(H) : H[k].n = G[k].n
  BY AlikeIs DEF Alike
<1>2. /\ 1 \in 1..(Len(H) + 1) /\ i \in (1 - 1)..Len(H) /\ i \in (1 - 1)..Len(G)
      /\ 1 \in 1..(Len(G) + 1) /\ i - 1 + 1 = i /\ \A k \in 1..i : 1 + k - 1 = k
  BY <1>1
<1>3. /\ a \in Seq(Records) /\ Len(a) = i /\ \A k \in 1..i : a[k] = H[k]
  BY <1>1, <1>2, PartOf
<1>4. /\ b \in Seq(Records) /\ Len(b) = i /\ \A k \in 1..i : b[k] = G[k]
  BY <1>1, <1>2, PartOf
<1> HIDE DEF a, b
<1>5. DOMAIN a = 1..i /\ DOMAIN b = 1..i
  BY <1>3, <1>4
<1>6. Ns(a) = Ns(b)
  <2>1. \A k \in 1..i : a[k].n = b[k].n
    BY <1>1, <1>3, <1>4
  <2> QED BY <1>5, <2>1 DEF Ns
<1>7. CallsFrom(a, j) = Sum(Ns(a), j..i) /\ CallsFrom(b, j) = Sum(Ns(b), j..i)
  <2>1. j \in 1..(Len(a) + 1) /\ j \in 1..(Len(b) + 1)
    BY <1>1, <1>3, <1>4
  <2> QED BY <1>3, <1>4, <2>1, CallsFromSums
<1> QED BY <1>6, <1>7 DEF a, b

\* So a plain rule is completed in the one where it is in the other.
LEMMA AlikeCompletes ==
  ASSUME NEW H, NEW G, Alike(H, G), NEW i \in 1..Len(H), NEW r \in PlainRules
  PROVE  Completes(r, H, i) <=> Completes(r, G, i)
<1> DEFINE a == SubSeq(H, 1, i)
           b == SubSeq(G, 1, i)
           K == Len(r.seq) - 1
<1>1. /\ Len(H) \in Nat
      /\ \A j \in 1..Len(H) :
            /\ H[j].api = G[j].api /\ H[j].at = G[j].at
            /\ Satisfies(r, H[j]) <=> Satisfies(r, G[j])
  BY AlikeIs
<1>2. \A j \in 1..(i - 1) : CallsFrom(a, j + 1) = CallsFrom(b, j + 1)
  <2>1. \A j \in 1..(i - 1) : j + 1 \in 1..i
    BY <1>1
  <2> QED BY <2>1, AlikeCalls
<1>3. \A j \in 1..(i - 1) : j \in 1..Len(H)
  BY <1>1
<1> HIDE DEF a, b
<1>4. \A j \in 1..(i - 1) :
         /\ H[j].api = G[j].api /\ H[j].at = G[j].at
         /\ Satisfies(r, H[j]) <=> Satisfies(r, G[j])
         /\ CallsFrom(a, j + 1) = CallsFrom(b, j + 1)
  BY <1>1, <1>2, <1>3
<1>5. H[i].at = G[i].at /\ (Satisfies(r, H[i]) <=> Satisfies(r, G[i]))
  BY <1>1
<1>6. CompletesWith(r, H, a, H[i], i - 1) <=> CompletesWith(r, G, b, G[i], i - 1)
  <2>1. ASSUME NEW f \in [1..K -> 1..(i - 1)], NEW k \in 1..K
        PROVE  /\ /\ H[f[k]].api = r.seq[k] <=> G[f[k]].api = r.seq[k]
                  /\ Satisfies(r, H[f[k]]) <=> Satisfies(r, G[f[k]])
                  /\ H[f[k]].at >= H[i].at - r.window <=> G[f[k]].at >= G[i].at - r.window
                  /\ CallsFrom(a, f[k] + 1) < MaxWindow <=> CallsFrom(b, f[k] + 1) < MaxWindow
    <3>1. f[k] \in 1..(i - 1)
      OBVIOUS
    <3> QED BY <1>4, <1>5, <3>1
  <2> QED BY <1>5, <2>1 DEF CompletesWith
<1> QED BY <1>6, CompletesIs DEF a, b

\* Once all was received the history of a process looks like what is known.
LEMMA HistoriesAreAlike ==
  ASSUME BehaviourInv, Drained, NothingLost, suppressed = 0, total = AllMade
  PROVE  /\ \A p : Alike(At(logged, p, <<>>), Known(made, p))
         /\ \A p : At(logged, p, <<>>) # <<>> => p \in DOMAIN ByProcess(made)
<1>1. /\ MonitorInv /\ AgentKept /\ HistoryKept /\ made \in Seq(MadeCalls) /\ TrailKept
      /\ platform \in Platforms /\ total \in Nat
  BY TracedIsNat DEF BehaviourInv, MonitorInv, MatchingInv, AgentKept
<1>2. pending = <<>> /\ batch = <<>> /\ channel = <<>>
  BY DEF Drained, NoRecords
<1>3. Traced = AllMade
  <2>1. <<>> \in Seq(Reports) /\ <<>> \in Seq(Seq(Reports))
    OBVIOUS
  <2>2. Amount(InReport(Apis), <<>>) = 0 /\ Amount(InBatch(Apis), <<>>) = 0
    BY <2>1, InReports, InBatches
  <2> QED BY <1>1, <1>2, <2>2 DEF Traced, UnderWay, Held
<1>4. ASSUME NEW p PROVE Trail(p) = Views(History(p))
  <2> DEFINE V == Seq(ViewSet)
             op == TakeReport(p)
             base == Views(History(p))
  <2>1. StaysIn(op, V, Reports) /\ base \in V
    BY <1>1, TrailIs, TakingKeeps
  <2>2. Trail(p) = Way(p, Folded(op, base, <<>>), <<>>, <<>>)
    BY <1>2 DEF Trail, Ingested
  <2>3. <<>> \in Seq(Batches) /\ <<>> \in Batches
    BY DEF Batches
  <2> HIDE DEF V, op, base
  <2>4. Folded(op, base, <<>>) = base
    BY <2>1, FoldedNothing
  <2>5. Way(p, base, <<>>, <<>>) = base
    BY <2>1, <2>3, WayIs DEF V
  <2> QED BY <2>2, <2>4, <2>5 DEF base
<1>5. ASSUME NEW p PROVE Alike(At(logged, p, <<>>), Known(made, p))
  <2>1. History(p) \in Seq(Records) /\ Known(made, p) \in Seq(Records)
    BY <1>1, TrailIs, KnownIsHistory
  <2>2. Trail(p) = Views(Known(made, p))
    BY <1>1, <1>3 DEF TrailKept, Followed
  <2>3. Views(History(p)) = Views(Known(made, p))
    BY <1>4, <2>2
  <2> QED BY <2>1, <2>3 DEF Alike, History
<1>6. ASSUME NEW p, At(logged, p, <<>>) # <<>> PROVE p \in DOMAIN ByProcess(made)
  <2>1. Alike(At(logged, p, <<>>), Known(made, p))
    BY <1>5
  <2> DEFINE H == At(logged, p, <<>>)
             G == Known(made, p)
  <2> HIDE DEF H, G
  <2>2. Len(H) = Len(G) /\ H \in Seq(Records) /\ H # <<>>
    BY <1>6, <2>1, AlikeIs DEF Alike, H, G
  <2>3. G # <<>>
    BY <2>2
  <2>4. p \in {made[i].pid : i \in DOMAIN made}
    BY <1>1, <2>3 DEF TrailKept, G
  <2> QED BY <2>4 DEF ByProcess
<1> QED BY <1>5, <1>6

\* The plain rules are completed in the histories where they are in what the
\* sample did.
LEMMA AlikeMatches ==
  ASSUME BehaviourInv, Drained, NothingLost, suppressed = 0, total = AllMade,
         NEW r \in PlainRules, NEW p, NEW i
  PROVE  LET truth == ByProcess(made)
         IN  /\ CompletedAt(logged, p, i, r) <=> CompletedAt(truth, p, i, r)
             /\ CompletedAt(logged, p, i, r) => logged[p][i].n = truth[p][i].n
<1> DEFINE truth == ByProcess(made)
           H == At(logged, p, <<>>)
           G == Known(made, p)
<1>1. Alike(H, G) /\ (H # <<>> => p \in DOMAIN truth)
  BY HistoriesAreAlike
<1>2. /\ p \in DOMAIN logged => H = logged[p]
      /\ p \notin DOMAIN logged => H = <<>>
      /\ p \in DOMAIN truth => truth[p] = G
  BY DEF At, ByProcess
<1> HIDE DEF H, G, truth
<1>3. /\ DOMAIN H = 1..Len(H) /\ DOMAIN G = 1..Len(H) /\ Len(H) \in Nat
      /\ \A j \in 1..Len(H) : H[j].api = G[j].api /\ H[j].n = G[j].n
  <2>1. H \in Seq(Records) /\ G \in Seq(Records)
    BY <1>1 DEF Alike
  <2>2. Len(H) = Len(G) /\ \A j \in 1..Len(H) : H[j].api = G[j].api /\ H[j].n = G[j].n
    BY <1>1, AlikeIs
  <2> QED BY <2>1, <2>2
<1>4. i \in DOMAIN H => p \in DOMAIN logged /\ p \in DOMAIN truth
  BY <1>1, <1>2, EmptySeq
<1>5. i \in DOMAIN H => (Completes(r, H, i) <=> Completes(r, G, i))
  BY <1>1, <1>3, AlikeCompletes
<1>6. CompletedAt(logged, p, i, r)
        <=> i \in DOMAIN H /\ r \in RulesEndingIn[H[i].api] /\ Completes(r, H, i)
  BY <1>2, <1>4 DEF CompletedAt
<1>7. CompletedAt(truth, p, i, r)
        <=> i \in DOMAIN H /\ r \in RulesEndingIn[G[i].api] /\ Completes(r, G, i)
  BY <1>2, <1>3, <1>4 DEF CompletedAt
<1>8. CompletedAt(logged, p, i, r) <=> CompletedAt(truth, p, i, r)
  BY <1>3, <1>5, <1>6, <1>7
<1>9. CompletedAt(logged, p, i, r) => logged[p][i].n = truth[p][i].n
  BY <1>2, <1>3, <1>4, <1>6
<1> QED BY <1>8, <1>9 DEF truth

\* The rule a completed match is of.
LEMMA MatchedRules ==
  ASSUME NEW histories, \A p \in DOMAIN histories : histories[p] \in Seq(Records),
         NEW r \in PlainRules, NEW m
  PROVE  /\ m \in MatchesOf(histories, r.id)
              <=> \E p, i : CompletedAt(histories, p, i, r) /\ m = <<p, i, r>>
<1>1. ASSUME NEW p, NEW i, NEW q, CompletedAt(histories, p, i, q)
      PROVE  q \in RuleBook
  <2>1. /\ p \in DOMAIN histories /\ i \in DOMAIN histories[p]
        /\ q \in RulesEndingIn[histories[p][i].api]
    BY <1>1 DEF CompletedAt
  <2>2. histories[p][i].api \in Apis
    BY <2>1, HistoryIs
  <2> QED BY <2>1, <2>2 DEF RulesEndingIn
<1>2. r \in RuleBook
  BY DEF PlainRules
<1>3. ASSUME m \in MatchesOf(histories, r.id)
      PROVE  \E p, i : CompletedAt(histories, p, i, r) /\ m = <<p, i, r>>
  <2>1. m \in Matches(histories) /\ m[3].id = r.id
    BY <1>3 DEF MatchesOf
  <2>2. PICK p, i, q : CompletedAt(histories, p, i, q) /\ m = <<p, i, q>>
    BY <2>1, MatchIs
  <2>3. q = r
    <3>1. q.id = r.id /\ q \in RuleBook
      BY <1>1, <2>1, <2>2
    <3> QED BY <1>2, <3>1, RuleIdsAreUnique
  <2> QED BY <2>2, <2>3
<1>4. ASSUME NEW p, NEW i, CompletedAt(histories, p, i, r), m = <<p, i, r>>
      PROVE  m \in MatchesOf(histories, r.id)
  <2>1. m \in Matches(histories)
    BY <1>4, MatchIs
  <2> QED BY <1>4, <2>1 DEF MatchesOf
<1> QED BY <1>3, <1>4

\* hook_installer.py, hook_engine.py: from the sample's call to the count on the
\* host, for every sample, batch size, interleaving and rule book.  Through hooks
\* that report a name of their own, capture some of the arguments and batch the
\* calls, each rule that asks for nothing but captured arguments counts exactly
\* as often as the sample's own calls complete it, whenever all is received
\* and neither the channel nor a budget kept anything back.  What the hooks
\* capture is the hypothesis: a fact of the constants.
THEOREM BehaviourIsCounted == FactsReported => (Spec => []BehaviourCounted)
<1> SUFFICES ASSUME FactsReported PROVE Spec => []BehaviourCounted
  OBVIOUS
<1>1. ASSUME BehaviourInv PROVE BehaviourCounted
  <2> DEFINE truth == ByProcess(made)
  <2> SUFFICES ASSUME Drained, NothingLost, suppressed = 0, total = AllMade,
                      NEW r \in {q \in RuleBook : ~OnHandle(q)}
               PROVE  At(chainCounts, r.id, 0) = At(TrueCounts(truth), r.id, 0)
    BY DEF BehaviourCounted
  <2> DEFINE S == MatchesOf(logged, r.id)
             T == MatchesOf(truth, r.id)
  <2>1. /\ HistoryKept /\ chainCounts = TrueCounts(logged) /\ FinitelyMatched(logged)
        /\ platform \in Platforms /\ made \in Seq(MadeCalls) /\ r \in PlainRules
    BY <1>1 DEF BehaviourInv, MatchingInv, CountsKept, CountsExact, MonitorInv, AgentKept,
                PlainRules
  <2>2. /\ \A p \in DOMAIN logged : logged[p] \in Seq(Records)
        /\ \A p \in DOMAIN truth : truth[p] \in Seq(Records)
    BY <2>1, KnownIsHistory DEF HistoryKept, ByProcess
  <2> HIDE DEF truth
  <2>3. \A p, i : /\ CompletedAt(logged, p, i, r) <=> CompletedAt(truth, p, i, r)
                  /\ CompletedAt(logged, p, i, r) => logged[p][i].n = truth[p][i].n
    BY <1>1, <2>1, AlikeMatches DEF truth
  <2>4. /\ \A m : m \in S <=> \E p, i : CompletedAt(logged, p, i, r) /\ m = <<p, i, r>>
        /\ \A m : m \in T <=> \E p, i : CompletedAt(truth, p, i, r) /\ m = <<p, i, r>>
    BY <2>1, <2>2, MatchedRules
  <2>5. S = T
    BY <2>3, <2>4
  <2>6. \A m \in S : Weights(logged)[m] = Weights(truth)[m]
    <3> SUFFICES ASSUME NEW m \in S PROVE Weights(logged)[m] = Weights(truth)[m]
      OBVIOUS
    <3>1. m \in Matches(logged) /\ m \in Matches(truth)
      BY <2>5 DEF MatchesOf
    <3>2. PICK p, i : CompletedAt(logged, p, i, r) /\ m = <<p, i, r>>
      BY <2>4
    <3>3. logged[m[1]][m[2]].n = truth[m[1]][m[2]].n
      BY <2>3, <3>2
    <3> QED BY <3>1, <3>3 DEF Weights
  <2>7. IsFiniteSet(S)
    BY <2>1 DEF FinitelyMatched
  <2>8. /\ At(chainCounts, r.id, 0) = Sum(Weights(logged), S)
        /\ At(TrueCounts(truth), r.id, 0) = Sum(Weights(truth), T)
    BY <2>1, CountIs
  <2> HIDE DEF S, T
  <2>9. Sum(Weights(logged), S) = Sum(Weights(truth), S)
    BY <2>6, <2>7, SumOfSameTerms
  <2> QED BY <2>5, <2>8, <2>9
<1>2. Spec => []BehaviourInv
  BY BehaviourInvHolds
<1> QED BY <1>1, <1>2, PTL

=============================================================================
