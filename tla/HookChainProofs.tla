--------------------------- MODULE HookChainProofs ---------------------------
(***************************************************************************)
(* Proofs about the chains the hook engine finds, for every rule book,     *)
(* every set of samples and every window: each match is counted and none   *)
(* that is not there, a chain that is emitted is justified, and no match   *)
(* goes unreported.                                                        *)
(*                                                                         *)
(* First the lemmas about the operators of HookEngine and about the way    *)
(* there: what a window holds of a process's history, what the walk back   *)
(* through it finds, that this is the definition of a completed chain, and *)
(* that calls arrive in the order they were made in.                       *)
(***************************************************************************)
EXTENDS HookMonitoringProofs

-----------------------------------------------------------------------------
(* The calls that records stand for *)

\* How many calls each record stands for, by its position.
Ns(q) == [i \in DOMAIN q |-> q[i].n]

\* The fold over a sequence of records, as a table of its parts.
CallsStep(q, g, s) == IF s = {} THEN 0 ELSE g[s \ {Max(s)}] + q[Max(s)].n
CallsTable(q) == CHOOSE g : g = [s \in SUBSET DOMAIN q |-> CallsStep(q, g, s)]
Calls(q) == CallsTable(q)[DOMAIN q]

\* CallsFrom() is that fold.
LEMMA CallsFromIs ==
  ASSUME NEW h, NEW i
  PROVE  CallsFrom(h, i) = Calls(SubSeq(h, i, Len(h)))
  BY Zenon DEF CallsFrom, Calls, CallsTable, CallsStep, FoldLeft, MapThenFoldSet

\* It comes to the sum over the positions.
LEMMA CallsAreSum ==
  ASSUME NEW S, NEW q \in Seq(S), \A i \in 1..Len(q) : q[i].n \in Nat
  PROVE  Calls(q) = Sum(Ns(q), 1..Len(q))
<1> DEFINE D == 1..Len(q)
<1> DEFINE f == Ns(q)
<1>1. DOMAIN q = D /\ Len(q) \in Nat /\ IsFiniteSet(D)
  BY FS_Interval, LenProperties
<1>2. \A x \in D : f[x] = q[x].n /\ f[x] \in Nat
  BY <1>1 DEF Ns
<1> HIDE DEF f
<1>3. \A s \in SUBSET D : s # {} => Max(s) \in s
  BY <1>1, MaxIsGreatest
<1>9. D \in SUBSET D
  OBVIOUS
<1> HIDE DEF D
<1> DEFINE T == [s \in SUBSET D |-> Sum(f, s)]
<1>4. \A s \in SUBSET D : T[s] = CallsStep(q, T, s)
  <2> SUFFICES ASSUME NEW s \in SUBSET D PROVE Sum(f, s) = CallsStep(q, T, s)
    OBVIOUS
  <2>1. CASE s = {}
    BY <2>1, SumUnfolds, FS_EmptySet DEF CallsStep
  <2>2. CASE s # {}
    <3> DEFINE x == Max(s)
    <3>1. x \in s /\ x \in D /\ s \ {x} \in SUBSET D /\ IsFiniteSet(s) /\ IsFiniteSet(s \ {x})
      BY <1>1, <1>3, <2>2, FS_Subset
    <3>5. \A y \in s : f[y] \in Nat
      BY <1>2
    <3>6. \A y \in s \ {x} : f[y] \in Nat
      BY <3>5
    <3> HIDE DEF x
    <3>2. Sum(f, s) = f[x] + Sum(f, s \ {x})
      BY <3>1, <3>5, SumTakesAny
    <3>3. Sum(f, s \ {x}) \in Nat
      BY <3>1, <3>6, SumIsNat
    <3>4. CallsStep(q, T, s) = Sum(f, s \ {x}) + q[x].n
      BY <1>2, <2>2, <3>1 DEF CallsStep, x
    <3> QED BY <1>2, <3>1, <3>2, <3>3, <3>4
  <2> QED BY <2>1, <2>2
<1>5. T = [s \in SUBSET DOMAIN q |-> CallsStep(q, T, s)]
  BY <1>1, <1>4
<1> DEFINE G == CallsTable(q)
<1>6. G = [s \in SUBSET DOMAIN q |-> CallsStep(q, G, s)]
  BY <1>5 DEF CallsTable
<1> HIDE DEF G
<1> DEFINE B == {s \in SUBSET D : G[s] # Sum(f, s)}
<1>7. B = {}
  <2> SUFFICES ASSUME B # {} PROVE FALSE
    OBVIOUS
  <2>1. PICK s \in B : \A t \in B : t \subseteq s => t = s
    <3>1. B \in SUBSET SUBSET D
      OBVIOUS
    <3> HIDE DEF B
    <3> QED BY <1>1, <3>1, SmallestSet
  <2>2. G[s] = CallsStep(q, G, s) /\ Sum(f, s) = CallsStep(q, T, s)
    BY <1>1, <1>4, <1>6
  <2>3. CASE s = {}
    BY <2>2, <2>3 DEF CallsStep
  <2>4. CASE s # {}
    <3> DEFINE t == s \ {Max(s)}
    <3>1. t \in SUBSET D /\ t \subseteq s /\ t # s
      BY <1>3, <2>4
    <3>2. G[t] = T[t]
      BY <2>1, <3>1
    <3> QED BY <2>2, <2>4, <3>2 DEF CallsStep
  <2> QED BY <2>3, <2>4
<1>10. G[D] = Sum(f, D)
  BY <1>7, <1>9
<1> QED BY <1>1, <1>10 DEF Calls, G, f, D

\* Records of calls, as the engine decodes them.
Marks == {"autostart_key"} \cup UNION {s.shows : s \in SampleSteps}
Records == [api : Apis, at : Nat, n : Nat \ {0}, marks : SUBSET Marks]

\* What a history of records is made of.
LEMMA HistoryIs ==
  ASSUME NEW H \in Seq(Records)
  PROVE  /\ Len(H) \in Nat /\ DOMAIN H = 1..Len(H)
         /\ \A i \in 1..Len(H) : /\ H[i] \in Records /\ H[i].api \in Apis
                                 /\ H[i].at \in Nat /\ H[i].n \in Nat \ {0}
<1>1. Len(H) \in Nat /\ DOMAIN H = 1..Len(H) /\ \A i \in 1..Len(H) : H[i] \in Records
  BY LenProperties, ElementOfSeq
<1>2. \A c \in Records : c.api \in Apis /\ c.at \in Nat /\ c.n \in Nat \ {0}
  BY DEF Records
<1> QED BY <1>1, <1>2

\* The first m entries of g are those of f from position lo on.
Shifted(f, g, lo, m) == \A k \in 1..m : g[k] = f[lo + k - 1] /\ g[k] \in Nat

\* The sum of a shifted sequence is that of the positions it came from.
LEMMA SumShifts ==
  ASSUME NEW f, NEW g, NEW lo \in Nat, NEW m \in Nat, Shifted(f, g, lo, m)
  PROVE  Sum(g, 1..m) = Sum(f, lo..(lo + m - 1))
<1> DEFINE B == {k \in 0..m : Sum(g, 1..k) # Sum(f, lo..(lo + k - 1))}
<1> SUFFICES ASSUME B # {} PROVE FALSE
  OBVIOUS
<1> USE DEF Shifted
<1>1. PICK k \in B : \A j \in B : k <= j
  <2>1. B \in SUBSET Nat
    OBVIOUS
  <2> HIDE DEF B
  <2> QED BY <2>1, LeastNumber
<1>2. CASE k = 0
  <2>1. 1..k = {} /\ lo..(lo + k - 1) = {}
    BY <1>2
  <2>2. Sum(g, {}) = 0 /\ Sum(f, {}) = 0
    BY SumUnfolds, FS_EmptySet
  <2> QED BY <2>1, <2>2
<1>3. CASE k # 0
  <2> DEFINE P == 1..k
  <2> DEFINE Q == lo..(lo + k - 1)
  <2>1. k \in 1..m /\ k - 1 \in 0..m /\ k - 1 \in Nat
    BY <1>3
  <2>2. P \ {k} = 1..(k - 1) /\ k \in P
    BY <2>1
  <2>8. Q \ {lo + k - 1} = lo..(lo + (k - 1) - 1) /\ lo + k - 1 \in Q
    <3> HIDE DEF B
    <3>1. \A x : x \in Q /\ x # lo + k - 1 <=> x \in lo..(lo + (k - 1) - 1)
      BY <2>1
    <3> HIDE DEF B
    <3>2. lo + k - 1 \in Q
      BY <2>1
    <3> QED BY <3>1, <3>2
  <2>3. IsFiniteSet(P) /\ IsFiniteSet(Q)
    BY <2>1, FS_Interval
  <2>4. (\A x \in P : g[x] \in Nat) /\ (\A x \in Q : f[x] \in Nat)
    <3>1. \A x \in P : x \in 1..m
      BY <2>1
    <3>2. \A x \in Q : x - lo + 1 \in 1..m /\ lo + (x - lo + 1) - 1 = x
      BY <2>1
    <3>3. \A x \in Q : f[x] \in Nat
      BY <3>2
    <3> QED BY <3>1, <3>3
  <2>5. Sum(g, 1..(k - 1)) = Sum(f, lo..(lo + (k - 1) - 1))
    BY <1>1, <2>1
  <2> HIDE DEF P, Q
  <2>10. \A x \in P : Sum(g, P) = g[x] + Sum(g, P \ {x})
    BY <2>3, <2>4, SumTakesAny
  <2>11. \A x \in Q : Sum(f, Q) = f[x] + Sum(f, Q \ {x})
    BY <2>3, <2>4, SumTakesAny
  <2>6. Sum(g, P) = g[k] + Sum(g, P \ {k})
    BY <2>2, <2>10, Zenon
  <2>9. Sum(f, Q) = f[lo + k - 1] + Sum(f, Q \ {lo + k - 1})
    BY <2>8, <2>11, Zenon
  <2>7. Sum(g, P) = Sum(f, Q)
    BY <2>1, <2>2, <2>5, <2>6, <2>8, <2>9
  <2> QED BY <2>7 DEF P, Q
<1> QED BY <1>2, <1>3

\* A part of a history of records.
LEMMA PartOf ==
  ASSUME NEW S, NEW H \in Seq(S), NEW i \in 1..(Len(H) + 1), NEW m \in (i - 1)..Len(H)
  PROVE  /\ SubSeq(H, i, m) \in Seq(S)
         /\ Len(SubSeq(H, i, m)) = m - i + 1
         /\ \A k \in 1..(m - i + 1) : SubSeq(H, i, m)[k] = H[i + k - 1]
  BY SubSeqProperties

\* The calls from a position on are the sum over the positions from there.
LEMMA CallsFromSums ==
  ASSUME NEW H \in Seq(Records), NEW i \in 1..(Len(H) + 1)
  PROVE  CallsFrom(H, i) = Sum(Ns(H), i..Len(H))
<1> DEFINE part == SubSeq(H, i, Len(H))
<1> DEFINE m == Len(H) - i + 1
<1>1. /\ part \in Seq(Records) /\ Len(part) = m
      /\ \A k \in 1..m : part[k] = H[i + k - 1]
  BY PartOf, LenProperties
<1>2. Len(H) \in Nat /\ m \in Nat /\ i - 1 \in Nat /\ DOMAIN H = 1..Len(H)
      /\ \A k \in 1..Len(H) : H[k].n \in Nat
  BY HistoryIs
<1> HIDE DEF part
<1>3. \A k \in 1..m : part[k].n = H[i + k - 1].n /\ part[k].n \in Nat
  BY <1>1, <1>2
<1>4. DOMAIN part = 1..m
  BY <1>1, LenProperties
<1> DEFINE g == Ns(part)
<1> DEFINE f == Ns(H)
<1>5. \A k \in 1..m : g[k] = f[i + k - 1] /\ g[k] \in Nat
  <2> SUFFICES ASSUME NEW k \in 1..m PROVE g[k] = f[i + k - 1] /\ g[k] \in Nat
    OBVIOUS
  <2>1. i + k - 1 \in 1..Len(H)
    BY <1>2
  <2> QED BY <1>2, <1>3, <1>4, <2>1 DEF Ns
<1>6. Calls(part) = Sum(g, 1..m)
  BY <1>1, <1>2, <1>3, CallsAreSum
<1>7. CallsFrom(H, i) = Calls(part)
  BY CallsFromIs DEF part
<1>8. i + m - 1 = Len(H) /\ i \in Nat /\ m \in Nat
  BY <1>2
<1> HIDE DEF f, g, m
<1>11. Shifted(f, g, i, m)
  BY <1>5 DEF Shifted
<1>12. Sum(g, 1..m) = Sum(f, i..(i + m - 1))
  BY <1>8, <1>11, SumShifts
<1>9. Sum(g, 1..m) = Sum(f, i..Len(H))
  BY <1>8, <1>12
<1>10. CallsFrom(H, i) = Sum(f, i..Len(H))
  BY <1>6, <1>7, <1>9
<1> QED BY <1>10 DEF f

\* The calls from a position on: none past the end, and each record adds its own.
LEMMA CallsFromUnfolds ==
  ASSUME NEW H \in Seq(Records)
  PROVE  /\ CallsFrom(H, Len(H) + 1) = 0
         /\ \A i \in 1..(Len(H) + 1) : CallsFrom(H, i) \in Nat
         /\ \A i \in 1..Len(H) : CallsFrom(H, i) = H[i].n + CallsFrom(H, i + 1)
<1> DEFINE f == Ns(H)
<1>1. Len(H) \in Nat /\ \A x \in 1..Len(H) : f[x] = H[x].n /\ f[x] \in Nat
  BY HistoryIs DEF Ns
<1> HIDE DEF f
<1>2. \A i \in 1..(Len(H) + 1) : CallsFrom(H, i) = Sum(f, i..Len(H))
  BY CallsFromSums DEF f
<1>3. CallsFrom(H, Len(H) + 1) = 0
  <2>1. (Len(H) + 1)..Len(H) = {} /\ Len(H) + 1 \in 1..(Len(H) + 1)
    BY <1>1
  <2>2. Sum(f, {}) = 0
    BY SumUnfolds, FS_EmptySet
  <2> QED BY <1>2, <2>1, <2>2
<1>4. \A i \in 1..(Len(H) + 1) : CallsFrom(H, i) \in Nat
  <2> SUFFICES ASSUME NEW i \in 1..(Len(H) + 1) PROVE Sum(f, i..Len(H)) \in Nat
    BY <1>2
  <2>1. IsFiniteSet(i..Len(H)) /\ \A x \in i..Len(H) : f[x] \in Nat
    BY <1>1, FS_Interval
  <2> QED BY <2>1, SumIsNat
<1>5. \A i \in 1..Len(H) : CallsFrom(H, i) = H[i].n + CallsFrom(H, i + 1)
  <2> SUFFICES ASSUME NEW i \in 1..Len(H) PROVE CallsFrom(H, i) = H[i].n + CallsFrom(H, i + 1)
    OBVIOUS
  <2> DEFINE P == i..Len(H)
  <2>4. i \in P /\ P \ {i} = (i + 1)..Len(H) /\ \A x \in P : f[x] \in Nat
    BY <1>1
  <2>5. IsFiniteSet(P)
    BY <1>1, FS_Interval
  <2>1. IsFiniteSet(P) /\ i \in P /\ P \ {i} = (i + 1)..Len(H) /\ \A x \in P : f[x] \in Nat
    BY <2>4, <2>5
  <2> HIDE DEF P
  <2>2. Sum(f, P) = f[i] + Sum(f, P \ {i})
    BY <2>1, SumTakesAny
  <2>3. CallsFrom(H, i) = Sum(f, P) /\ CallsFrom(H, i + 1) = Sum(f, P \ {i})
    <3>1. i \in 1..(Len(H) + 1) /\ i + 1 \in 1..(Len(H) + 1)
      BY <1>1
    <3> QED BY <1>2, <2>1, <3>1 DEF P
  <2> QED BY <1>1, <2>2, <2>3
<1> QED BY <1>3, <1>4, <1>5

\* Fewer positions stand for no more calls.
LEMMA CallsFromFalls ==
  ASSUME NEW H \in Seq(Records), NEW i \in 1..(Len(H) + 1), NEW j \in i..(Len(H) + 1)
  PROVE  CallsFrom(H, j) <= CallsFrom(H, i)
<1> DEFINE B == {k \in i..(Len(H) + 1) : CallsFrom(H, k) > CallsFrom(H, i)}
<1>1. CASE B = {}
  <2>1. j \notin B
    BY <1>1
  <2>2. ~(CallsFrom(H, j) > CallsFrom(H, i))
    BY <2>1
  <2>3. CallsFrom(H, j) \in Nat /\ CallsFrom(H, i) \in Nat
    <3>1. Len(H) \in Nat
      BY LenProperties
    <3>2. j \in 1..(Len(H) + 1)
      BY <3>1
    <3> QED BY <3>2, CallsFromUnfolds
  <2> HIDE DEF B
  <2> QED BY <2>2, <2>3
<1>2. CASE B # {}
  <2>1. PICK k \in B : \A x \in B : k <= x
    <3>1. B \in SUBSET Nat
      OBVIOUS
    <3> HIDE DEF B
    <3> QED BY <1>2, <3>1, LeastNumber
  <2>2. k # i
    BY CallsFromUnfolds
  <2>3. k - 1 \in i..(Len(H) + 1) /\ k - 1 \in 1..Len(H) /\ k - 1 \notin B
    BY <2>1, <2>2
  <2>4. CallsFrom(H, k - 1) = H[k - 1].n + CallsFrom(H, k)
    <3>1. k - 1 + 1 = k
      OBVIOUS
    <3> QED BY <2>3, <3>1, CallsFromUnfolds
  <2>5. H[k - 1].n \in Nat
    BY <2>3, HistoryIs
  <2> QED BY <2>3, <2>4, <2>5, CallsFromUnfolds
<1> QED BY <1>1, <1>2

\* One more record adds its calls everywhere.
LEMMA CallsFromGrows ==
  ASSUME NEW H \in Seq(Records), NEW c \in Records, NEW i \in 1..(Len(H) + 1)
  PROVE  CallsFrom(Append(H, c), i) = CallsFrom(H, i) + c.n
<1> DEFINE G == Append(H, c)
<1> DEFINE L == Len(H)
<1>1. G \in Seq(Records) /\ Len(G) = L + 1 /\ G[L + 1] = c /\ \A k \in 1..L : G[k] = H[k]
  BY AppendProperties
<1>2. L \in Nat /\ i \in 1..(L + 1) /\ c.n \in Nat
  BY LenProperties DEF Records
<1> HIDE DEF G
<1> DEFINE f == Ns(H)
<1> DEFINE g == Ns(G)
<1>3. (\A x \in 1..L : f[x] = g[x]) /\ g[L + 1] = c.n /\ \A x \in 1..(L + 1) : g[x] \in Nat
  <2>1. /\ DOMAIN H = 1..L /\ DOMAIN G = 1..(L + 1) /\ L + 1 \in 1..(L + 1)
        /\ \A x \in 1..L : x \in 1..(L + 1) /\ G[x] = H[x]
        /\ \A x \in 1..(L + 1) : G[x].n \in Nat
    <3>1. DOMAIN H = 1..L
      BY HistoryIs
    <3>2. DOMAIN G = 1..(L + 1) /\ \A x \in 1..(L + 1) : G[x].n \in Nat
      <4>1. /\ DOMAIN G = 1..Len(G)
            /\ \A x \in 1..Len(G) : G[x].n \in Nat \ {0}
        BY <1>1, HistoryIs, Zenon
      <4> QED BY <1>1, <4>1
    <3>3. L + 1 \in 1..(L + 1) /\ \A x \in 1..L : x \in 1..(L + 1)
      BY <1>2
    <3> QED BY <1>1, <3>1, <3>2, <3>3
  <2> QED BY <1>1, <2>1 DEF Ns
<1> DEFINE P == i..(L + 1)
<1> DEFINE Q == i..L
<1>4. /\ IsFiniteSet(P) /\ IsFiniteSet(Q) /\ P \ {L + 1} = Q /\ L + 1 \in P
      /\ \A x \in P : g[x] \in Nat
      /\ \A x \in Q : f[x] = g[x]
  <2>1. IsFiniteSet(P) /\ IsFiniteSet(Q)
    BY <1>2, FS_Interval
  <2>2. P \ {L + 1} = Q /\ L + 1 \in P /\ \A x \in P : x \in 1..(L + 1)
    BY <1>2
  <2>3. \A x \in Q : x \in 1..L
    BY <1>2
  <2> QED BY <1>3, <2>1, <2>2, <2>3
<1>5. CallsFrom(H, i) = Sum(f, Q) /\ CallsFrom(G, i) = Sum(g, P)
  <2>1. i \in 1..(Len(G) + 1)
    BY <1>1, <1>2
  <2> QED BY <1>1, <2>1, CallsFromSums
<1> HIDE DEF f, g, P, Q
<1>6. Sum(g, P) = g[L + 1] + Sum(g, Q)
  BY <1>4, SumTakesAny
<1>7. Sum(f, Q) = Sum(g, Q)
  BY <1>4, SumOfSameTerms
<1>8. Sum(f, Q) \in Nat
  BY <1>5, CallsFromUnfolds
<1> QED BY <1>2, <1>3, <1>5, <1>6, <1>7, <1>8 DEF G

-----------------------------------------------------------------------------
(* The window of a process *)

\* The end of the end of a history.
LEMMA EndOfEnd ==
  ASSUME NEW S, NEW H \in Seq(S), NEW k \in 1..(Len(H) + 1), NEW W,
         W = SubSeq(H, k, Len(H)), NEW i \in 1..(Len(W) + 1)
  PROVE  /\ Len(W) = Len(H) - k + 1
         /\ SubSeq(W, i, Len(W)) = SubSeq(H, k + i - 1, Len(H))
<1>1. Len(H) \in Nat
  BY LenProperties
<1>2. W \in Seq(S) /\ Len(W) = Len(H) - k + 1 /\ \A j \in 1..Len(W) : W[j] = H[k + j - 1]
  BY <1>1, PartOf
<1> DEFINE m == Len(W) - i + 1
<1> DEFINE V == SubSeq(W, i, Len(W))
<1> DEFINE U == SubSeq(H, k + i - 1, Len(H))
<1>3. k + i - 1 \in 1..(Len(H) + 1) /\ Len(W) \in Nat /\ m = Len(H) - (k + i - 1) + 1
  BY <1>1, <1>2
<1>4. V \in Seq(S) /\ Len(V) = m /\ \A j \in 1..m : V[j] = W[i + j - 1]
  <2>1. W \in Seq(S) /\ i \in 1..(Len(W) + 1) /\ Len(W) \in (i - 1)..Len(W)
    BY <1>2, <1>3
  <2> QED BY <2>1, PartOf
<1>5. U \in Seq(S) /\ Len(U) = m /\ \A j \in 1..m : U[j] = H[k + i - 1 + j - 1]
  BY <1>1, <1>3, PartOf
<1>6. \A j \in 1..m : V[j] = U[j]
  <2> SUFFICES ASSUME NEW j \in 1..m PROVE V[j] = U[j]
    OBVIOUS
  <2>1. i + j - 1 \in 1..Len(W) /\ k + (i + j - 1) - 1 = k + i - 1 + j - 1
    BY <1>1, <1>2, <1>3
  <2> QED BY <1>2, <1>4, <1>5, <2>1
<1> HIDE DEF V, U
<1>7. V = U
  BY <1>4, <1>5, <1>6, SeqEqual
<1> QED BY <1>2, <1>7 DEF V, U

\* What a window holds of a process's history: its end, as far back as fewer
\* than MaxWindow calls came after.
IsWindow(W, H) ==
    \E k \in 1..(Len(H) + 1) :
        /\ W = SubSeq(H, k, Len(H))
        /\ \A j \in 1..Len(H) : j >= k <=> CallsFrom(H, j + 1) < MaxWindow

\* Remembering a call keeps that.
LEMMA RememberKeepsWindow ==
  ASSUME NEW H \in Seq(Records), NEW c \in Records, NEW W, IsWindow(W, H)
  PROVE  IsWindow(Remember(W, c), Append(H, c))
<1> DEFINE G == Append(H, c)
<1> DEFINE L == Len(H)
<1> DEFINE all == Append(W, c)
<1>1. PICK k \in 1..(L + 1) : /\ W = SubSeq(H, k, L)
                              /\ \A j \in 1..L : j >= k <=> CallsFrom(H, j + 1) < MaxWindow
  BY DEF IsWindow
<1>2. L \in Nat /\ MaxWindow \in Nat \ {0} /\ c.n \in Nat \ {0}
  BY HistoryIs, EngineAssumption DEF Records
<1>3. G \in Seq(Records) /\ Len(G) = L + 1 /\ G[L + 1] = c /\ \A j \in 1..L : G[j] = H[j]
  BY AppendProperties
<1>4. W \in Seq(Records) /\ Len(W) = L - k + 1 /\ \A j \in 1..Len(W) : W[j] = H[k + j - 1]
  BY <1>1, <1>2, PartOf
<1>5. /\ all \in Seq(Records) /\ Len(all) = L - k + 2 /\ all[Len(all)] = c
      /\ \A j \in 1..Len(W) : all[j] = W[j]
  BY <1>2, <1>4, AppendProperties
<1>6. all = SubSeq(G, k, L + 1)
  <2> DEFINE U == SubSeq(G, k, L + 1)
  <2>1. U \in Seq(Records) /\ Len(U) = L - k + 2 /\ \A j \in 1..(L - k + 2) : U[j] = G[k + j - 1]
    BY <1>2, <1>3, PartOf
  <2>2. \A j \in 1..(L - k + 2) : all[j] = U[j]
    <3> SUFFICES ASSUME NEW j \in 1..(L - k + 2) PROVE all[j] = U[j]
      OBVIOUS
    <3>1. CASE j = L - k + 2
      <4>1. k + j - 1 = L + 1
        BY <1>2, <3>1
      <4> QED BY <1>3, <1>5, <2>1, <3>1, <4>1
    <3>2. CASE j # L - k + 2
      <4>1. j \in 1..Len(W) /\ k + j - 1 \in 1..L
        BY <1>2, <1>4, <3>2
      <4> QED BY <1>3, <1>4, <1>5, <2>1, <4>1
    <3> QED BY <3>1, <3>2
  <2> HIDE DEF all, U
  <2>3. all = U
    BY <1>5, <2>1, <2>2, SeqEqual
  <2> QED BY <2>3 DEF U
<1> HIDE DEF all, G
<1>7. \A i \in 1..(Len(all) + 1) : /\ SubSeq(all, i, Len(all)) = SubSeq(G, k + i - 1, L + 1)
                                   /\ CallsFrom(all, i) = CallsFrom(G, k + i - 1)
  <2> SUFFICES ASSUME NEW i \in 1..(Len(all) + 1)
               PROVE  /\ SubSeq(all, i, Len(all)) = SubSeq(G, k + i - 1, L + 1)
                      /\ CallsFrom(all, i) = CallsFrom(G, k + i - 1)
    OBVIOUS
  <2>1. k \in 1..(Len(G) + 1)
    BY <1>2, <1>3
  <2>2. SubSeq(all, i, Len(all)) = SubSeq(G, k + i - 1, Len(G))
    BY <1>3, <1>6, <2>1, EndOfEnd
  <2> QED BY <1>3, <2>2, CallsFromIs
<1> DEFINE Fits(i) == /\ CallsFrom(all, i + 1) < MaxWindow
                      /\ i = 1 \/ CallsFrom(all, i) >= MaxWindow
<1>8. \E i \in 1..Len(all) : Fits(i)
  <2> DEFINE B == {i \in 1..Len(all) : CallsFrom(all, i + 1) < MaxWindow}
  <2>1. B \in SUBSET Nat
    OBVIOUS
  <2>2. Len(all) \in B
    BY <1>2, <1>5, CallsFromUnfolds
  <2>3. PICK i \in B : \A j \in B : i <= j
    <3> HIDE DEF B
    <3> QED BY <2>1, <2>2, LeastNumber
  <2>4. CASE i = 1
    BY <2>3, <2>4
  <2>5. CASE i # 1
    <3>3. i \in 1..Len(all) /\ Len(all) \in Nat
      BY <1>2, <1>5
    <3>4. i - 1 \in 1..Len(all) /\ i - 1 + 1 = i /\ ~(i <= i - 1)
      BY <2>5, <3>3
    <3>1. i - 1 \in 1..Len(all) /\ i - 1 \notin B /\ i - 1 + 1 = i
      <4> HIDE DEF B
      <4> QED BY <2>3, <3>4
    <3>2. CallsFrom(all, i) >= MaxWindow
      <4>1. CallsFrom(all, i) \in Nat
        BY <1>2, <1>5, CallsFromUnfolds
      <4> QED BY <1>2, <3>1, <4>1
    <3> QED BY <2>3, <3>2
  <2> QED BY <2>4, <2>5
<1> DEFINE i == CHOOSE i \in 1..Len(all) : Fits(i)
<1>9. i \in 1..Len(all) /\ Fits(i)
  BY <1>8
<1>10. Remember(W, c) = SubSeq(all, i, Len(all))
  BY Zenon DEF Remember, all
<1> HIDE DEF i
<1> DEFINE z == k + i - 1
<1>11. /\ Remember(W, c) = SubSeq(G, z, Len(G)) /\ z \in 1..(L + 1)
       /\ CallsFrom(G, z + 1) < MaxWindow
       /\ i = 1 \/ CallsFrom(G, z) >= MaxWindow
  <2>4. i \in 1..(L - k + 2) /\ Len(all) = L - k + 2
    BY <1>5, <1>9
  <2>1. i \in 1..(Len(all) + 1) /\ i + 1 \in 1..(Len(all) + 1) /\ k + (i + 1) - 1 = z + 1
    BY <1>2, <2>4
  <2>2. z \in 1..(L + 1)
    BY <1>2, <2>4
  <2> HIDE DEF z
  <2>3. CallsFrom(all, i) = CallsFrom(G, z) /\ CallsFrom(all, i + 1) = CallsFrom(G, z + 1)
        /\ SubSeq(all, i, Len(all)) = SubSeq(G, z, L + 1)
    BY <1>7, <2>1 DEF z
  <2> QED BY <1>3, <1>9, <1>10, <2>2, <2>3
<1>13. z \in 1..(Len(G) + 1) /\ (i = 1 => z = k)
  BY <1>2, <1>3, <1>11
<1> HIDE DEF z
<1>12. \A j \in 1..Len(G) : j >= z <=> CallsFrom(G, j + 1) < MaxWindow
  <2> SUFFICES ASSUME NEW j \in 1..Len(G)
               PROVE  j >= z <=> CallsFrom(G, j + 1) < MaxWindow
    OBVIOUS
  <2>1. j \in 1..(L + 1) /\ j + 1 \in 1..(Len(G) + 1) /\ z + 1 \in 1..(Len(G) + 1)
        /\ z \in 1..(Len(G) + 1) /\ z \in 1..(L + 1)
    BY <1>2, <1>3, <1>11, <1>13
  <2>2. CallsFrom(G, j + 1) \in Nat /\ CallsFrom(G, z + 1) \in Nat /\ CallsFrom(G, z) \in Nat
    BY <1>3, <2>1, CallsFromUnfolds
  <2>3. CASE j >= z
    <3>1. j + 1 \in (z + 1)..(Len(G) + 1)
      BY <2>1, <2>3
    <3>2. CallsFrom(G, j + 1) <= CallsFrom(G, z + 1)
      BY <1>3, <2>1, <3>1, CallsFromFalls
    <3> QED BY <1>2, <1>11, <2>2, <2>3, <3>2
  <2>4. CASE j < z /\ i # 1
    <3>1. z \in (j + 1)..(Len(G) + 1)
      BY <2>1, <2>4
    <3>2. CallsFrom(G, z) <= CallsFrom(G, j + 1)
      BY <1>3, <2>1, <3>1, CallsFromFalls
    <3> QED BY <1>2, <1>11, <2>1, <2>2, <2>4, <3>2
  <2>5. CASE j < z /\ i = 1
    <3>1. z = k /\ j \in 1..L /\ j + 1 \in 1..(L + 1) /\ ~(j >= k)
      BY <1>2, <1>13, <2>1, <2>5
    <3>2. CallsFrom(H, j + 1) \in Nat /\ ~(CallsFrom(H, j + 1) < MaxWindow)
      BY <1>1, <3>1, CallsFromUnfolds
    <3>3. CallsFrom(G, j + 1) = CallsFrom(H, j + 1) + c.n
      BY <3>1, CallsFromGrows DEF G
    <3> QED BY <1>2, <2>1, <2>5, <3>1, <3>2, <3>3
  <2>6. j \in Int /\ z \in Int
    BY <2>1
  <2> QED BY <2>3, <2>4, <2>5, <2>6
<1> QED BY <1>11, <1>12, <1>13 DEF IsWindow, G

\* The window of a history that ends in c: c, and before it what the matching
\* of c may look at.
LEMMA WindowEnds ==
  ASSUME NEW H \in Seq(Records), NEW c \in Records, NEW V, IsWindow(V, Append(H, c))
  PROVE  /\ Last(V) = c
         /\ \E k \in 1..(Len(H) + 1) :
               /\ Front(V) = SubSeq(H, k, Len(H))
               /\ \A j \in 1..Len(H) :
                     j >= k <=> CallsFrom(Append(H, c), j + 1) < MaxWindow
<1> DEFINE G == Append(H, c)
<1> DEFINE L == Len(H)
<1>1. G \in Seq(Records) /\ Len(G) = L + 1 /\ G[L + 1] = c /\ \A j \in 1..L : G[j] = H[j]
  BY AppendProperties
<1>2. L \in Nat /\ MaxWindow \in Nat \ {0}
  BY HistoryIs, EngineAssumption
<1> HIDE DEF G
<1>3. PICK k \in 1..(Len(G) + 1) :
        /\ V = SubSeq(G, k, Len(G))
        /\ \A j \in 1..Len(G) : j >= k <=> CallsFrom(G, j + 1) < MaxWindow
  BY DEF IsWindow, G
<1>4. k \in 1..(L + 1)
  <2>1. CallsFrom(G, L + 1 + 1) = 0
    BY <1>1, CallsFromUnfolds
  <2>2. L + 1 \in 1..Len(G)
    BY <1>1, <1>2
  <2>3. L + 1 >= k
    BY <1>2, <1>3, <2>1, <2>2
  <2> QED BY <1>1, <1>2, <1>3, <2>3
<1>5. /\ V \in Seq(Records) /\ Len(V) = L - k + 2
      /\ \A j \in 1..(L - k + 2) : V[j] = G[k + j - 1]
  BY <1>1, <1>2, <1>3, PartOf
<1>6. V[Len(V)] = c
  <2>1. Len(V) \in 1..(L - k + 2) /\ k + Len(V) - 1 = L + 1
    BY <1>2, <1>4, <1>5
  <2> QED BY <1>1, <1>5, <2>1
<1>7. Front(V) = SubSeq(H, k, L)
  <2> DEFINE m == L - k + 1
  <2> DEFINE F == SubSeq(V, 1, Len(V) - 1)
  <2> DEFINE U == SubSeq(H, k, L)
  <2>1. m \in Nat /\ Len(V) - 1 = m /\ m \in (1 - 1)..Len(V) /\ 1 \in 1..(Len(V) + 1)
    BY <1>2, <1>4, <1>5
  <2>2. F \in Seq(Records) /\ Len(F) = m /\ \A j \in 1..m : F[j] = V[j]
    <3>1. /\ SubSeq(V, 1, m) \in Seq(Records) /\ Len(SubSeq(V, 1, m)) = m - 1 + 1
          /\ \A j \in 1..(m - 1 + 1) : SubSeq(V, 1, m)[j] = V[1 + j - 1]
      BY <1>5, <2>1, PartOf
    <3>2. m - 1 + 1 = m /\ \A j \in 1..m : 1 + j - 1 = j
      BY <2>1
    <3>3. F = SubSeq(V, 1, m)
      BY <2>1
    <3> HIDE DEF F, m
    <3> QED BY <3>1, <3>2, <3>3
  <2>3. U \in Seq(Records) /\ Len(U) = m /\ \A j \in 1..m : U[j] = H[k + j - 1]
    BY <1>2, <1>4, PartOf
  <2>4. \A j \in 1..m : F[j] = U[j]
    <3> SUFFICES ASSUME NEW j \in 1..m PROVE F[j] = U[j]
      OBVIOUS
    <3>1. j \in 1..(L - k + 2) /\ k + j - 1 \in 1..L
      BY <1>2, <1>4
    <3> QED BY <1>1, <1>5, <2>2, <2>3, <3>1
  <2> HIDE DEF F, U, m
  <2>5. F = U
    BY <2>2, <2>3, <2>4, SeqEqual
  <2> QED BY <2>5 DEF F, U, Front
<1>8. \A j \in 1..L : j >= k <=> CallsFrom(G, j + 1) < MaxWindow
  BY <1>1, <1>2, <1>3
<1> QED BY <1>4, <1>6, <1>7, <1>8 DEF Last, G

-----------------------------------------------------------------------------
(* The walk back through the window *)

\* A call that can be link k of a rule.
IsLink(rule, k, call) == call.api = rule.seq[k] /\ Satisfies(rule, call)

\* The links m + 1 up to the last but one of a rule, found in order among the
\* positions s of q.
Found(rule, q, m, s) ==
    \E f \in [(m + 1)..(Len(rule.seq) - 1) -> s] :
        \A k \in (m + 1)..(Len(rule.seq) - 1) :
            IsLink(rule, k, q[f[k]]) /\ \A l \in (m + 1)..(k - 1) : f[l] < f[k]

\* How few links can be left to find among the positions s.
Missing(rule, q, s) == Min({m \in 0..(Len(rule.seq) - 1) : Found(rule, q, m, s)})

\* The fold of _try_match(), as a table of its parts.
NextMissing(rule, call, needed) ==
    IF needed > 0 /\ call.api = rule.seq[needed] /\ Satisfies(rule, call)
    THEN needed - 1 ELSE needed
LinkStep(rule, q, g, s) ==
    IF s = {} THEN Len(rule.seq) - 1
    ELSE NextMissing(rule, q[Min(s)], g[s \ {Min(s)}])
LinkTable(rule, q) == CHOOSE g : g = [s \in SUBSET DOMAIN q |-> LinkStep(rule, q, g, s)]

\* _try_match() is that fold.
LEMMA TryMatchIs ==
  ASSUME NEW rule, NEW trigger, NEW history
  PROVE  TryMatch(rule, trigger, history)
           <=> LET q == InHorizon(rule, trigger, history)
               IN  Satisfies(rule, trigger) /\ LinkTable(rule, q)[DOMAIN q] = 0
  BY ZenonT(60) DEF TryMatch, LinkTable, LinkStep, NextMissing, FoldRight, MapThenFoldSet

\* There is always a least number of missing links.
LEMMA MissingIs ==
  ASSUME NEW rule, Len(rule.seq) \in Nat \ {0}, NEW q, NEW s
  PROVE  /\ Missing(rule, q, s) \in 0..(Len(rule.seq) - 1)
         /\ Found(rule, q, Missing(rule, q, s), s)
         /\ \A m \in 0..(Len(rule.seq) - 1) : Found(rule, q, m, s) => Missing(rule, q, s) <= m
<1> DEFINE K == Len(rule.seq) - 1
<1> DEFINE B == {m \in 0..K : Found(rule, q, m, s)}
<1>1. K \in Nat
  OBVIOUS
<1>2. Found(rule, q, K, s)
  <2> DEFINE f == [k \in (K + 1)..K |-> 0]
  <2>1. (K + 1)..K = {}
    BY <1>1
  <2>2. f \in [(K + 1)..K -> s]
    BY <2>1
  <2> HIDE DEF f, K
  <2>3. \A k \in (K + 1)..K : IsLink(rule, k, q[f[k]]) /\ \A l \in (K + 1)..(k - 1) : f[l] < f[k]
    BY <2>1
  <2> QED BY <2>2, <2>3 DEF Found, K
<1>3. K \in B /\ B \in SUBSET Nat
  BY <1>1, <1>2
<1> HIDE DEF B
<1>4. Min(B) \in B /\ \A x \in B : Min(B) <= x
  BY <1>3, MinIsLeast
<1> QED BY <1>4 DEF B, Missing

\* What is found at and after x, but for the first link, is found after x.
LEMMA FoundAfter ==
  ASSUME NEW rule, Len(rule.seq) \in Nat \ {0}, NEW q, NEW s \in SUBSET Nat,
         NEW x \in s, \A y \in s : x <= y,
         NEW m \in 0..(Len(rule.seq) - 2), Found(rule, q, m, s)
  PROVE  /\ Found(rule, q, m + 1, s \ {x})
         /\ \/ Found(rule, q, m, s \ {x})
            \/ IsLink(rule, m + 1, q[x])
<1> DEFINE K == Len(rule.seq) - 1
<1> DEFINE P == (m + 1)..K
<1> DEFINE Q == (m + 1 + 1)..K
<1>1. PICK f \in [P -> s] :
        \A k \in P : IsLink(rule, k, q[f[k]]) /\ \A l \in (m + 1)..(k - 1) : f[l] < f[k]
  BY DEF Found
<1>2. m + 1 \in P /\ Q \subseteq P /\ K \in Nat
  OBVIOUS
<1>3. \A k \in Q : k \in P /\ m + 1 \in (m + 1)..(k - 1)
                   /\ \A l \in (m + 1 + 1)..(k - 1) : l \in (m + 1)..(k - 1)
  OBVIOUS
<1> HIDE DEF P, Q
<1>4. \A k \in Q : f[k] \in s \ {x}
  <2> SUFFICES ASSUME NEW k \in Q PROVE f[k] # x
    BY <1>1, <1>3
  <2>1. f[m + 1] < f[k] /\ f[m + 1] \in s /\ f[k] \in s
    BY <1>1, <1>2, <1>3
  <2>2. x <= f[m + 1] /\ x \in Nat /\ f[m + 1] \in Nat /\ f[k] \in Nat
    BY <2>1
  <2> QED BY <2>1, <2>2
<1>5. Found(rule, q, m + 1, s \ {x})
  <2> DEFINE g == [k \in Q |-> f[k]]
  <2>1. g \in [Q -> s \ {x}]
    BY <1>4
  <2>2. \A k \in Q : \A l \in (m + 1 + 1)..(k - 1) : l \in Q
    BY <1>2 DEF Q
  <2>3. \A k \in Q : /\ IsLink(rule, k, q[g[k]])
                     /\ \A l \in (m + 1 + 1)..(k - 1) : g[l] < g[k]
    BY <1>1, <1>3, <2>2
  <2> HIDE DEF g
  <2> QED BY <2>1, <2>3 DEF Found, Q
<1>6. CASE f[m + 1] = x
  BY <1>1, <1>2, <1>5, <1>6
<1>7. CASE f[m + 1] # x
  <2>1. \A k \in P : k = m + 1 \/ k \in Q
    BY <1>2 DEF P, Q
  <2>2. \A k \in P : f[k] \in s \ {x}
    BY <1>1, <1>2, <1>4, <1>7, <2>1
  <2>3. f \in [P -> s \ {x}]
    BY <1>1, <2>2
  <2>4. Found(rule, q, m, s \ {x})
    BY <1>1, <2>3 DEF Found, P
  <2> QED BY <1>5, <2>4
<1> QED BY <1>6, <1>7

\* A call that can be the next link, before all others, is one link less to find.
LEMMA FoundBefore ==
  ASSUME NEW rule, Len(rule.seq) \in Nat \ {0}, NEW q, NEW s \in SUBSET Nat,
         NEW x \in s, \A y \in s : x <= y,
         NEW m \in 0..(Len(rule.seq) - 1), Found(rule, q, m, s \ {x})
  PROVE  /\ Found(rule, q, m, s)
         /\ m > 0 /\ IsLink(rule, m, q[x]) => Found(rule, q, m - 1, s)
<1> DEFINE K == Len(rule.seq) - 1
<1> DEFINE P == m..K
<1> DEFINE Q == (m + 1)..K
<1>1. PICK f \in [Q -> s \ {x}] :
        \A k \in Q : IsLink(rule, k, q[f[k]]) /\ \A l \in (m + 1)..(k - 1) : f[l] < f[k]
  BY DEF Found
<1>2. Found(rule, q, m, s)
  <2>1. f \in [Q -> s]
    BY <1>1
  <2> QED BY <1>1, <2>1 DEF Found
<1>3. ASSUME m > 0, IsLink(rule, m, q[x])
      PROVE  Found(rule, q, m - 1, s)
  <2> DEFINE g == [k \in P |-> IF k = m THEN x ELSE f[k]]
  <2>1. m - 1 + 1 = m /\ \A k \in P : k # m => k \in Q
    BY <1>3
  <2>2. \A k \in Q : k \in P /\ k # m
    BY <1>3
  <2>3. \A k \in P : \A l \in m..(k - 1) : k # m /\ k \in Q /\ l \in P
                        /\ (l = m \/ (l # m /\ l \in (m + 1)..(k - 1)))
    BY <1>3
  <2> HIDE DEF P, Q
  <2>4. g \in [P -> s]
    BY <1>1, <2>1
  <2>5. \A k \in Q : f[k] \in s /\ x < f[k]
    <3> SUFFICES ASSUME NEW k \in Q PROVE f[k] \in s /\ x < f[k]
      OBVIOUS
    <3>1. f[k] \in s /\ f[k] # x /\ f[k] \in Nat /\ x \in Nat /\ x <= f[k]
      BY <1>1
    <3> QED BY <3>1
  <2>6. \A k \in P : IsLink(rule, k, q[g[k]])
    BY <1>1, <1>3, <2>1
  <2>7. \A k \in P : \A l \in m..(k - 1) : g[l] < g[k]
    <3> SUFFICES ASSUME NEW k \in P, NEW l \in m..(k - 1) PROVE g[l] < g[k]
      OBVIOUS
    <3>1. k # m /\ k \in Q /\ l \in P /\ (l = m \/ (l # m /\ l \in (m + 1)..(k - 1)))
      BY <2>3
    <3>2. g[k] = f[k]
      BY <3>1
    <3>3. CASE l = m
      BY <2>5, <3>1, <3>2, <3>3
    <3>4. CASE l # m
      <4>1. g[l] = f[l] /\ f[l] < f[k]
        BY <1>1, <3>1, <3>4
      <4> QED BY <3>2, <4>1
    <3> QED BY <3>3, <3>4
  <2> HIDE DEF g
  <2>8. \A k \in P : IsLink(rule, k, q[g[k]]) /\ \A l \in m..(k - 1) : g[l] < g[k]
    BY <2>6, <2>7
  <2> QED BY <2>1, <2>4, <2>8 DEF Found, P
<1> QED BY <1>2, <1>3

\* One turn of the loop: the latest fitting call is taken for the next link,
\* and no other choice leaves fewer to find.
LEMMA MissingUnfolds ==
  ASSUME NEW rule, Len(rule.seq) \in Nat \ {0}, NEW q, NEW s \in SUBSET Nat
  PROVE  Missing(rule, q, s)
           = IF s = {} THEN Len(rule.seq) - 1
             ELSE NextMissing(rule, q[Min(s)], Missing(rule, q, s \ {Min(s)}))
<1> DEFINE K == Len(rule.seq) - 1
<1> DEFINE n == Missing(rule, q, s)
<1>1. n \in 0..K /\ Found(rule, q, n, s)
      /\ \A m \in 0..K : Found(rule, q, m, s) => n <= m
  BY MissingIs
<1>2. CASE s = {}
  <2>1. PICK f \in [(n + 1)..K -> s] : TRUE
    BY <1>1 DEF Found
  <2>2. (n + 1)..K = {}
    BY <1>2, <2>1
  <2>3. n + 1 \notin (n + 1)..K
    BY <2>2
  <2>4. n = K
    BY <1>1, <2>3
  <2> QED BY <1>2, <2>4
<1>3. CASE s # {}
  <2> DEFINE x == Min(s)
  <2> DEFINE t == s \ {x}
  <2> DEFINE b == Missing(rule, q, t)
  <2>1. x \in s /\ \A y \in s : x <= y
    BY <1>3, MinIsLeast
  <2>2. b \in 0..K /\ Found(rule, q, b, t)
        /\ \A m \in 0..K : Found(rule, q, m, t) => b <= m
    BY MissingIs
  <2> HIDE DEF x, b, n
  <2>3. Found(rule, q, b, s) /\ (b > 0 /\ IsLink(rule, b, q[x]) => Found(rule, q, b - 1, s))
    BY <2>1, <2>2, FoundBefore
  <2>4. \A m \in 0..(K - 1) : Found(rule, q, m, s) =>
           Found(rule, q, m + 1, t) /\ (Found(rule, q, m, t) \/ IsLink(rule, m + 1, q[x]))
    <3>1. K - 1 = Len(rule.seq) - 2
      OBVIOUS
    <3> QED BY <2>1, <3>1, FoundAfter
  <2>5. n <= b
    BY <1>1, <2>2, <2>3
  <2>6. n < b => n + 1 = b /\ IsLink(rule, b, q[x])
    <3> SUFFICES ASSUME n < b PROVE n + 1 = b /\ IsLink(rule, b, q[x])
      OBVIOUS
    <3>1. n \in 0..(K - 1) /\ n + 1 \in 0..K /\ n \in 0..K
      BY <1>1, <2>2
    <3>2. Found(rule, q, n + 1, t) /\ (Found(rule, q, n, t) \/ IsLink(rule, n + 1, q[x]))
      BY <1>1, <2>4, <3>1
    <3>5. b <= n + 1
      BY <2>2, <3>1, <3>2
    <3>6. Found(rule, q, n, t) => b <= n
      BY <2>2, <3>1
    <3>3. b <= n + 1 /\ ~Found(rule, q, n, t)
      BY <1>1, <2>2, <3>5, <3>6
    <3>4. n + 1 = b
      BY <1>1, <2>2, <3>3
    <3> QED BY <3>2, <3>3, <3>4
  <2>7. CASE b > 0 /\ IsLink(rule, b, q[x])
    <3>1. b - 1 \in 0..K /\ Found(rule, q, b - 1, s)
      BY <2>2, <2>3, <2>7
    <3>2. n <= b - 1
      BY <1>1, <3>1
    <3>3. n = b - 1
      BY <1>1, <2>2, <2>6, <3>2
    <3>4. NextMissing(rule, q[x], b) = b - 1
      BY <2>7 DEF NextMissing, IsLink
    <3> QED BY <1>3, <3>3, <3>4 DEF x, b, n
  <2>8. CASE ~(b > 0 /\ IsLink(rule, b, q[x]))
    <3>1. n = b
      BY <1>1, <2>2, <2>5, <2>6, <2>8
    <3>2. NextMissing(rule, q[x], b) = b
      BY <2>8 DEF NextMissing, IsLink
    <3> QED BY <1>3, <3>1, <3>2 DEF x, b, n
  <2> QED BY <2>7, <2>8
<1> QED BY <1>2, <1>3

\* The walk back finds a rule's links exactly when they are there, in order.
LEMMA WalkFinds ==
  ASSUME NEW rule, Len(rule.seq) \in Nat \ {0}, NEW S, NEW q \in Seq(S)
  PROVE  LinkTable(rule, q)[DOMAIN q] = 0 <=> Found(rule, q, 0, 1..Len(q))
<1> DEFINE D == 1..Len(q)
<1>1. DOMAIN q = D /\ IsFiniteSet(D) /\ D \in SUBSET Nat
  BY LenProperties, FS_Interval
<1> HIDE DEF D
<1> DEFINE T == [s \in SUBSET D |-> Missing(rule, q, s)]
<1>2. \A s \in SUBSET D : s # {} => Min(s) \in s
  BY <1>1, MinIsLeast
<1>3. \A s \in SUBSET D : T[s] = LinkStep(rule, q, T, s)
  <2> SUFFICES ASSUME NEW s \in SUBSET D PROVE Missing(rule, q, s) = LinkStep(rule, q, T, s)
    OBVIOUS
  <2>1. s \in SUBSET Nat /\ s \ {Min(s)} \in SUBSET D
    BY <1>1
  <2>2. T[s \ {Min(s)}] = Missing(rule, q, s \ {Min(s)})
    BY <2>1
  <2> HIDE DEF T
  <2> QED BY <2>1, <2>2, MissingUnfolds DEF LinkStep
<1>4. T = [s \in SUBSET DOMAIN q |-> LinkStep(rule, q, T, s)]
  BY <1>1, <1>3
<1> DEFINE G == LinkTable(rule, q)
<1>5. G = [s \in SUBSET DOMAIN q |-> LinkStep(rule, q, G, s)]
  BY <1>4 DEF LinkTable
<1> HIDE DEF G
<1> DEFINE B == {s \in SUBSET D : G[s] # Missing(rule, q, s)}
<1>6. B = {}
  <2> SUFFICES ASSUME B # {} PROVE FALSE
    OBVIOUS
  <2>1. PICK s \in B : \A t \in B : t \subseteq s => t = s
    <3>1. B \in SUBSET SUBSET D /\ B # {}
      OBVIOUS
    <3>2. IsFiniteSet(D)
      BY <1>1
    <3> HIDE DEF B, T
    <3> QED BY <3>1, <3>2, SmallestSet
  <2>2. G[s] = LinkStep(rule, q, G, s) /\ Missing(rule, q, s) = LinkStep(rule, q, T, s)
    BY <1>1, <1>3, <1>5
  <2>3. CASE s = {}
    BY <2>2, <2>3 DEF LinkStep
  <2>4. CASE s # {}
    <3> DEFINE t == s \ {Min(s)}
    <3>1. t \in SUBSET D /\ t \subseteq s /\ t # s
      BY <1>2, <2>4
    <3>2. G[t] = T[t]
      BY <2>1, <3>1
    <3> QED BY <2>2, <2>4, <3>2 DEF LinkStep
  <2> QED BY <2>3, <2>4
<1>7. G[D] = Missing(rule, q, D)
  BY <1>6
<1>8. Missing(rule, q, D) = 0 <=> Found(rule, q, 0, D)
  BY MissingIs
<1> QED BY <1>1, <1>7, <1>8 DEF G, D

-----------------------------------------------------------------------------
(* A candidate is a completed chain *)

\* A history in the order of time.
InOrder(H) == \A i, j \in 1..Len(H) : i <= j => H[i].at <= H[j].at

\* The walk back stops where the calls are older than the rule's window.
LEMMA HorizonIs ==
  ASSUME NEW rule, rule.window \in Nat, NEW trigger, trigger.at \in Nat,
         NEW h \in Seq(Records), InOrder(h)
  PROVE  \E z \in 1..(Len(h) + 1) :
            /\ InHorizon(rule, trigger, h) = SubSeq(h, z, Len(h))
            /\ \A j \in 1..Len(h) : j >= z <=> h[j].at >= trigger.at - rule.window
<1> DEFINE old == {i \in 1..Len(h) : h[i].at < trigger.at - rule.window}
<1> DEFINE first == IF old = {} THEN 1 ELSE 1 + CHOOSE i \in old : \A j \in old : j <= i
<1>1. Len(h) \in Nat /\ \A i \in 1..Len(h) : h[i].at \in Nat
  BY HistoryIs
<1>2. InHorizon(rule, trigger, h) = SubSeq(h, first, Len(h))
  BY Zenon DEF InHorizon
<1>3. CASE old = {}
  <2>1. first = 1
    BY <1>3
  <2>2. 1 \in 1..(Len(h) + 1)
    BY <1>1
  <2>3. \A j \in 1..Len(h) : j >= 1 <=> h[j].at >= trigger.at - rule.window
    <3> SUFFICES ASSUME NEW j \in 1..Len(h)
                 PROVE  h[j].at >= trigger.at - rule.window
      BY <1>1
    <3>1. ~(h[j].at < trigger.at - rule.window)
      BY <1>3
    <3> QED BY <1>1, <3>1
  <2> HIDE DEF first
  <2> QED BY <1>2, <2>1, <2>2, <2>3
<1>4. CASE old # {}
  <2> DEFINE last == CHOOSE i \in old : \A j \in old : j <= i
  <2>1. \E i \in old : \A j \in old : j <= i
    <3>1. old \in SUBSET (1..Len(h))
      OBVIOUS
    <3> HIDE DEF old
    <3>2. Max(old) \in old /\ \A j \in old : j <= Max(old)
      BY <1>1, <1>4, <3>1, MaxIsGreatest
    <3> QED BY <3>2
  <2>2. last \in old /\ \A j \in old : j <= last
    BY <2>1
  <2>3. first = 1 + last
    BY <1>4
  <2> HIDE DEF last, first
  <2>4. last \in 1..Len(h) /\ h[last].at < trigger.at - rule.window
    BY <2>2
  <2>5. 1 + last \in 1..(Len(h) + 1)
    BY <1>1, <2>4
  <2>6. \A j \in 1..Len(h) : j >= 1 + last <=> h[j].at >= trigger.at - rule.window
    <3> SUFFICES ASSUME NEW j \in 1..Len(h)
                 PROVE  j >= 1 + last <=> h[j].at >= trigger.at - rule.window
      OBVIOUS
    <3>1. CASE j >= 1 + last
      <4>1. ~(j <= last)
        BY <1>1, <2>4, <3>1
      <4>2. ~(h[j].at < trigger.at - rule.window)
        BY <2>2, <4>1
      <4> QED BY <1>1, <3>1, <4>2
    <3>2. CASE ~(j >= 1 + last)
      <4>1. j <= last
        BY <1>1, <2>4, <3>2
      <4>2. h[j].at <= h[last].at
        BY <2>4, <4>1 DEF InOrder
      <4>3. h[j].at \in Nat /\ h[last].at \in Nat
        BY <1>1, <2>4
      <4> QED BY <2>4, <3>2, <4>2, <4>3
    <3> QED BY <3>1, <3>2
  <2> QED BY <1>2, <2>3, <2>5, <2>6
<1> QED BY <1>3, <1>4

\* The links are found in the end of a history as they are in the history.
LEMMA FoundInEnd ==
  ASSUME NEW rule, Len(rule.seq) \in Nat \ {0}, NEW H \in Seq(Records),
         NEW z \in 1..(Len(H) + 1), NEW q, q = SubSeq(H, z, Len(H))
  PROVE  Found(rule, q, 0, 1..Len(q)) <=> Found(rule, H, 0, z..Len(H))
<1> DEFINE K == Len(rule.seq) - 1
<1> DEFINE L == Len(H)
<1> DEFINE m == L - z + 1
<1>0. K \in Nat
  OBVIOUS
<1>1. L \in Nat /\ m \in Nat /\ z \in Nat /\ Len(q) = m /\ \A j \in 1..m : q[j] = H[z + j - 1]
  BY HistoryIs, PartOf
<1>2. ASSUME NEW f \in [(0 + 1)..K -> 1..m],
             \A k \in (0 + 1)..K :
                IsLink(rule, k, q[f[k]]) /\ \A l \in (0 + 1)..(k - 1) : f[l] < f[k]
      PROVE  Found(rule, H, 0, z..L)
  <2> DEFINE g == [k \in (0 + 1)..K |-> z + f[k] - 1]
  <2> HIDE DEF K
  <2>1. \A k \in (0 + 1)..K : f[k] \in 1..m /\ z + f[k] - 1 \in z..L
    BY <1>1
  <2>2. g \in [(0 + 1)..K -> z..L]
    BY <2>1
  <2>3. \A k \in (0 + 1)..K : \A l \in (0 + 1)..(k - 1) : l \in (0 + 1)..K
    BY <1>0
  <2>4. \A k \in (0 + 1)..K : H[g[k]] = q[f[k]] /\ g[k] = z + f[k] - 1
    BY <1>1, <2>1
  <2>5. \A k \in (0 + 1)..K : \A l \in (0 + 1)..(k - 1) : g[l] < g[k]
    <3> SUFFICES ASSUME NEW k \in (0 + 1)..K, NEW l \in (0 + 1)..(k - 1) PROVE g[l] < g[k]
      OBVIOUS
    <3>1. l \in (0 + 1)..K /\ f[l] < f[k]
      BY <1>2, <2>3
    <3>2. f[l] \in 1..m /\ f[k] \in 1..m /\ g[l] = z + f[l] - 1 /\ g[k] = z + f[k] - 1
      BY <2>1, <2>4, <3>1
    <3> HIDE DEF g
    <3> QED BY <1>1, <3>1, <3>2
  <2> HIDE DEF g
  <2>6. \A k \in (0 + 1)..K :
           IsLink(rule, k, H[g[k]]) /\ \A l \in (0 + 1)..(k - 1) : g[l] < g[k]
    BY <1>2, <2>4, <2>5
  <2> QED BY <2>2, <2>6 DEF Found, K
<1>3. ASSUME NEW g \in [(0 + 1)..K -> z..L],
             \A k \in (0 + 1)..K :
                IsLink(rule, k, H[g[k]]) /\ \A l \in (0 + 1)..(k - 1) : g[l] < g[k]
      PROVE  Found(rule, q, 0, 1..m)
  <2> DEFINE f == [k \in (0 + 1)..K |-> g[k] - z + 1]
  <2> HIDE DEF K
  <2>1. \A k \in (0 + 1)..K : g[k] \in z..L /\ g[k] - z + 1 \in 1..m
                              /\ z + (g[k] - z + 1) - 1 = g[k]
    <3>1. L \in Nat /\ z \in Nat
      BY <1>1
    <3>2. \A x \in z..L : x - z + 1 \in 1..(L - z + 1) /\ z + (x - z + 1) - 1 = x
      BY <3>1
    <3> QED BY <3>2
  <2>2. f \in [(0 + 1)..K -> 1..m]
    BY <2>1
  <2>3. \A k \in (0 + 1)..K : \A l \in (0 + 1)..(k - 1) : l \in (0 + 1)..K
    BY <1>0
  <2>4. \A k \in (0 + 1)..K : q[f[k]] = H[g[k]] /\ f[k] = g[k] - z + 1
    BY <1>1, <2>1
  <2>5. \A k \in (0 + 1)..K : \A l \in (0 + 1)..(k - 1) : f[l] < f[k]
    <3> SUFFICES ASSUME NEW k \in (0 + 1)..K, NEW l \in (0 + 1)..(k - 1) PROVE f[l] < f[k]
      OBVIOUS
    <3>1. l \in (0 + 1)..K /\ g[l] < g[k]
      BY <1>3, <2>3
    <3>2. g[l] \in z..L /\ g[k] \in z..L /\ f[l] = g[l] - z + 1 /\ f[k] = g[k] - z + 1
      BY <2>1, <2>4, <3>1
    <3> HIDE DEF f
    <3> QED BY <1>1, <3>1, <3>2
  <2> HIDE DEF f
  <2>6. \A k \in (0 + 1)..K :
           IsLink(rule, k, q[f[k]]) /\ \A l \in (0 + 1)..(k - 1) : f[l] < f[k]
    BY <1>3, <2>4, <2>5
  <2> QED BY <2>2, <2>6 DEF Found, K
<1>4. Found(rule, q, 0, 1..m) => Found(rule, H, 0, z..L)
  BY <1>2 DEF Found
<1>5. Found(rule, H, 0, z..L) => Found(rule, q, 0, 1..m)
  BY <1>3 DEF Found
<1> QED BY <1>1, <1>4, <1>5

\* Completes(), of the calls up to c, the part of the history G they are in, and
\* how many there are before c.
CompletesWith(rule, G, part, c, L) ==
    /\ Satisfies(rule, c)
    /\ \E f \in [1..(Len(rule.seq) - 1) -> 1..L] :
          \A k \in 1..(Len(rule.seq) - 1) :
             /\ /\ G[f[k]].api = rule.seq[k]
                /\ Satisfies(rule, G[f[k]])
                /\ G[f[k]].at >= c.at - rule.window
                /\ CallsFrom(part, f[k] + 1) < MaxWindow
             /\ \A m \in 1..(k - 1) : f[m] < f[k]

\* That is what it is.
LEMMA CompletesIs ==
  ASSUME NEW rule, NEW G, NEW i
  PROVE  Completes(rule, G, i) <=> CompletesWith(rule, G, SubSeq(G, 1, i), G[i], i - 1)
  BY Zenon DEF Completes, CompletesWith

\* The walk back from a call through the calls before it in its window finds a
\* rule's links exactly when the call completes the rule.
LEMMA MatchingIsExact ==
  ASSUME NEW rule, Len(rule.seq) \in Nat \ {0}, rule.window \in Nat,
         NEW H \in Seq(Records), NEW c \in Records, InOrder(Append(H, c)),
         NEW V, IsWindow(V, Append(H, c))
  PROVE  TryMatch(rule, c, Front(V)) <=> Completes(rule, Append(H, c), Len(H) + 1)
<1> DEFINE G == Append(H, c)
<1> DEFINE L == Len(H)
<1> DEFINE K == Len(rule.seq) - 1
<1> DEFINE h == Front(V)
<1> DEFINE Near(j) == G[j].at >= c.at - rule.window /\ CallsFrom(G, j + 1) < MaxWindow
<1>1. G \in Seq(Records) /\ Len(G) = L + 1 /\ G[L + 1] = c /\ \A j \in 1..L : G[j] = H[j]
  BY AppendProperties
<1>2. L \in Nat /\ c.at \in Nat
  BY HistoryIs DEF Records
<1>3. PICK k \in 1..(L + 1) : /\ h = SubSeq(H, k, L)
                              /\ \A j \in 1..L : j >= k <=> CallsFrom(G, j + 1) < MaxWindow
  BY WindowEnds
<1> HIDE DEF G, h
<1>4. h \in Seq(Records) /\ Len(h) = L - k + 1 /\ \A j \in 1..Len(h) : h[j] = H[k + j - 1]
  BY <1>2, <1>3, PartOf
<1>5. InOrder(h)
  <2> SUFFICES ASSUME NEW i \in 1..Len(h), NEW j \in 1..Len(h), i <= j
               PROVE  h[i].at <= h[j].at
    BY DEF InOrder
  <2>1. k + i - 1 \in 1..L /\ k + j - 1 \in 1..L /\ k + i - 1 <= k + j - 1
        /\ k + i - 1 \in 1..Len(G) /\ k + j - 1 \in 1..Len(G)
    <3>1. Len(h) = L - k + 1 /\ Len(G) = L + 1
      BY <1>1, <1>4
    <3>2. i \in 1..(L - k + 1) /\ j \in 1..(L - k + 1)
      BY <3>1
    <3> HIDE DEF L
    <3> QED BY <1>2, <3>1, <3>2
  <2>2. h[i] = G[k + i - 1] /\ h[j] = G[k + j - 1]
    BY <1>1, <1>4, <2>1
  <2>3. InOrder(G)
    BY DEF G
  <2>4. G[k + i - 1].at <= G[k + j - 1].at
    BY <2>1, <2>3 DEF InOrder
  <2> QED BY <2>2, <2>4
<1>6. PICK z \in 1..(Len(h) + 1) :
        /\ InHorizon(rule, c, h) = SubSeq(h, z, Len(h))
        /\ \A j \in 1..Len(h) : j >= z <=> h[j].at >= c.at - rule.window
  BY <1>2, <1>4, <1>5, HorizonIs
<1> DEFINE y == k + z - 1
<1> DEFINE q == InHorizon(rule, c, h)
<1>7. q = SubSeq(H, y, L)
  BY <1>3, <1>6, EndOfEnd
<1>8. y \in 1..(L + 1)
  BY <1>2, <1>4
<1>9. \A j \in 1..L : j \in y..L <=> Near(j)
  <2> SUFFICES ASSUME NEW j \in 1..L PROVE j \in y..L <=> Near(j)
    OBVIOUS
  <2>1. CASE j >= k
    <3> DEFINE i == j - k + 1
    <3>1. i \in 1..Len(h) /\ k + i - 1 = j
      BY <1>2, <1>4, <2>1
    <3>2. h[i] = G[j]
      BY <1>1, <1>4, <3>1
    <3>3. i >= z <=> G[j].at >= c.at - rule.window
      BY <1>6, <3>1, <3>2
    <3>4. i >= z <=> j >= y
      BY <1>2, <1>4
    <3>5. CallsFrom(G, j + 1) < MaxWindow
      BY <1>3, <2>1
    <3>6. j \in y..L <=> j >= y
      BY <1>2, <1>8
    <3> HIDE DEF i, y
    <3> QED BY <3>3, <3>4, <3>5, <3>6
  <2>2. CASE ~(j >= k)
    <3>1. ~(CallsFrom(G, j + 1) < MaxWindow)
      BY <1>3, <2>2
    <3>2. j \notin y..L
      BY <1>2, <1>4, <2>2
    <3> QED BY <3>1, <3>2
  <2> QED BY <2>1, <2>2
<1> HIDE DEF y, q
<1>10. q \in Seq(Records)
  BY <1>2, <1>7, <1>8, PartOf
<1>11. TryMatch(rule, c, h) <=> Satisfies(rule, c) /\ Found(rule, H, 0, y..L)
  <2>1. TryMatch(rule, c, h) <=> Satisfies(rule, c) /\ LinkTable(rule, q)[DOMAIN q] = 0
    BY TryMatchIs DEF q
  <2>2. LinkTable(rule, q)[DOMAIN q] = 0 <=> Found(rule, q, 0, 1..Len(q))
    BY <1>10, WalkFinds
  <2>3. Found(rule, q, 0, 1..Len(q)) <=> Found(rule, H, 0, y..L)
    BY <1>7, <1>8, FoundInEnd
  <2> QED BY <2>1, <2>2, <2>3
<1>12. Completes(rule, G, L + 1)
         <=> /\ Satisfies(rule, c)
             /\ \E f \in [1..K -> 1..L] :
                   \A m \in 1..K :
                      /\ IsLink(rule, m, G[f[m]]) /\ Near(f[m])
                      /\ \A l \in 1..(m - 1) : f[l] < f[m]
  <2>1. SubSeq(G, 1, L + 1) = G /\ G[L + 1] = c /\ L + 1 - 1 = L
    BY <1>1, <1>2, SubSeqFull
  <2>3. Completes(rule, G, L + 1) <=> CompletesWith(rule, G, G, c, L)
    <3> DEFINE i == L + 1
    <3>1. SubSeq(G, 1, i) = G /\ G[i] = c /\ i - 1 = L
      BY <2>1
    <3> HIDE DEF i
    <3>2. Completes(rule, G, i) <=> CompletesWith(rule, G, SubSeq(G, 1, i), G[i], i - 1)
      BY CompletesIs
    <3>3. Completes(rule, G, i) <=> CompletesWith(rule, G, G, c, L)
      BY <3>1, <3>2, Zenon
    <3> QED BY <3>3 DEF i
  <2> HIDE DEF G, K
  <2>2. Completes(rule, G, L + 1)
         <=> /\ Satisfies(rule, c)
             /\ \E f \in [1..K -> 1..L] :
                   \A m \in 1..K :
                      /\ /\ G[f[m]].api = rule.seq[m]
                         /\ Satisfies(rule, G[f[m]])
                         /\ G[f[m]].at >= c.at - rule.window
                         /\ CallsFrom(G, f[m] + 1) < MaxWindow
                      /\ \A l \in 1..(m - 1) : f[l] < f[m]
    BY <2>3, Zenon DEF CompletesWith, K
  <2> QED BY <2>2, Zenon DEF IsLink
<1>13. ASSUME NEW f \in [1..K -> 1..L],
              \A m \in 1..K : /\ IsLink(rule, m, G[f[m]]) /\ Near(f[m])
                              /\ \A l \in 1..(m - 1) : f[l] < f[m]
       PROVE  Found(rule, H, 0, y..L)
  <2> HIDE DEF K, Near
  <2>1. \A m \in 1..K : f[m] \in 1..L /\ f[m] \in y..L /\ H[f[m]] = G[f[m]]
    BY <1>1, <1>9, <1>13
  <2>2. f \in [1..K -> y..L]
    BY <2>1
  <2>3. \A m \in 1..K : IsLink(rule, m, H[f[m]]) /\ \A l \in 1..(m - 1) : f[l] < f[m]
    BY <1>13, <2>1
  <2>4. 0 + 1 = 1
    OBVIOUS
  <2> QED BY <2>2, <2>3, <2>4 DEF Found, K
<1>14. ASSUME NEW f \in [1..K -> y..L],
              \A m \in 1..K : /\ IsLink(rule, m, H[f[m]])
                              /\ \A l \in 1..(m - 1) : f[l] < f[m]
       PROVE  \E g \in [1..K -> 1..L] :
                 \A m \in 1..K :
                    /\ IsLink(rule, m, G[g[m]]) /\ Near(g[m])
                    /\ \A l \in 1..(m - 1) : g[l] < g[m]
  <2> HIDE DEF K, Near
  <2>1. \A j \in y..L : j \in 1..L
    BY <1>2, <1>8
  <2>2. \A m \in 1..K : f[m] \in y..L /\ f[m] \in 1..L /\ H[f[m]] = G[f[m]] /\ Near(f[m])
    BY <1>1, <1>9, <2>1
  <2>3. f \in [1..K -> 1..L]
    BY <2>2
  <2>4. \A m \in 1..K : /\ IsLink(rule, m, G[f[m]]) /\ Near(f[m])
                        /\ \A l \in 1..(m - 1) : f[l] < f[m]
    BY <1>14, <2>2
  <2> QED BY <2>3, <2>4
<1>15. Found(rule, H, 0, y..L)
         <=> \E f \in [1..K -> y..L] :
                \A m \in 1..K : /\ IsLink(rule, m, H[f[m]])
                                /\ \A l \in 1..(m - 1) : f[l] < f[m]
  <2>1. 0 + 1 = 1
    OBVIOUS
  <2> QED BY <2>1 DEF Found
<1> HIDE DEF K, Near
<1>16. TryMatch(rule, c, h) <=> Completes(rule, G, L + 1)
  BY <1>11, <1>12, <1>13, <1>14, <1>15
<1> QED BY <1>16 DEF h, G

\* A later call does not change what an earlier one completed.
LEMMA CompletesAsBefore ==
  ASSUME NEW rule, NEW H \in Seq(Records), NEW c \in Records, NEW i \in 1..Len(H)
  PROVE  Completes(rule, Append(H, c), i) <=> Completes(rule, H, i)
<1> DEFINE G == Append(H, c)
<1> DEFINE L == Len(H)
<1>1. G \in Seq(Records) /\ Len(G) = L + 1 /\ \A j \in 1..L : G[j] = H[j]
  BY AppendProperties
<1>2. L \in Nat
  BY HistoryIs
<1> HIDE DEF G
<1> DEFINE P == SubSeq(G, 1, i)
<1> DEFINE Q == SubSeq(H, 1, i)
<1>3. P \in Seq(Records) /\ Len(P) = i /\ \A j \in 1..i : P[j] = G[j]
  <2>1. i \in (1 - 1)..Len(G) /\ 1 \in 1..(Len(G) + 1) /\ i - 1 + 1 = i
    BY <1>1, <1>2
  <2>2. P \in Seq(Records) /\ Len(P) = i - 1 + 1 /\ \A j \in 1..(i - 1 + 1) : P[j] = G[1 + j - 1]
    BY <1>1, <2>1, PartOf
  <2> HIDE DEF P
  <2>3. \A j \in 1..i : 1 + j - 1 = j
    OBVIOUS
  <2> QED BY <2>1, <2>2, <2>3
<1>4. Q \in Seq(Records) /\ Len(Q) = i /\ \A j \in 1..i : Q[j] = H[j]
  <2>1. i \in (1 - 1)..Len(H) /\ 1 \in 1..(Len(H) + 1) /\ i - 1 + 1 = i
    BY <1>2
  <2>2. Q \in Seq(Records) /\ Len(Q) = i - 1 + 1 /\ \A j \in 1..(i - 1 + 1) : Q[j] = H[1 + j - 1]
    BY <2>1, PartOf
  <2> HIDE DEF Q
  <2>3. \A j \in 1..i : 1 + j - 1 = j
    OBVIOUS
  <2> QED BY <2>1, <2>2, <2>3
<1>5. \A j \in 1..i : G[j] = H[j] /\ j \in 1..L
  BY <1>1, <1>2
<1> HIDE DEF P, Q
<1>6. P = Q
  BY <1>3, <1>4, <1>5, SeqEqual
<1>7. G[i] = H[i]
  BY <1>5
<1>8. Completes(rule, G, i) <=> CompletesWith(rule, G, Q, H[i], i - 1)
  <2>1. Completes(rule, G, i) <=> CompletesWith(rule, G, P, G[i], i - 1)
    BY CompletesIs DEF P
  <2> QED BY <1>6, <1>7, <2>1, Zenon
<1>9. Completes(rule, H, i) <=> CompletesWith(rule, H, Q, H[i], i - 1)
  BY CompletesIs DEF Q
<1>10. CompletesWith(rule, G, Q, H[i], i - 1) <=> CompletesWith(rule, H, Q, H[i], i - 1)
  <2> DEFINE K == Len(rule.seq) - 1
  <2> DEFINE d == H[i]
  <2> DEFINE x == i - 1
  <2>1. \A j \in 1..x : G[j] = H[j]
    BY <1>5
  <2> HIDE DEF K, d, x
  <2>2. ASSUME NEW X, NEW Y, \A j \in 1..x : X[j] = Y[j], CompletesWith(rule, X, Q, d, x)
        PROVE  CompletesWith(rule, Y, Q, d, x)
    <3>1. PICK f \in [1..K -> 1..x] :
            \A k \in 1..K :
               /\ /\ X[f[k]].api = rule.seq[k]
                  /\ Satisfies(rule, X[f[k]])
                  /\ X[f[k]].at >= d.at - rule.window
                  /\ CallsFrom(Q, f[k] + 1) < MaxWindow
               /\ \A m \in 1..(k - 1) : f[m] < f[k]
      BY <2>2, Zenon DEF CompletesWith, K
    <3>2. \A k \in 1..K : X[f[k]] = Y[f[k]]
      BY <2>2
    <3>3. \A k \in 1..K :
               /\ /\ Y[f[k]].api = rule.seq[k]
                  /\ Satisfies(rule, Y[f[k]])
                  /\ Y[f[k]].at >= d.at - rule.window
                  /\ CallsFrom(Q, f[k] + 1) < MaxWindow
               /\ \A m \in 1..(k - 1) : f[m] < f[k]
      BY <3>1, <3>2
    <3>4. Satisfies(rule, d)
      BY <2>2, Zenon DEF CompletesWith
    <3> QED BY <3>3, <3>4, Zenon DEF CompletesWith, K
  <2>3. CompletesWith(rule, G, Q, d, x) <=> CompletesWith(rule, H, Q, d, x)
    BY <2>1, <2>2
  <2> QED BY <2>3 DEF d, x
<1> QED BY <1>8, <1>9, <1>10 DEF G

-----------------------------------------------------------------------------
(* The order in which calls arrive *)

\* What is on its way to the engine, first things first: the rest of the batch
\* being ingested, the batches in the channel, the batch being filled.
Line(p, ch, b) ==
    [i \in 0..(Len(ch) + 1) |-> IF i = 0 THEN p ELSE IF i = Len(ch) + 1 THEN b ELSE ch[i]]

\* The calls of both were made in that order.
Before(q, r) == \A k \in 1..Len(q), l \in 1..Len(r) : q[k].at <= r[l].at
MadeIn(q, u, t) == \A k \in 1..Len(q) : q[k].at \in u..t

\* Everything on its way was made between times u and t, in that order.
Arriving(u, p, ch, b, t) ==
    \A i \in 0..(Len(ch) + 1) :
        /\ InOrder(Line(p, ch, b)[i])
        /\ MadeIn(Line(p, ch, b)[i], u, t)
        /\ \A j \in (i + 1)..(Len(ch) + 1) : Before(Line(p, ch, b)[i], Line(p, ch, b)[j])

\* Sequences of reports.
Batches == Seq(Reports)

\* A report is made at some time.
LEMMA ReportTimes ==
  ASSUME NEW q \in Batches
  PROVE  /\ Len(q) \in Nat
         /\ \A k \in 1..Len(q) : q[k] \in Reports /\ q[k].at \in Nat
<1>1. Len(q) \in Nat /\ \A k \in 1..Len(q) : q[k] \in Reports
  BY LenProperties, ElementOfSeq DEF Batches
<1>2. \A r \in Reports : r.at \in Nat
  BY DEF Reports
<1> QED BY <1>1, <1>2

\* Nothing is in order with everything.
LEMMA NothingArrives ==
  /\ InOrder(<<>>)
  /\ \A u, t : MadeIn(<<>>, u, t)
  /\ \A q : Before(q, <<>>) /\ Before(<<>>, q)
<1>1. Len(<<>>) = 0 /\ 1..0 = {}
  BY EmptySeq
<1>2. \A x : x \notin 1..Len(<<>>)
  BY <1>1
<1> QED BY <1>2 DEF InOrder, MadeIn, Before

\* Time goes on.
LEMMA ArrivingLater ==
  ASSUME NEW u \in Nat, NEW p, NEW ch, NEW b, NEW t \in Nat, NEW v \in Nat, t <= v,
         Arriving(u, p, ch, b, t)
  PROVE  Arriving(u, p, ch, b, v)
<1>1. \A q : MadeIn(q, u, t) => MadeIn(q, u, v)
  <2>1. u..t \subseteq u..v
    OBVIOUS
  <2> QED BY <2>1 DEF MadeIn
<1> QED BY <1>1 DEF Arriving

\* A call that is made joins the batch.
LEMMA ArrivingMore ==
  ASSUME NEW u \in Nat, NEW p \in Batches, NEW ch \in Seq(Batches), NEW b \in Batches,
         NEW t \in Nat, u <= t, NEW r \in Reports, r.at = t, Arriving(u, p, ch, b, t)
  PROVE  Arriving(u, p, ch, Append(b, r), t)
<1> DEFINE n == Len(ch) + 1
<1> DEFINE old == Line(p, ch, b)
<1> DEFINE new == Line(p, ch, Append(b, r))
<1> DEFINE c == Append(b, r)
<1>1. Len(ch) \in Nat /\ n \in 0..n /\ n # 0
  BY LenProperties
<1>2. /\ \A i \in 0..n : i # n => new[i] = old[i]
      /\ old[n] = b /\ new[n] = c
  BY <1>1 DEF Line
<1>3. \A i \in 0..n : /\ InOrder(old[i]) /\ MadeIn(old[i], u, t)
                      /\ \A j \in (i + 1)..n : Before(old[i], old[j])
  BY DEF Arriving
<1>4. /\ Len(c) = Len(b) + 1 /\ c[Len(b) + 1] = r /\ Len(b) \in Nat
      /\ \A k \in 1..Len(b) : c[k] = b[k] /\ b[k].at \in Nat
  <2>1. b \in Seq(Reports) /\ Len(b) \in Nat /\ \A k \in 1..Len(b) : b[k].at \in Nat
    BY ReportTimes DEF Batches
  <2>2. /\ Len(c) = Len(b) + 1 /\ c[Len(b) + 1] = r
        /\ \A k \in 1..Len(b) : c[k] = b[k]
    BY <2>1, AppendProperties
  <2> QED BY <2>1, <2>2
<1> HIDE DEF c, old, new, n
<1>5. \A k \in 1..Len(c) : k = Len(b) + 1 \/ (k # Len(b) + 1 /\ k \in 1..Len(b))
  BY <1>4
<1>6. InOrder(b) /\ MadeIn(b, u, t)
  BY <1>1, <1>2, <1>3
<1>7. \A k \in 1..Len(b) : b[k].at <= t /\ u <= b[k].at
  BY <1>6 DEF MadeIn
<1>8. InOrder(c)
  <2> SUFFICES ASSUME NEW k \in 1..Len(c), NEW l \in 1..Len(c), k <= l
               PROVE  c[k].at <= c[l].at
    BY DEF InOrder
  <2>1. CASE l = Len(b) + 1
    <3>1. c[l].at = t
      BY <1>4, <2>1
    <3>2. k = Len(b) + 1 \/ k \in 1..Len(b)
      BY <1>5
    <3> QED BY <1>4, <1>7, <3>1, <3>2
  <2>2. CASE l # Len(b) + 1
    <3>1. l \in 1..Len(b) /\ k \in 1..Len(b)
      BY <1>4, <1>5, <2>2
    <3> QED BY <1>4, <1>6, <3>1 DEF InOrder
  <2> QED BY <2>1, <2>2
<1>9. MadeIn(c, u, t)
  <2> SUFFICES ASSUME NEW k \in 1..Len(c) PROVE c[k].at \in u..t
    BY DEF MadeIn
  <2>1. CASE k = Len(b) + 1
    BY <1>4, <2>1
  <2>2. CASE k \in 1..Len(b)
    BY <1>4, <1>7, <2>2
  <2> QED BY <1>5, <2>1, <2>2
<1>10. \A i \in 0..n : i # n => Before(old[i], c)
  <2> SUFFICES ASSUME NEW i \in 0..n, i # n, NEW k \in 1..Len(old[i]), NEW l \in 1..Len(c)
               PROVE  old[i][k].at <= c[l].at
    BY DEF Before
  <2>1. n \in (i + 1)..n
    BY <1>1 DEF n
  <2>2. Before(old[i], b) /\ MadeIn(old[i], u, t)
    BY <1>2, <1>3, <2>1
  <2>3. old[i][k].at <= t
    BY <2>2 DEF MadeIn
  <2>4. CASE l = Len(b) + 1
    BY <1>4, <2>3, <2>4
  <2>5. CASE l \in 1..Len(b)
    BY <1>4, <2>2, <2>5 DEF Before
  <2> QED BY <1>5, <2>4, <2>5
<1>11. \A i \in 0..n : /\ InOrder(new[i]) /\ MadeIn(new[i], u, t)
                       /\ \A j \in (i + 1)..n : Before(new[i], new[j])
  <2> SUFFICES ASSUME NEW i \in 0..n
               PROVE  /\ InOrder(new[i]) /\ MadeIn(new[i], u, t)
                      /\ \A j \in (i + 1)..n : Before(new[i], new[j])
    OBVIOUS
  <2>1. CASE i = n
    <3>1. \A j : j \notin (i + 1)..n
      BY <1>1, <2>1 DEF n
    <3> QED BY <1>2, <1>8, <1>9, <2>1, <3>1
  <2>2. CASE i # n
    <3>1. \A j \in (i + 1)..n : j \in 0..n
      BY <1>1 DEF n
    <3>2. \A j \in (i + 1)..n : Before(new[i], new[j])
      BY <1>2, <1>3, <1>10, <2>2, <3>1
    <3> QED BY <1>2, <1>3, <2>2, <3>2
  <2> QED BY <2>1, <2>2
<1> QED BY <1>11 DEF Arriving, new, n, c

\* A batch leaves for the channel, or is lost.
LEMMA ArrivingSent ==
  ASSUME NEW u \in Nat, NEW p \in Batches, NEW ch \in Seq(Batches), NEW b \in Batches,
         NEW t \in Nat, Arriving(u, p, ch, b, t)
  PROVE  /\ Arriving(u, p, Append(ch, b), <<>>, t)
         /\ Arriving(u, p, ch, <<>>, t)
<1> DEFINE n == Len(ch) + 1
<1> DEFINE old == Line(p, ch, b)
<1> DEFINE sent == Line(p, Append(ch, b), <<>>)
<1> DEFINE lost == Line(p, ch, <<>>)
<1>1. Len(ch) \in Nat /\ n \in 0..n /\ n # 0
  BY LenProperties
<1>2. /\ Len(Append(ch, b)) = n /\ Append(ch, b)[n] = b
      /\ \A k \in 1..Len(ch) : Append(ch, b)[k] = ch[k]
  BY AppendProperties
<1>3. \A i \in 0..n : /\ InOrder(old[i]) /\ MadeIn(old[i], u, t)
                      /\ \A j \in (i + 1)..n : Before(old[i], old[j])
  BY DEF Arriving
<1>4. /\ \A i \in 0..n : sent[i] = old[i]
      /\ sent[n + 1] = <<>>
  <2>1. \A i \in 0..n : i \in 0..(n + 1) /\ i # n + 1 /\ (i # 0 /\ i # n => i \in 1..Len(ch))
    BY <1>1
  <2>2. n + 1 \in 0..(n + 1) /\ n + 1 # 0
    BY <1>1
  <2> QED BY <1>1, <1>2, <2>1, <2>2 DEF Line
<1>5. /\ \A i \in 0..n : i # n => lost[i] = old[i]
      /\ lost[n] = <<>>
  BY <1>1 DEF Line
<1>6. \A i \in 0..(n + 1) : i = n + 1 \/ (i # n + 1 /\ i \in 0..n)
  BY <1>1
<1>7. \A i \in 0..(n + 1) : \A j \in (i + 1)..(n + 1) : j \in 0..(n + 1) /\ i # n + 1
                                     /\ (j # n + 1 => j \in (i + 1)..n)
  BY <1>1
<1>8. \A i \in 0..n : \A j \in (i + 1)..n : j \in 0..n /\ i # n
  BY <1>1
<1> HIDE DEF old, sent, lost, n
<1>9. \A i \in 0..(n + 1) : /\ InOrder(sent[i]) /\ MadeIn(sent[i], u, t)
                            /\ \A j \in (i + 1)..(n + 1) : Before(sent[i], sent[j])
  <2>1. \A i \in 0..(n + 1) : InOrder(sent[i]) /\ MadeIn(sent[i], u, t)
    BY <1>3, <1>4, <1>6, NothingArrives
  <2>2. \A i \in 0..(n + 1) : \A j \in (i + 1)..(n + 1) : Before(sent[i], sent[j])
    <3> SUFFICES ASSUME NEW i \in 0..(n + 1), NEW j \in (i + 1)..(n + 1)
                 PROVE  Before(sent[i], sent[j])
      OBVIOUS
    <3>1. j \in 0..(n + 1) /\ i # n + 1 /\ i \in 0..n
      BY <1>6, <1>7
    <3>2. CASE j = n + 1
      BY <1>4, <3>2, NothingArrives
    <3>3. CASE j # n + 1
      <4>1. j \in (i + 1)..n /\ j \in 0..n
        BY <1>7, <1>8, <3>1, <3>3
      <4> QED BY <1>3, <1>4, <3>1, <4>1
    <3> QED BY <3>2, <3>3
  <2> QED BY <2>1, <2>2
<1>10. \A i \in 0..n : /\ InOrder(lost[i]) /\ MadeIn(lost[i], u, t)
                       /\ \A j \in (i + 1)..n : Before(lost[i], lost[j])
  <2>1. \A i \in 0..n : InOrder(lost[i]) /\ MadeIn(lost[i], u, t)
    BY <1>3, <1>5, NothingArrives
  <2>2. \A i \in 0..n : \A j \in (i + 1)..n : Before(lost[i], lost[j])
    <3> SUFFICES ASSUME NEW i \in 0..n, NEW j \in (i + 1)..n
                 PROVE  Before(lost[i], lost[j])
      OBVIOUS
    <3>1. j \in 0..n /\ i # n
      BY <1>8
    <3>2. CASE j = n
      BY <1>5, <3>2, NothingArrives
    <3>3. CASE j # n
      BY <1>3, <1>5, <3>1, <3>3
    <3> QED BY <3>2, <3>3
  <2> QED BY <2>1, <2>2
<1>11. Arriving(u, p, ch, <<>>, t)
  BY <1>10 DEF Arriving, lost, n
<1>12. Arriving(u, p, Append(ch, b), <<>>, t)
  BY <1>2, <1>9 DEF Arriving, sent
<1> QED BY <1>11, <1>12

\* The host takes the first batch of the channel.
LEMMA ArrivingReceived ==
  ASSUME NEW u \in Nat, NEW ch \in Seq(Batches), NEW b \in Batches, ch # <<>>,
         NEW t \in Nat, Arriving(u, <<>>, ch, b, t)
  PROVE  Arriving(u, Head(ch), Tail(ch), b, t)
<1> DEFINE n == Len(ch)
<1> DEFINE old == Line(<<>>, ch, b)
<1> DEFINE new == Line(Head(ch), Tail(ch), b)
<1>1. /\ n \in Nat \ {0} /\ Len(Tail(ch)) = n - 1 /\ Head(ch) = ch[1]
      /\ \A k \in 1..Len(Tail(ch)) : Tail(ch)[k] = ch[k + 1]
  BY HeadTailProperties, EmptySeq
<1>2. \A i \in 0..(n + 1) : /\ InOrder(old[i]) /\ MadeIn(old[i], u, t)
                            /\ \A j \in (i + 1)..(n + 1) : Before(old[i], old[j])
  BY DEF Arriving
<1> DEFINE m == Len(Tail(ch))
<1>6. n \in Nat \ {0} /\ m = n - 1
  BY <1>1
<1>7. /\ Head(ch) = ch[1]
      /\ \A k \in 1..m : Tail(ch)[k] = ch[k + 1]
  BY <1>1
<1>3. \A i \in 0..n : new[i] = old[i + 1]
  <2> SUFFICES ASSUME NEW i \in 0..n PROVE new[i] = old[i + 1]
    OBVIOUS
  <2> DEFINE l == i + 1
  <2>1. new[i] = IF i = 0 THEN Head(ch) ELSE IF i = m + 1 THEN b ELSE Tail(ch)[i]
    <3>1. i \in 0..(m + 1)
      BY <1>6
    <3> QED BY <3>1, Zenon DEF Line
  <2>2. old[l] = IF l = 0 THEN <<>> ELSE IF l = n + 1 THEN b ELSE ch[l]
    <3>1. l \in 0..(n + 1)
      BY <1>6
    <3> HIDE DEF n, l
    <3> QED BY <3>1 DEF Line, n
  <2> HIDE DEF m, n, new, old
  <2>3. CASE i = 0
    <3>1. l # 0 /\ l # n + 1 /\ l = 1
      BY <1>6, <2>3
    <3> QED BY <1>7, <2>1, <2>2, <2>3, <3>1
  <2>4. CASE i = m + 1
    <3>1. i # 0 /\ l # 0 /\ l = n + 1
      BY <1>6, <2>4
    <3> QED BY <2>1, <2>2, <2>4, <3>1
  <2>5. CASE i # 0 /\ i # m + 1
    <3>1. l # 0 /\ l # n + 1 /\ i \in 1..m
      BY <1>6, <2>5
    <3>2. Tail(ch)[i] = ch[l]
      BY <1>7, <3>1
    <3> QED BY <2>1, <2>2, <2>5, <3>1, <3>2
  <2> QED BY <2>3, <2>4, <2>5
<1>4. \A i \in 0..n : /\ i + 1 \in 0..(n + 1)
                      /\ \A j \in (i + 1)..n : j \in 0..n /\ j + 1 \in (i + 1 + 1)..(n + 1)
  BY <1>1
<1> HIDE DEF old, new
<1>5. \A i \in 0..n : /\ InOrder(new[i]) /\ MadeIn(new[i], u, t)
                      /\ \A j \in (i + 1)..n : Before(new[i], new[j])
  <2>1. \A i \in 0..n : InOrder(new[i]) /\ MadeIn(new[i], u, t)
    BY <1>2, <1>3, <1>4
  <2>2. \A i \in 0..n : \A j \in (i + 1)..n : Before(new[i], new[j])
    BY <1>2, <1>3, <1>4
  <2> QED BY <2>1, <2>2
<1> QED BY <1>1, <1>5 DEF Arriving, new

\* The next call is ingested: everything behind it was made no sooner.
LEMMA ArrivingNext ==
  ASSUME NEW u \in Nat, NEW p \in Batches, NEW ch \in Seq(Batches), NEW b \in Batches,
         p # <<>>, NEW t \in Nat, Arriving(u, p, ch, b, t)
  PROVE  Head(p).at \in u..t /\ Arriving(Head(p).at, Tail(p), ch, b, t)
<1> DEFINE n == Len(ch) + 1
<1> DEFINE v == Head(p).at
<1> DEFINE q == Tail(p)
<1> DEFINE old == Line(p, ch, b)
<1> DEFINE new == Line(q, ch, b)
<1>1. /\ n \in Nat \ {0} /\ 0 \in 0..n
      /\ Len(p) \in Nat \ {0} /\ Len(q) = Len(p) - 1 /\ Head(p) = p[1]
      /\ \A k \in 1..Len(q) : q[k] = p[k + 1]
  BY HeadTailProperties, EmptySeq, LenProperties DEF Batches
<1>2. \A i \in 0..n : /\ InOrder(old[i]) /\ MadeIn(old[i], u, t)
                      /\ \A j \in (i + 1)..n : Before(old[i], old[j])
  BY DEF Arriving
<1>3. old[0] = p /\ new[0] = q /\ \A i \in 0..n : i # 0 => new[i] = old[i]
  BY <1>1 DEF Line
<1>4. 1 \in 1..Len(p) /\ \A k \in 1..Len(q) : k + 1 \in 1..Len(p) /\ 1 <= k + 1
  BY <1>1
<1> HIDE DEF old, new, q, n
<1>5. InOrder(p) /\ MadeIn(p, u, t) /\ \A i \in 0..n : i # 0 => Before(p, old[i])
  <2>1. \A i \in 0..n : i # 0 => i \in (0 + 1)..n
    BY <1>1
  <2> QED BY <1>1, <1>2, <1>3, <2>1
<1>6. v \in u..t /\ v \in Nat
  BY <1>1, <1>4, <1>5 DEF MadeIn
<1>7. InOrder(q)
  <2>1. \A i, j \in 1..Len(q) : i <= j => i + 1 <= j + 1
    BY <1>1
  <2> QED BY <1>1, <1>4, <1>5, <2>1 DEF InOrder
<1>8. MadeIn(q, v, t)
  <2> SUFFICES ASSUME NEW k \in 1..Len(q) PROVE q[k].at \in v..t
    BY DEF MadeIn
  <2>1. p[1].at <= p[k + 1].at /\ p[k + 1].at \in u..t
    BY <1>4, <1>5 DEF InOrder, MadeIn
  <2> QED BY <1>1, <1>6, <2>1
<1>9. \A i \in 0..n : i # 0 => MadeIn(old[i], v, t)
  <2> SUFFICES ASSUME NEW i \in 0..n, i # 0, NEW k \in 1..Len(old[i])
               PROVE  old[i][k].at \in v..t
    BY DEF MadeIn
  <2>1. Before(p, old[i]) /\ MadeIn(old[i], u, t)
    BY <1>2, <1>5
  <2>2. p[1].at <= old[i][k].at /\ old[i][k].at \in u..t
    BY <1>4, <2>1 DEF Before, MadeIn
  <2> QED BY <1>1, <1>6, <2>2
<1>10. \A i \in 0..n : i # 0 => Before(q, old[i])
  BY <1>1, <1>4, <1>5 DEF Before
<1>11. \A i \in 0..n : \A j \in (i + 1)..n : j \in 0..n /\ j # 0
  BY <1>1
<1> HIDE DEF v
<1>12. \A i \in 0..n : /\ InOrder(new[i]) /\ MadeIn(new[i], v, t)
                       /\ \A j \in (i + 1)..n : Before(new[i], new[j])
  <2> SUFFICES ASSUME NEW i \in 0..n
               PROVE  /\ InOrder(new[i]) /\ MadeIn(new[i], v, t)
                      /\ \A j \in (i + 1)..n : Before(new[i], new[j])
    OBVIOUS
  <2>1. CASE i = 0
    BY <1>3, <1>7, <1>8, <1>10, <1>11, <2>1
  <2>2. CASE i # 0
    BY <1>2, <1>3, <1>9, <1>11, <2>2
  <2> QED BY <2>1, <2>2
<1>13. Arriving(v, q, ch, b, t)
  BY <1>12 DEF Arriving, new, n
<1> QED BY <1>6, <1>13 DEF v, q

-----------------------------------------------------------------------------
(* Matches and their counts *)

\* The matches of a rule, and how many calls the call of each stands for.
MatchesOf(histories, id) == {m \in Matches(histories) : m[3].id = id}
Weights(histories) == [m \in Matches(histories) |-> histories[m[1]][m[2]].n]

\* The sum of TrueCounts, as a table of its parts.
WeighStep(histories, g, s) ==
    IF s = {} THEN 0 ELSE histories[Some(s)[1]][Some(s)[2]].n + g[s \ {Some(s)}]
WeighTable(histories, S) ==
    CHOOSE g : g = [s \in SUBSET S |-> WeighStep(histories, g, s)]

\* A rule is completed at a place of a process's history.
CompletedAt(histories, p, i, r) ==
    /\ p \in DOMAIN histories /\ i \in DOMAIN histories[p]
    /\ r \in RulesEndingIn[histories[p][i].api]
    /\ Completes(r, histories[p], i)

\* A match is that.
LEMMA MatchIs ==
  ASSUME NEW histories, NEW m
  PROVE  m \in Matches(histories)
           <=> \E p, i, r : CompletedAt(histories, p, i, r) /\ m = <<p, i, r>>
  BY DEF Matches, CompletedAt

\* TrueCounts is one sum per rule that has a match.
LEMMA TrueCountsIs ==
  ASSUME NEW histories
  PROVE  TrueCounts(histories)
           = [id \in {m[3].id : m \in Matches(histories)} |->
                WeighTable(histories, MatchesOf(histories, id))[MatchesOf(histories, id)]]
  BY Zenon DEF TrueCounts, MapThenSumSet, MapThenFoldSet, WeighTable, WeighStep, MatchesOf, Some

\* Each of them the sum of the matches' weights.
LEMMA WeighingIsSum ==
  ASSUME NEW histories, NEW S \in SUBSET Matches(histories)
  PROVE  WeighTable(histories, S)[S] = Sum(Weights(histories), S)
<1> DEFINE f == Weights(histories)
<1>1. \A s \in SUBSET S : \A g : WeighStep(histories, g, s) = SumStep(f, g, s)
  <2> SUFFICES ASSUME NEW s \in SUBSET S, NEW g
               PROVE  WeighStep(histories, g, s) = SumStep(f, g, s)
    OBVIOUS
  <2>1. CASE s = {}
    BY <2>1 DEF WeighStep, SumStep
  <2>2. CASE s # {}
    <3>1. Some(s) \in s
      BY <2>2, SomeIsIn
    <3>2. f[Some(s)] = histories[Some(s)[1]][Some(s)[2]].n
      BY <3>1 DEF Weights
    <3> QED BY <2>2, <3>2 DEF WeighStep, SumStep
  <2> QED BY <2>1, <2>2
<1>2. \A g : (g = [s \in SUBSET S |-> WeighStep(histories, g, s)]) <=> IsSums(f, g, S)
  BY <1>1 DEF IsSums
<1>3. WeighTable(histories, S) = Sums(f, S)
  BY <1>2, Zenon DEF WeighTable, Sums
<1> QED BY <1>3 DEF Sum


\* The histories once a call of a process is logged, and the rules it completes.
Longer(histories, p, c) == Put(histories, p, Append(At(histories, p, <<>>), c))
Completed(H) == {q \in RulesEndingIn[H[Len(H)].api] : Completes(q, H, Len(H))}

\* A history and a call more.
LEMMA LongerIs ==
  ASSUME NEW histories, \A q \in DOMAIN histories : histories[q] \in Seq(Records),
         NEW p, NEW c \in Records
  PROVE  LET H == At(histories, p, <<>>)
             new == Longer(histories, p, c)
         IN  /\ H \in Seq(Records) /\ Len(H) \in Nat
             /\ p \in DOMAIN histories => H = histories[p]
             /\ p \notin DOMAIN histories => Len(H) = 0
             /\ new[p] = Append(H, c) /\ Append(H, c) \in Seq(Records)
             /\ DOMAIN new = DOMAIN histories \cup {p}
             /\ \A q \in DOMAIN histories : q # p => new[q] = histories[q]
<1> DEFINE H == At(histories, p, <<>>)
<1>1. p \in DOMAIN histories => H = histories[p]
  BY DEF At
<1>2. p \notin DOMAIN histories => H = <<>>
  BY DEF At
<1>3. <<>> \in Seq(Records) /\ Len(<<>>) = 0
  BY EmptySeq
<1>4. H \in Seq(Records)
  BY <1>1, <1>2, <1>3
<1> HIDE DEF H
<1>5. Len(H) \in Nat /\ Append(H, c) \in Seq(Records)
  BY <1>4, LenProperties, AppendProperties
<1>6. Longer(histories, p, c)
        = [x \in DOMAIN histories \cup {p} |-> IF x = p THEN Append(H, c) ELSE histories[x]]
  BY PutIs DEF Longer, H
<1>7. /\ Longer(histories, p, c)[p] = Append(H, c)
      /\ DOMAIN Longer(histories, p, c) = DOMAIN histories \cup {p}
      /\ \A q \in DOMAIN histories : q # p => Longer(histories, p, c)[q] = histories[q]
  BY <1>6
<1> QED BY <1>1, <1>2, <1>3, <1>4, <1>5, <1>7 DEF H

\* The call adds the chains it completes to the matches, and nothing else changes.
LEMMA MatchesGrow ==
  ASSUME NEW histories, \A q \in DOMAIN histories : histories[q] \in Seq(Records),
         NEW p, NEW c \in Records
  PROVE  LET H == At(histories, p, <<>>)
             new == Longer(histories, p, c)
             z == Len(H) + 1
         IN  /\ Matches(new)
                  = Matches(histories) \cup {<<p, z, r>> : r \in Completed(Append(H, c))}
             /\ \A m \in Matches(histories) : /\ new[m[1]][m[2]] = histories[m[1]][m[2]]
                                              /\ <<m[1], m[2]>> # <<p, z>>
             /\ new[p][z] = c
<1> DEFINE H == At(histories, p, <<>>)
<1> DEFINE G == Append(H, c)
<1> DEFINE new == Longer(histories, p, c)
<1> DEFINE z == Len(H) + 1
<1>1. /\ H \in Seq(Records) /\ Len(H) \in Nat
      /\ p \in DOMAIN histories => H = histories[p]
      /\ p \notin DOMAIN histories => Len(H) = 0
      /\ new[p] = G /\ G \in Seq(Records)
      /\ DOMAIN new = DOMAIN histories \cup {p}
      /\ \A q \in DOMAIN histories : q # p => new[q] = histories[q]
  BY LongerIs
<1>2. /\ Len(G) = z /\ G[z] = c /\ DOMAIN G = 1..z /\ DOMAIN H = 1..Len(H)
      /\ \A i \in 1..Len(H) : G[i] = H[i]
  BY <1>1, AppendProperties, LenProperties
<1> HIDE DEF H, G, new
<1>3. \A m \in Matches(histories) : /\ m \in Matches(new)
                                    /\ new[m[1]][m[2]] = histories[m[1]][m[2]]
                                    /\ <<m[1], m[2]>> # <<p, z>>
  <2> SUFFICES ASSUME NEW m \in Matches(histories)
               PROVE  /\ m \in Matches(new)
                      /\ new[m[1]][m[2]] = histories[m[1]][m[2]]
                      /\ <<m[1], m[2]>> # <<p, z>>
    OBVIOUS
  <2>1. PICK q, i, r : CompletedAt(histories, q, i, r) /\ m = <<q, i, r>>
    BY MatchIs
  <2>2. m[1] = q /\ m[2] = i
    BY <2>1
  <2>3. CASE q # p
    <3>1. new[q] = histories[q] /\ q \in DOMAIN new
      BY <1>1, <2>1, <2>3 DEF CompletedAt
    <3>2. CompletedAt(new, q, i, r)
      BY <2>1, <3>1, Zenon DEF CompletedAt
    <3>3. m \in Matches(new)
      BY <2>1, <3>2, MatchIs, Zenon
    <3> QED BY <2>2, <2>3, <3>1, <3>3
  <2>4. CASE q = p
    <3>1. histories[q] = H /\ i \in 1..Len(H) /\ i # z /\ i \in DOMAIN G
      BY <1>1, <1>2, <2>1, <2>4 DEF CompletedAt
    <3>2. G[i] = histories[q][i] /\ new[q] = G /\ q \in DOMAIN new
      BY <1>1, <1>2, <2>4, <3>1
    <3>3. Completes(r, G, i)
      <4>1. Completes(r, H, i)
        BY <2>1, <3>1, Zenon DEF CompletedAt
      <4> QED BY <1>1, <3>1, <4>1, CompletesAsBefore DEF G
    <3>4. CompletedAt(new, q, i, r)
      BY <2>1, <3>1, <3>2, <3>3, Zenon DEF CompletedAt
    <3>5. m \in Matches(new)
      BY <2>1, <3>4, MatchIs, Zenon
    <3> QED BY <2>2, <3>1, <3>2, <3>5
  <2> QED BY <2>3, <2>4
<1>4. \A r \in Completed(G) : <<p, z, r>> \in Matches(new)
  <2> SUFFICES ASSUME NEW r \in Completed(G) PROVE <<p, z, r>> \in Matches(new)
    OBVIOUS
  <2>1. r \in RulesEndingIn[G[z].api] /\ Completes(r, G, z)
    BY <1>2 DEF Completed
  <2>2. p \in DOMAIN new /\ z \in DOMAIN new[p] /\ new[p] = G
    BY <1>1, <1>2
  <2>3. CompletedAt(new, p, z, r)
    BY <2>1, <2>2, Zenon DEF CompletedAt
  <2> QED BY <2>3, MatchIs, Zenon
<1>5. \A m \in Matches(new) : \/ m \in Matches(histories)
                              \/ \E r \in Completed(G) : m = <<p, z, r>>
  <2> SUFFICES ASSUME NEW m \in Matches(new)
               PROVE  \/ m \in Matches(histories)
                      \/ \E r \in Completed(G) : m = <<p, z, r>>
    OBVIOUS
  <2>1. PICK q, i, r : CompletedAt(new, q, i, r) /\ m = <<q, i, r>>
    BY MatchIs
  <2>2. CASE q # p
    <3>1. new[q] = histories[q] /\ q \in DOMAIN histories
      BY <1>1, <2>1, <2>2 DEF CompletedAt
    <3>2. CompletedAt(histories, q, i, r)
      BY <2>1, <3>1, Zenon DEF CompletedAt
    <3> QED BY <2>1, <3>2, MatchIs, Zenon
  <2>3. CASE q = p /\ i = z
    <3>1. r \in Completed(G)
      BY <1>1, <1>2, <2>1, <2>3 DEF Completed, CompletedAt
    <3> QED BY <2>1, <2>3, <3>1
  <2>4. CASE q = p /\ i # z
    <3>1. new[q] = G /\ i \in 1..Len(H)
      BY <1>1, <1>2, <2>1, <2>4 DEF CompletedAt
    <3>2. q \in DOMAIN histories /\ histories[q] = H /\ i \in DOMAIN H
      BY <1>1, <1>2, <2>4, <3>1
    <3>3. G[i] = H[i]
      BY <1>2, <3>1
    <3>4. Completes(r, H, i)
      <4>1. Completes(r, G, i)
        BY <2>1, <3>1, Zenon DEF CompletedAt
      <4> QED BY <1>1, <3>1, <4>1, CompletesAsBefore DEF G
    <3>5. CompletedAt(histories, q, i, r)
      BY <2>1, <3>1, <3>2, <3>3, <3>4, Zenon DEF CompletedAt
    <3> QED BY <2>1, <3>5, MatchIs, Zenon
  <2> QED BY <2>2, <2>3, <2>4
<1>6. Matches(new) = Matches(histories) \cup {<<p, z, r>> : r \in Completed(G)}
  BY <1>3, <1>4, <1>5
<1>7. new[p][z] = c
  BY <1>1, <1>2
<1> QED BY <1>3, <1>6, <1>7 DEF H, G, new


\* A rule's count is the sum over its matches; nothing when it has none.
LEMMA CountIs ==
  ASSUME NEW histories
  PROVE  /\ DOMAIN TrueCounts(histories) = {m[3].id : m \in Matches(histories)}
         /\ \A id : At(TrueCounts(histories), id, 0)
                      = Sum(Weights(histories), MatchesOf(histories, id))
<1> DEFINE counts == TrueCounts(histories)
<1> DEFINE f == Weights(histories)
<1> DEFINE S(id) == MatchesOf(histories, id)
<1>1. counts = [id \in {m[3].id : m \in Matches(histories)} |->
                  WeighTable(histories, S(id))[S(id)]]
  BY TrueCountsIs
<1>2. \A id : S(id) \in SUBSET Matches(histories)
  BY DEF MatchesOf
<1>3. \A id : WeighTable(histories, S(id))[S(id)] = Sum(f, S(id))
  BY <1>2, WeighingIsSum
<1>4. ASSUME NEW id PROVE At(counts, id, 0) = Sum(f, S(id))
  <2>1. CASE id \in DOMAIN counts
    BY <1>1, <1>3, <2>1 DEF At
  <2>2. CASE id \notin DOMAIN counts
    <3>1. S(id) = {}
      BY <1>1, <2>2 DEF MatchesOf
    <3>2. Sum(f, {}) = 0
      BY SumUnfolds, FS_EmptySet
    <3> QED BY <2>2, <3>1, <3>2 DEF At
  <2> QED BY <2>1, <2>2
<1> QED BY <1>1, <1>4

\* Each rule has finitely many matches.
FinitelyMatched(histories) == \A id : IsFiniteSet(MatchesOf(histories, id))

\* The call adds what it stands for to the count of each rule it completes.
LEMMA CountsGrow ==
  ASSUME NEW histories, \A q \in DOMAIN histories : histories[q] \in Seq(Records),
         FinitelyMatched(histories), NEW p, NEW c \in Records
  PROVE  LET new == Longer(histories, p, c)
             counts == TrueCounts(histories)
             ids == {r.id : r \in Completed(Append(At(histories, p, <<>>), c))}
         IN  /\ TrueCounts(new) = [id \in DOMAIN counts \cup ids |->
                                     At(counts, id, 0) + IF id \in ids THEN c.n ELSE 0]
             /\ FinitelyMatched(new)
<1> DEFINE H == At(histories, p, <<>>)
<1> DEFINE G == Append(H, c)
<1> DEFINE C == Completed(G)
<1> DEFINE new == Longer(histories, p, c)
<1> DEFINE z == Len(H) + 1
<1> DEFINE ids == {r.id : r \in C}
<1>1. /\ Matches(new) = Matches(histories) \cup {<<p, z, r>> : r \in C}
      /\ \A m \in Matches(histories) : /\ new[m[1]][m[2]] = histories[m[1]][m[2]]
                                       /\ <<m[1], m[2]>> # <<p, z>>
      /\ new[p][z] = c
  BY MatchesGrow
<1>2. /\ \A r \in C : r \in RuleBook
      /\ c.n \in Nat /\ c.api \in Apis
  <2>1. H \in Seq(Records)
    BY LongerIs
  <2>2. c.n \in Nat /\ c.api \in Apis
    BY DEF Records
  <2> HIDE DEF H
  <2>3. G[Len(G)] = c
    BY <2>1, AppendProperties
  <2> QED BY <2>2, <2>3 DEF Completed, RulesEndingIn
<1>3. \A m \in Matches(histories) : histories[m[1]][m[2]].n \in Nat
  <2> SUFFICES ASSUME NEW m \in Matches(histories) PROVE histories[m[1]][m[2]].n \in Nat
    OBVIOUS
  <2>1. PICK q, i, r : CompletedAt(histories, q, i, r) /\ m = <<q, i, r>>
    BY MatchIs
  <2>2. m[1] = q /\ m[2] = i
    BY <2>1
  <2>3. histories[q] \in Seq(Records) /\ i \in DOMAIN histories[q]
    BY <2>1 DEF CompletedAt
  <2>4. histories[q][i] \in Records
    BY <2>3
  <2> QED BY <2>2, <2>4 DEF Records
<1> HIDE DEF H, G, C, new
<1> DEFINE f == Weights(histories)
<1> DEFINE g == Weights(new)
<1> DEFINE S(id) == MatchesOf(histories, id)
<1> DEFINE T(id) == MatchesOf(new, id)
<1>4. /\ \A m \in Matches(histories) : f[m] \in Nat /\ g[m] = f[m]
      /\ \A r \in C : g[<<p, z, r>>] = c.n
  BY <1>1, <1>3 DEF Weights
<1>5. ASSUME NEW id
      PROVE  /\ IsFiniteSet(T(id))
             /\ Sum(g, T(id)) = Sum(f, S(id)) + IF id \in ids THEN c.n ELSE 0
             /\ T(id) # {} <=> S(id) # {} \/ id \in ids
  <2>1. IsFiniteSet(S(id)) /\ \A m \in S(id) : m \in Matches(histories)
    BY DEF FinitelyMatched, MatchesOf
  <2>2. Sum(g, S(id)) = Sum(f, S(id)) /\ Sum(f, S(id)) \in Nat
    <3>1. \A m \in S(id) : f[m] = g[m] /\ f[m] \in Nat
      BY <1>4, <2>1
    <3> HIDE DEF S, f, g
    <3> QED BY <2>1, <3>1, SumOfSameTerms, SumIsNat
  <2>3. CASE id \in ids
    <3>1. PICK r \in C : r.id = id
      BY <2>3
    <3> DEFINE x == <<p, z, r>>
    <3>2. x[3].id = id /\ x \notin S(id) /\ x \in Matches(new)
      <4>1. x[1] = p /\ x[2] = z /\ x[3] = r
        OBVIOUS
      <4> QED BY <1>1, <2>1, <3>1, <4>1
    <3>3. T(id) = S(id) \cup {x}
      <4>1. \A q \in C : q.id = id => q = r
        BY <1>2, <3>1, RuleIdsAreUnique
      <4>2. \A q \in C : <<p, z, q>>[3] = q
        OBVIOUS
      <4>3. \A m \in T(id) : m \in S(id) \/ m = x
        BY <1>1, <4>1, <4>2 DEF MatchesOf
      <4>4. \A m \in S(id) : m \in T(id)
        BY <1>1 DEF MatchesOf
      <4>5. x \in T(id)
        BY <3>2 DEF MatchesOf
      <4> QED BY <4>3, <4>4, <4>5
    <3>4. g[x] = c.n /\ \A m \in S(id) : g[m] \in Nat
      BY <1>4, <2>1, <3>1
    <3> HIDE DEF x, g, f, S, T
    <3>5. IsFiniteSet(T(id)) /\ T(id) \ {x} = S(id) /\ x \in T(id)
          /\ \A m \in T(id) : g[m] \in Nat
      BY <1>2, <2>1, <3>2, <3>3, <3>4, FS_AddElement
    <3>6. Sum(g, T(id)) = g[x] + Sum(g, T(id) \ {x})
      BY <3>5, SumTakesAny
    <3>7. Sum(g, T(id)) = c.n + Sum(g, S(id))
      BY <3>4, <3>5, <3>6
    <3> HIDE DEF ids
    <3> QED BY <1>2, <2>2, <2>3, <3>5, <3>7
  <2>4. CASE id \notin ids
    <3>1. T(id) = S(id)
      <4>1. \A q \in C : <<p, z, q>>[3].id # id
        BY <2>4
      <4> QED BY <1>1, <4>1 DEF MatchesOf
    <3> HIDE DEF g, f, S, T
    <3> QED BY <2>1, <2>2, <2>4, <3>1
  <2> QED BY <2>3, <2>4
<1> DEFINE counts == TrueCounts(histories)
<1> DEFINE sums == [id \in DOMAIN counts \cup ids |->
                      At(counts, id, 0) + IF id \in ids THEN c.n ELSE 0]
<1>6. DOMAIN TrueCounts(new) = DOMAIN counts \cup ids
  <2>1. /\ \A id : id \in DOMAIN TrueCounts(new) <=> T(id) # {}
        /\ \A id : id \in DOMAIN counts <=> S(id) # {}
    <3>1. ASSUME NEW h, NEW id
          PROVE  id \in {m[3].id : m \in Matches(h)} <=> MatchesOf(h, id) # {}
      BY DEF MatchesOf
    <3>2. /\ DOMAIN TrueCounts(new) = {m[3].id : m \in Matches(new)}
          /\ DOMAIN counts = {m[3].id : m \in Matches(histories)}
      BY CountIs
    <3> QED BY <3>1, <3>2
  <2> HIDE DEF S, T, counts, ids
  <2> QED BY <1>5, <2>1
<1>7. \A id \in DOMAIN TrueCounts(new) : TrueCounts(new)[id] = sums[id]
  <2> SUFFICES ASSUME NEW id \in DOMAIN TrueCounts(new)
               PROVE  TrueCounts(new)[id] = sums[id]
    OBVIOUS
  <2>1. TrueCounts(new)[id] = Sum(g, T(id)) /\ At(counts, id, 0) = Sum(f, S(id))
    <3>1. At(TrueCounts(new), id, 0) = Sum(g, T(id)) /\ At(counts, id, 0) = Sum(f, S(id))
      BY CountIs
    <3> QED BY <3>1 DEF At
  <2> HIDE DEF S, T, f, g, counts, ids
  <2> QED BY <1>5, <1>6, <2>1
<1>8. TrueCounts(new) = sums
  <2>1. TrueCounts(new) = [id \in DOMAIN TrueCounts(new) |-> TrueCounts(new)[id]]
    BY TrueCountsIs, Zenon
  <2> QED BY <1>6, <1>7, <2>1, Zenon
<1>9. FinitelyMatched(new)
  BY <1>5 DEF FinitelyMatched
<1> QED BY <1>8, <1>9 DEF H, G, C, new


-----------------------------------------------------------------------------
(* The invariant *)

\* A process's history is in the order of time, and the window its end.
HistoryKept ==
    /\ DOMAIN window = DOMAIN logged
    /\ \A p \in DOMAIN logged : /\ logged[p] \in Seq(Records)
                                /\ InOrder(logged[p])
                                /\ IsWindow(window[p], logged[p])

\* What was logged was made before what is still on its way.
LoggedBy(histories, u) ==
    \A p \in DOMAIN histories : \A i \in DOMAIN histories[p] : histories[p][i].at <= u
OrderKept ==
    \E u \in 0..now : Arriving(u, pending, channel, batch, now) /\ LoggedBy(logged, u)

CountsKept == CountsExact /\ FinitelyMatched(logged)

\* A chain is a match that no superseding rule shares its last call with, and
\* what was last emitted for a rule and a process is a chain.
Unsurpassed(m, matches) ==
    ~\E o \in matches : o[1] = m[1] /\ o[2] = m[2] /\ o[3].id \in m[3].over
Justified(c, histories) ==
    \E m \in Matches(histories) :
        /\ <<m[1], m[3].id, histories[m[1]][m[2]].at>> = <<c.pid, c.rule, c.at>>
        /\ Unsurpassed(m, Matches(histories))
EmissionKept ==
    /\ \A c \in chains : Justified(c, logged)
    /\ \A k \in DOMAIN emitted :
          \E c \in chains : c.rule = k[1] /\ c.pid = k[2] /\ c.at = emitted[k]

MatchingInv == HistoryKept /\ OrderKept /\ CountsKept /\ EmissionKept

\* The process's window is one of its history also while it has none.
LEMMA WindowOf ==
  ASSUME HistoryKept, NEW p
  PROVE  IsWindow(At(window, p, <<>>), At(logged, p, <<>>))
<1>1. CASE p \in DOMAIN logged
  BY <1>1 DEF HistoryKept, At
<1>2. CASE p \notin DOMAIN logged
  <2>1. At(window, p, <<>>) = <<>> /\ At(logged, p, <<>>) = <<>>
    BY <1>2 DEF HistoryKept, At
  <2>2. IsWindow(<<>>, <<>>)
    <3>1. Len(<<>>) = 0 /\ SubSeq(<<>>, 1, 0) = <<>> /\ 1 \in 1..(0 + 1) /\ 1..0 = {}
      BY EmptySeq
    <3> QED BY <3>1, Zenon DEF IsWindow
  <2> QED BY <2>1, <2>2
<1> QED BY <1>1, <1>2

\* Decoding a report of an agent's call gives a record of that time.
LEMMA DecodeIs ==
  ASSUME NEW call \in Reports, NEW api \in Apis, NEW n \in Nat \ {0}
  PROVE  /\ Decode(call, api, n) \in Records
         /\ Decode(call, api, n).api = api
         /\ Decode(call, api, n).at = call.at
         /\ Decode(call, api, n).n = n
<1>1. call.at \in Nat /\ call.marks \in SUBSET UNION {s.shows : s \in SampleSteps}
  BY DEF Reports
<1> DEFINE marks == IF api = "RegSetValue" /\ At(regHandles, call.handle, FALSE)
                    THEN call.marks \cup {"autostart_key"} ELSE call.marks
<1>2. marks \in SUBSET Marks
  BY <1>1 DEF Marks
<1>3. Decode(call, api, n) = [api |-> api, at |-> call.at, n |-> n, marks |-> marks]
  BY DEF Decode
<1> HIDE DEF marks
<1> QED BY <1>1, <1>2, <1>3 DEF Records

\* What logging a call as the record c does: the rules it is matched with are
\* those the history completes with it.
Logging(call, c, st) ==
    LET done == Completed(Append(At(logged, call.pid, <<>>), c))
        ids == {r.id : r \in done}
    IN  /\ c.at = call.at
        /\ logged' = Longer(logged, call.pid, c)
        /\ window' = Put(window, call.pid, Remember(At(window, call.pid, <<>>), c))
        /\ chainCounts' = [id \in DOMAIN chainCounts \cup ids |->
                              At(chainCounts, id, 0) + IF id \in ids THEN c.n ELSE 0]
        /\ Chained(done, call, st)

\* ingest() does that, when the history with the call is in the order of time.
LEMMA LogMatches ==
  ASSUME HistoryKept, NEW call \in Reports, NEW api \in Apis, NEW n \in Nat \ {0}, NEW st,
         Log(call, api, n, st),
         logged' = Put(logged, call.pid, Append(At(logged, call.pid, <<>>),
                                                Last(window'[call.pid]))),
         \A c \in Records : c.at = call.at => InOrder(Append(At(logged, call.pid, <<>>), c))
  PROVE  \E c \in Records : Logging(call, c, st)
<1> DEFINE p == call.pid
<1> DEFINE c == Decode(call, api, n)
<1> DEFINE H == At(logged, p, <<>>)
<1> DEFINE W == At(window, p, <<>>)
<1> DEFINE G == Append(H, c)
<1> DEFINE V == Remember(W, c)
<1>1. c \in Records /\ c.api = api /\ c.at = call.at /\ c.n = n
  BY DecodeIs
<1>2. /\ window' = Put(window, p, V)
      /\ MatchChains(call, c, st, n)
  BY Zenon DEF Log
<1> HIDE DEF c, p
<1>3. H \in Seq(Records)
  BY LongerIs, <1>1 DEF HistoryKept
<1>4. window'[p] = V
  BY <1>2, PutIs
<1>5. IsWindow(W, H)
  BY WindowOf
<1>6. InOrder(G)
  BY <1>1 DEF p
<1> HIDE DEF H, W
<1>7. IsWindow(V, G)
  BY <1>1, <1>3, <1>5, RememberKeepsWindow
<1> HIDE DEF V
<1>8. Last(V) = c
  BY <1>1, <1>3, <1>7, WindowEnds
<1>9. Len(G) = Len(H) + 1 /\ G[Len(G)] = c
  BY <1>1, <1>3, AppendProperties
<1>10. Candidates(c, Front(V)) = Completed(G)
  <2>1. \A r \in RulesEndingIn[api] : Len(r.seq) \in Nat \ {0} /\ r.window \in Nat
    BY EngineAssumption DEF RulesEndingIn
  <2>2. \A r \in RulesEndingIn[api] : TryMatch(r, c, Front(V)) <=> Completes(r, G, Len(H) + 1)
    BY <1>1, <1>3, <1>6, <1>7, <2>1, MatchingIsExact
  <2> HIDE DEF G
  <2> QED BY <1>1, <1>9, <2>2 DEF Candidates, Completed
<1>11. logged' = Longer(logged, p, c)
  BY <1>4, <1>8 DEF Longer, H, p
<1> DEFINE done == Completed(G)
<1> DEFINE ids == {r.id : r \in done}
<1>12. /\ chainCounts' = [id \in DOMAIN chainCounts \cup ids |->
                             At(chainCounts, id, 0) + IF id \in ids THEN n ELSE 0]
       /\ Chained(done, call, st)
  <2>1. Candidates(c, Front(window'[call.pid])) = done
    BY <1>4, <1>10 DEF p
  <2> HIDE DEF done
  <2>2. /\ chainCounts' = [id \in DOMAIN chainCounts \cup ids |->
                             At(chainCounts, id, 0) + IF id \in ids THEN n ELSE 0]
        /\ emitted' = [k \in {<<r.id, call.pid>> : r \in Emissions(done, call.pid, call.at)}
                         |-> call.at] ++ emitted
        /\ chains' = chains \cup
              {[rule |-> r.id, severity |-> r.severity, pid |-> call.pid,
                at |-> call.at, stage |-> st] : r \in Emissions(done, call.pid, call.at)}
    BY <1>2, <2>1, Zenon DEF MatchChains
  <2>3. DOMAIN chainCounts' = DOMAIN chainCounts \cup ids
    BY <2>2
  <2> QED BY <2>2, <2>3, Zenon DEF Chained
<1>13. Logging(call, c, st)
  BY <1>1, <1>2, <1>11, <1>12, Zenon DEF Logging, H, G, W, V, p
<1> QED BY <1>1, <1>13


\* A call no older than what was logged keeps the history in order.
LEMMA AppendKeepsOrder ==
  ASSUME NEW H \in Seq(Records), InOrder(H), NEW c \in Records,
         \A i \in DOMAIN H : H[i].at <= c.at
  PROVE  InOrder(Append(H, c))
<1> DEFINE G == Append(H, c)
<1>1. /\ Len(G) = Len(H) + 1 /\ G[Len(H) + 1] = c /\ Len(H) \in Nat
      /\ \A j \in 1..Len(H) : G[j] = H[j]
  BY AppendProperties, LenProperties
<1>2. DOMAIN H = 1..Len(H)
  BY HistoryIs
<1>3. c.at \in Nat
  BY DEF Records
<1> HIDE DEF G
<1> SUFFICES ASSUME NEW i \in 1..Len(G), NEW j \in 1..Len(G), i <= j
             PROVE  G[i].at <= G[j].at
  BY DEF InOrder, G
<1>4. CASE j = Len(H) + 1 /\ i = j
  BY <1>1, <1>3, <1>4
<1>5. CASE j = Len(H) + 1 /\ i # j
  <2>1. i \in 1..Len(H)
    BY <1>1, <1>5
  <2> QED BY <1>1, <1>2, <1>5, <2>1
<1>6. CASE j # Len(H) + 1
  <2>1. i \in 1..Len(H) /\ j \in 1..Len(H)
    BY <1>1, <1>6
  <2> QED BY <1>1, <2>1 DEF InOrder
<1> QED BY <1>4, <1>5, <1>6

\* The types of what is on its way.
LEMMA BatchesAre ==
  ASSUME AgentKept
  PROVE  /\ pending \in Batches /\ channel \in Seq(Batches) /\ batch \in Batches
         /\ now \in Nat
<1>1. Seq(Reports) \ {NoRecords} \subseteq Seq(Reports)
  OBVIOUS
<1>2. \A q \in Seq(Seq(Reports) \ {NoRecords}) : q \in Seq(Seq(Reports))
  BY <1>1
<1> QED BY <1>2 DEF AgentKept, Batches

\* A turn of the loop of ingest_batch() logs the next call, which was made no
\* sooner than all that was logged, or leaves the windows and chains alone.
LEMMA IngestNextLogs ==
  ASSUME MonitorInv, HistoryKept, OrderKept, IngestNext
  PROVE  /\ OrderKept'
         /\ \/ UNCHANGED <<window, logged, chainCounts, emitted, chains>>
            \/ \E call \in Reports : \E c \in Records :
                  /\ Logging(call, c, stage)
                  /\ LoggedBy(logged, call.at)
                  /\ InOrder(Append(At(logged, call.pid, <<>>), c))
<1> DEFINE call == Head(pending)
<1> DEFINE H == At(logged, call.pid, <<>>)
<1>1. /\ pending # <<>> /\ pending' = Tail(pending)
      /\ Ingest(call, stage)
      /\ logged' = IF total' - suppressed' = total - suppressed THEN logged
                   ELSE Put(logged, call.pid, Append(H, Last(window'[call.pid])))
      /\ now' = now /\ batch' = batch /\ channel' = channel
  BY Zenon DEF IngestNext, agentVars
<1>2. /\ pending \in Batches /\ channel \in Seq(Batches) /\ batch \in Batches
      /\ now \in Nat
  BY BatchesAre DEF MonitorInv
<1>3. PICK u \in 0..now : Arriving(u, pending, channel, batch, now) /\ LoggedBy(logged, u)
  BY DEF OrderKept
<1>4. call.at \in u..now /\ Arriving(call.at, Tail(pending), channel, batch, now)
  BY <1>1, <1>2, <1>3, ArrivingNext
<1>5. call \in Reports
  BY <1>1, <1>2, HeadTailProperties DEF Batches
<1>6. call.at \in 0..now
  BY <1>2, <1>3, <1>4
<1> HIDE DEF call
<1>7. LoggedBy(logged, call.at)
  <2> SUFFICES ASSUME NEW p \in DOMAIN logged, NEW i \in DOMAIN logged[p]
               PROVE  logged[p][i].at <= call.at
    BY DEF LoggedBy
  <2>1. logged[p][i].at <= u
    BY <1>3 DEF LoggedBy
  <2>2. logged[p] \in Seq(Records)
    BY DEF HistoryKept
  <2>3. logged[p][i].at \in Nat
    <3>1. logged[p][i] \in Records
      BY <2>2
    <3> QED BY <3>1 DEF Records
  <2> QED BY <1>3, <1>4, <2>1, <2>3
<1>8. H \in Seq(Records) /\ InOrder(H) /\ \A i \in DOMAIN H : H[i].at <= call.at
  <2>1. CASE call.pid \in DOMAIN logged
    BY <1>7, <2>1 DEF At, HistoryKept, LoggedBy
  <2>2. CASE call.pid \notin DOMAIN logged
    <3>1. H = <<>> /\ <<>> \in Seq(Records) /\ DOMAIN <<>> = {}
      BY <2>2 DEF At
    <3>2. InOrder(H)
      BY <3>1, NothingArrives
    <3> QED BY <3>1, <3>2
  <2> QED BY <2>1, <2>2
<1>9. \A c \in Records : c.at = call.at => InOrder(Append(H, c))
  <2> HIDE DEF H
  <2> QED BY <1>8, AppendKeepsOrder
<1>10. CASE logged' = logged /\ UNCHANGED <<window, chainCounts, emitted, chains>>
  <2>1. OrderKept'
    <3>1. Arriving(call.at, pending', channel', batch', now') /\ LoggedBy(logged', call.at)
      BY <1>1, <1>4, <1>7, <1>10
    <3>2. call.at \in 0..now'
      BY <1>1, <1>6
    <3> QED BY <3>1, <3>2 DEF OrderKept
  <2> QED BY <1>10, <2>1
<1>11. ASSUME NEW c \in Records, Logging(call, c, stage)
       PROVE  /\ OrderKept'
              /\ \E e \in Reports : \E d \in Records :
                  /\ Logging(e, d, stage)
                  /\ LoggedBy(logged, e.at)
                  /\ InOrder(Append(At(logged, e.pid, <<>>), d))
  <2>1. logged' = Longer(logged, call.pid, c) /\ c.at = call.at
    BY <1>11, Zenon DEF Logging
  <2>2. InOrder(Append(H, c))
    BY <1>9, <2>1
  <2>3. LoggedBy(logged', call.at)
    <3> SUFFICES ASSUME NEW p \in DOMAIN logged', NEW i \in DOMAIN logged'[p]
                 PROVE  logged'[p][i].at <= call.at
      BY DEF LoggedBy
    <3>1. /\ DOMAIN logged' = DOMAIN logged \cup {call.pid}
          /\ logged'[call.pid] = Append(H, c)
          /\ \A q \in DOMAIN logged : q # call.pid => logged'[q] = logged[q]
      <4>1. logged' = [x \in DOMAIN logged \cup {call.pid} |->
                          IF x = call.pid THEN Append(H, c) ELSE logged[x]]
        BY <2>1, PutIs DEF Longer
      <4> HIDE DEF H
      <4> QED BY <4>1
    <3>2. CASE p # call.pid
      BY <1>7, <3>1, <3>2 DEF LoggedBy
    <3>3. CASE p = call.pid
      <4> DEFINE G == Append(H, c)
      <4>1. /\ Len(G) = Len(H) + 1 /\ G[Len(H) + 1] = c /\ Len(H) \in Nat
            /\ \A j \in 1..Len(H) : G[j] = H[j]
            /\ G \in Seq(Records)
        BY <1>8, AppendProperties, LenProperties
      <4>2. DOMAIN H = 1..Len(H) /\ DOMAIN G = 1..Len(G)
        BY <1>8, <4>1, HistoryIs
      <4>3. logged'[p] = G
        BY <3>1, <3>3
      <4> HIDE DEF G, H
      <4>4. i = Len(H) + 1 \/ i \in 1..Len(H)
        BY <4>1, <4>2, <4>3
      <4>5. call.at <= call.at
        BY <1>6
      <4> QED BY <1>8, <2>1, <4>1, <4>2, <4>3, <4>4, <4>5
    <3> QED BY <3>2, <3>3
  <2>4. OrderKept'
    <3>1. call.at \in 0..now' /\ Arriving(call.at, pending', channel', batch', now')
      BY <1>1, <1>4, <1>6
    <3> QED BY <2>3, <3>1 DEF OrderKept
  <2> QED BY <1>5, <1>7, <1>11, <2>2, <2>4
<1>12. CASE UNCHANGED engineVars
  <2>1. UNCHANGED <<window, chainCounts, emitted, chains>>
        /\ total' - suppressed' = total - suppressed
    BY <1>12 DEF engineVars
  <2> QED BY <1>1, <1>10, <2>1
<1>13. ASSUME NEW api \in Apis, NEW n \in 0..call.n, Counted(call, api, n),
              n = 0 /\ Suppress
       PROVE  /\ OrderKept'
              /\ UNCHANGED <<window, logged, chainCounts, emitted, chains>>
  <2>1. UNCHANGED <<window, chainCounts, emitted, chains>>
    BY <1>13 DEF Suppress
  <2>2. total' - suppressed' = total - suppressed
    <3>1. call.n \in Nat /\ total \in Nat /\ suppressed \in Nat
      BY <1>5 DEF MonitorInv, EngineKept, Reports
    <3> QED BY <1>13, <3>1 DEF Counted
  <2> QED BY <1>1, <1>10, <2>1, <2>2
<1>14. ASSUME NEW api \in Apis, NEW n \in 0..call.n, Counted(call, api, n),
              n > 0 /\ Log(call, api, n, stage)
       PROVE  \E c \in Records : Logging(call, c, stage)
  <2>1. total' - suppressed' # total - suppressed /\ n \in Nat \ {0}
    <3>1. call.n \in Nat /\ total \in Nat /\ suppressed \in Nat
      BY <1>5 DEF MonitorInv, EngineKept, Reports
    <3> QED BY <1>14, <3>1 DEF Counted
  <2>2. logged' = Put(logged, call.pid, Append(H, Last(window'[call.pid])))
    BY <1>1, <2>1
  <2> QED BY <1>5, <1>9, <1>14, <2>1, <2>2, LogMatches
<1> QED
  <2>1. \/ UNCHANGED engineVars
        \/ \E api \in Apis : \E n \in 0..call.n :
              /\ Counted(call, api, n)
              /\ (n > 0 /\ Log(call, api, n, stage)) \/ (n = 0 /\ Suppress)
    BY <1>1, <1>5, IngestCases DEF MonitorInv
  <2> QED BY <1>11, <1>12, <1>1, <1>10, <1>13, <1>14, <2>1


\* Logging keeps the histories in order, and the windows their ends.
LEMMA LoggingKeepsHistory ==
  ASSUME HistoryKept, NEW call, NEW c \in Records, NEW st, Logging(call, c, st),
         InOrder(Append(At(logged, call.pid, <<>>), c))
  PROVE  HistoryKept'
<1> DEFINE pid == call.pid
<1> DEFINE H == At(logged, pid, <<>>)
<1> DEFINE W == At(window, pid, <<>>)
<1> DEFINE V == Remember(W, c)
<1>1. logged' = Longer(logged, pid, c) /\ window' = Put(window, pid, V)
  BY Zenon DEF Logging
<1>2. H \in Seq(Records) /\ InOrder(Append(H, c)) /\ IsWindow(W, H)
  <2>1. H \in Seq(Records)
    BY DEF HistoryKept, At
  <2> QED BY <2>1, WindowOf
<1> HIDE DEF pid, H, W
<1>3. IsWindow(V, Append(H, c)) /\ Append(H, c) \in Seq(Records)
  BY <1>2, RememberKeepsWindow, AppendProperties
<1> HIDE DEF V
<1>4. logged' = [x \in DOMAIN logged \cup {pid} |-> IF x = pid THEN Append(H, c) ELSE logged[x]]
  BY <1>1, PutIs DEF Longer, H
<1>5. window' = [x \in DOMAIN window \cup {pid} |-> IF x = pid THEN V ELSE window[x]]
  BY <1>1, PutIs
<1> DEFINE G == Append(H, c)
<1> HIDE DEF G
<1>6. ASSUME NEW p \in DOMAIN logged'
      PROVE  logged'[p] \in Seq(Records) /\ InOrder(logged'[p]) /\ IsWindow(window'[p], logged'[p])
  <2>1. CASE p = pid
    <3>1. logged'[p] = G /\ window'[p] = V
      BY <1>4, <1>5, <2>1 DEF G
    <3> QED BY <1>2, <1>3, <3>1 DEF G
  <2>2. CASE p # pid
    <3>1. p \in DOMAIN logged /\ logged'[p] = logged[p] /\ p \in DOMAIN window
      BY <1>4, <2>2 DEF HistoryKept
    <3>2. window'[p] = window[p]
      BY <1>5, <2>2, <3>1
    <3> QED BY <3>1, <3>2 DEF HistoryKept
  <2> QED BY <2>1, <2>2
<1>7. DOMAIN window' = DOMAIN logged'
  BY <1>4, <1>5 DEF HistoryKept
<1> QED BY <1>6, <1>7 DEF HistoryKept

\* Logging counts what it adds to the matches.
LEMMA LoggingKeepsCounts ==
  ASSUME HistoryKept, CountsKept, NEW call, NEW c \in Records, NEW st, Logging(call, c, st)
  PROVE  CountsKept'
<1> DEFINE pid == call.pid
<1> DEFINE ids == {r.id : r \in Completed(Append(At(logged, pid, <<>>), c))}
<1>1. /\ logged' = Longer(logged, pid, c)
      /\ chainCounts' = [id \in DOMAIN chainCounts \cup ids |->
                           At(chainCounts, id, 0) + IF id \in ids THEN c.n ELSE 0]
  BY Zenon DEF Logging
<1>2. \A q \in DOMAIN logged : logged[q] \in Seq(Records)
  BY DEF HistoryKept
<1>3. chainCounts = TrueCounts(logged) /\ FinitelyMatched(logged)
  BY DEF CountsKept, CountsExact
<1>4. /\ TrueCounts(Longer(logged, pid, c))
           = [id \in DOMAIN TrueCounts(logged) \cup ids |->
                At(TrueCounts(logged), id, 0) + IF id \in ids THEN c.n ELSE 0]
      /\ FinitelyMatched(Longer(logged, pid, c))
  <2> HIDE DEF pid
  <2> QED BY <1>2, <1>3, CountsGrow, Zenon
<1> HIDE DEF ids, pid
<1>5. chainCounts' = TrueCounts(logged')
  BY <1>1, <1>3, <1>4, Zenon
<1>6. FinitelyMatched(logged')
  BY <1>1, <1>4, Zenon
<1> QED BY <1>5, <1>6 DEF CountsKept, CountsExact

\* What logging adds to the matches and to the chains.
LEMMA LoggingAdds ==
  ASSUME HistoryKept, NEW call, NEW c \in Records, NEW st, Logging(call, c, st)
  PROVE  LET H == At(logged, call.pid, <<>>)
             z == Len(H) + 1
             done == Completed(Append(H, c))
         IN  /\ Matches(logged') = Matches(logged) \cup {<<call.pid, z, r>> : r \in done}
             /\ \A m \in Matches(logged) : /\ logged'[m[1]][m[2]] = logged[m[1]][m[2]]
                                           /\ <<m[1], m[2]>> # <<call.pid, z>>
             /\ logged'[call.pid][z] = c /\ c.at = call.at
             /\ Chained(done, call, st)
             /\ done \subseteq RuleBook
<1> DEFINE pid == call.pid
<1> DEFINE H == At(logged, pid, <<>>)
<1> DEFINE z == Len(H) + 1
<1> DEFINE done == Completed(Append(H, c))
<1>1. /\ logged' = Longer(logged, pid, c)
      /\ c.at = call.at
      /\ Chained(done, call, st)
  BY Zenon DEF Logging
<1>2. \A q \in DOMAIN logged : logged[q] \in Seq(Records)
  BY DEF HistoryKept
<1> HIDE DEF pid
<1> DEFINE new == Longer(logged, pid, c)
<1>3. /\ Matches(new) = Matches(logged) \cup {<<pid, z, r>> : r \in done}
      /\ \A m \in Matches(logged) : /\ new[m[1]][m[2]] = logged[m[1]][m[2]]
                                    /\ <<m[1], m[2]>> # <<pid, z>>
      /\ new[pid][z] = c
  BY <1>2, MatchesGrow, Zenon
<1>4. done \subseteq RuleBook
  <2>1. H \in Seq(Records)
    BY <1>2 DEF At
  <2>2. c.api \in Apis
    BY DEF Records
  <2> HIDE DEF H
  <2>3. Append(H, c)[Len(Append(H, c))] = c
    BY <2>1, AppendProperties
  <2> QED BY <2>2, <2>3 DEF Completed, RulesEndingIn
<1> HIDE DEF done, z, new
<1>5. /\ Matches(logged') = Matches(logged) \cup {<<pid, z, r>> : r \in done}
      /\ \A m \in Matches(logged) : /\ logged'[m[1]][m[2]] = logged[m[1]][m[2]]
                                    /\ <<m[1], m[2]>> # <<pid, z>>
      /\ logged'[pid][z] = c
  BY <1>1, <1>3, Zenon DEF new
<1> QED BY <1>1, <1>4, <1>5, Zenon DEF pid, z, done, H


\* Logging emits what is justified, and remembers what it emitted.
LEMMA LoggingKeepsEmission ==
  ASSUME HistoryKept, EmissionKept, NEW call, NEW c \in Records, NEW st, Logging(call, c, st)
  PROVE  EmissionKept'
<1> DEFINE pid == call.pid
<1> DEFINE at == call.at
<1> DEFINE H == At(logged, pid, <<>>)
<1> DEFINE z == Len(H) + 1
<1> DEFINE done == Completed(Append(H, c))
<1> DEFINE new == Emissions(done, pid, at)
<1> DEFINE Chain(r) == [rule |-> r.id, severity |-> r.severity, pid |-> pid,
                        at |-> at, stage |-> st]
<1> DEFINE Keys == {<<r.id, pid>> : r \in new}
<1>1. /\ Matches(logged') = Matches(logged) \cup {<<pid, z, r>> : r \in done}
      /\ \A m \in Matches(logged) : /\ logged'[m[1]][m[2]] = logged[m[1]][m[2]]
                                    /\ <<m[1], m[2]>> # <<pid, z>>
      /\ logged'[pid][z] = c /\ c.at = at
      /\ Chained(done, call, st)
  BY LoggingAdds, Zenon
<1>2. \A r \in new : r \in done /\ r.over \cap {q.id : q \in done} = {}
  BY DEF Emissions
<1>3. /\ chains' = chains \cup {Chain(r) : r \in new}
      /\ emitted' = [k \in Keys |-> at] ++ emitted
  BY <1>1, Zenon DEF Chained
<1>4. /\ DOMAIN emitted' = Keys \cup DOMAIN emitted
      /\ \A k \in Keys : emitted'[k] = at
      /\ \A k \in DOMAIN emitted \ Keys : emitted'[k] = emitted[k]
  BY <1>3 DEF ++
<1> HIDE DEF done, new, z, H, pid, at
<1>5. ASSUME NEW d \in chains'
      PROVE  Justified(d, logged')
  <2>1. CASE d \in chains
    <3>1. PICK m \in Matches(logged) :
            /\ <<m[1], m[3].id, logged[m[1]][m[2]].at>> = <<d.pid, d.rule, d.at>>
            /\ Unsurpassed(m, Matches(logged))
      BY <2>1 DEF EmissionKept, Justified
    <3>2. m \in Matches(logged') /\ logged'[m[1]][m[2]] = logged[m[1]][m[2]]
      BY <1>1
    <3>3. Unsurpassed(m, Matches(logged'))
      <4> SUFFICES ASSUME NEW o \in Matches(logged'), o[1] = m[1], o[2] = m[2]
                   PROVE  o[3].id \notin m[3].over
        BY DEF Unsurpassed
      <4>1. <<m[1], m[2]>> # <<pid, z>>
        BY <1>1
      <4>2. \A r : <<pid, z, r>>[1] = pid /\ <<pid, z, r>>[2] = z
        OBVIOUS
      <4>3. o \in Matches(logged)
        BY <1>1, <4>1, <4>2
      <4> QED BY <3>1, <4>3 DEF Unsurpassed
    <3>4. <<m[1], m[3].id, logged'[m[1]][m[2]].at>> = <<d.pid, d.rule, d.at>>
      BY <3>1, <3>2
    <3> QED BY <3>2, <3>3, <3>4 DEF Justified
  <2>2. CASE d \notin chains
    <3>1. PICK r \in new : d = Chain(r)
      BY <1>3, <2>2
    <3>2. d.pid = pid /\ d.rule = r.id /\ d.at = at
      BY <3>1
    <3> DEFINE m == <<pid, z, r>>
    <3>3. m[1] = pid /\ m[2] = z /\ m[3] = r
      OBVIOUS
    <3>4. m \in Matches(logged')
      BY <1>1, <1>2
    <3> HIDE DEF m
    <3>5. <<m[1], m[3].id, logged'[m[1]][m[2]].at>> = <<d.pid, d.rule, d.at>>
      BY <1>1, <3>2, <3>3
    <3>6. Unsurpassed(m, Matches(logged'))
      <4> SUFFICES ASSUME NEW o \in Matches(logged'), o[1] = pid, o[2] = z
                   PROVE  o[3].id \notin r.over
        BY <3>3 DEF Unsurpassed
      <4>1. o \notin Matches(logged)
        BY <1>1
      <4>2. PICK q \in done : o = <<pid, z, q>>
        BY <1>1, <4>1
      <4>3. o[3] = q
        BY <4>2
      <4> QED BY <1>2, <4>3
    <3> QED BY <3>4, <3>5, <3>6 DEF Justified
  <2> QED BY <2>1, <2>2
<1>6. ASSUME NEW k \in DOMAIN emitted'
      PROVE  \E d \in chains' : d.rule = k[1] /\ d.pid = k[2] /\ d.at = emitted'[k]
  <2>1. CASE k \in Keys
    <3>1. PICK r \in new : k = <<r.id, pid>>
      BY <2>1
    <3>2. Chain(r) \in chains'
      BY <1>3
    <3>3. Chain(r).rule = k[1] /\ Chain(r).pid = k[2] /\ Chain(r).at = emitted'[k]
      BY <1>4, <2>1, <3>1
    <3> QED BY <3>2, <3>3
  <2>2. CASE k \notin Keys
    <3>1. k \in DOMAIN emitted /\ emitted'[k] = emitted[k] /\ chains \subseteq chains'
      BY <1>3, <1>4, <2>2
    <3> HIDE DEF Keys
    <3> QED BY <3>1 DEF EmissionKept
  <2> QED BY <2>1, <2>2
<1> QED BY <1>5, <1>6 DEF EmissionKept

\* A rule a call completes and no other supersedes has a chain within its window.
LEMMA CompletedIsReported ==
  ASSUME HistoryKept, EmissionKept, NEW call \in Reports, NEW c \in Records, NEW st,
         Logging(call, c, st), LoggedBy(logged, call.at),
         NEW q \in Completed(Append(At(logged, call.pid, <<>>), c)),
         \A o \in Completed(Append(At(logged, call.pid, <<>>), c)) : o.id \notin q.over
  PROVE  \E d \in chains' : /\ d.rule = q.id /\ d.pid = call.pid
                            /\ call.at - d.at \in 0..(q.window - 1)
<1> DEFINE pid == call.pid
<1> DEFINE at == call.at
<1> DEFINE H == At(logged, pid, <<>>)
<1> DEFINE done == Completed(Append(H, c))
<1> DEFINE new == Emissions(done, pid, at)
<1> DEFINE Chain(r) == [rule |-> r.id, severity |-> r.severity, pid |-> pid,
                        at |-> at, stage |-> st]
<1>1. Chained(done, call, st) /\ done \subseteq RuleBook
  BY LoggingAdds, Zenon
<1>2. chains' = chains \cup {Chain(r) : r \in new}
  BY <1>1, Zenon DEF Chained
<1>3. at \in Nat
  BY DEF Reports
<1>4. q \in RuleBook /\ q.window \in Nat /\ q.window > 0
  BY <1>1, EngineAssumption, SupersessionAssumption
<1>5. q.over \cap {r.id : r \in done} = {}
  OBVIOUS
<1> HIDE DEF done, H, at, pid
<1>6. CASE Fresh(q, pid, at)
  <2>1. q \in new
    BY <1>5, <1>6 DEF Emissions, done, pid, H
  <2>2. Chain(q) \in chains' /\ Chain(q).rule = q.id /\ Chain(q).pid = pid /\ Chain(q).at = at
    BY <1>2, <2>1
  <2>3. at - at \in 0..(q.window - 1)
    BY <1>3, <1>4
  <2> QED BY <2>2, <2>3 DEF pid, at
<1>7. CASE ~Fresh(q, pid, at)
  <2> DEFINE k == <<q.id, pid>>
  <2>1. k \in DOMAIN emitted /\ ~(at - emitted[k] >= q.window)
    BY <1>7 DEF Fresh
  <2>2. PICK d \in chains : d.rule = k[1] /\ d.pid = k[2] /\ d.at = emitted[k]
    BY <2>1 DEF EmissionKept
  <2>3. d.rule = q.id /\ d.pid = pid
    BY <2>2
  <2>4. d.at \in Nat /\ d.at <= at
    <3>1. PICK m \in Matches(logged) :
            <<m[1], m[3].id, logged[m[1]][m[2]].at>> = <<d.pid, d.rule, d.at>>
      BY DEF EmissionKept, Justified
    <3>2. PICK p, i, r : CompletedAt(logged, p, i, r) /\ m = <<p, i, r>>
      BY MatchIs
    <3>3. m[1] = p /\ m[2] = i
      BY <3>2
    <3>4. d.at = logged[p][i].at /\ p \in DOMAIN logged /\ i \in DOMAIN logged[p]
      BY <3>1, <3>2, <3>3 DEF CompletedAt
    <3>5. logged[p] \in Seq(Records)
      BY <3>4 DEF HistoryKept
    <3>6. logged[p][i] \in Records
      BY <3>4, <3>5
    <3>7. logged[p][i].at \in Nat
      BY <3>6 DEF Records
    <3>8. logged[p][i].at <= at
      BY <3>4 DEF LoggedBy, at
    <3> QED BY <3>4, <3>7, <3>8
  <2>5. ~(at - d.at >= q.window)
    BY <2>1, <2>2
  <2> HIDE DEF k
  <2>6. at - d.at \in 0..(q.window - 1)
    BY <1>3, <1>4, <2>4, <2>5
  <2>7. d \in chains'
    BY <1>2
  <2> QED BY <2>3, <2>6, <2>7 DEF pid, at
<1> QED BY <1>6, <1>7

\* So logging leaves no match unreported: of two rules one call completes, the
\* one that supersedes the other is itself superseded by none.
LEMMA LoggingReports ==
  ASSUME HistoryKept, EmissionKept, MatchesReported, NEW call \in Reports,
         NEW c \in Records, NEW st, Logging(call, c, st), LoggedBy(logged, call.at)
  PROVE  MatchesReported'
<1> DEFINE pid == call.pid
<1> DEFINE H == At(logged, pid, <<>>)
<1> DEFINE z == Len(H) + 1
<1> DEFINE done == Completed(Append(H, c))
<1>1. /\ Matches(logged') = Matches(logged) \cup {<<pid, z, r>> : r \in done}
      /\ \A m \in Matches(logged) : /\ logged'[m[1]][m[2]] = logged[m[1]][m[2]]
                                    /\ <<m[1], m[2]>> # <<pid, z>>
      /\ logged'[pid][z] = c /\ c.at = call.at
      /\ Chained(done, call, st)
      /\ done \subseteq RuleBook
  BY LoggingAdds, Zenon
<1>2. chains \subseteq chains'
  BY <1>1 DEF Chained
<1>3. \A q \in done : (\A o \in done : o.id \notin q.over)
        => \E d \in chains' : /\ d.rule = q.id /\ d.pid = pid
                              /\ call.at - d.at \in 0..(q.window - 1)
  BY CompletedIsReported
<1> HIDE DEF done, z, H, pid
<1> SUFFICES ASSUME NEW m \in Matches(logged')
             PROVE  \E d \in chains' : \E q \in RuleBook :
                       /\ d.rule = q.id /\ q.id \in {m[3].id} \cup m[3].over
                       /\ d.pid = m[1]
                       /\ logged'[m[1]][m[2]].at - d.at \in 0..(q.window - 1)
  BY DEF MatchesReported
<1>4. CASE m \in Matches(logged)
  <2>1. PICK d \in chains, q \in RuleBook :
            /\ d.rule = q.id /\ q.id \in {m[3].id} \cup m[3].over
            /\ d.pid = m[1]
            /\ logged[m[1]][m[2]].at - d.at \in 0..(q.window - 1)
    BY <1>4, Zenon DEF MatchesReported
  <2>2. logged'[m[1]][m[2]].at = logged[m[1]][m[2]].at
    BY <1>1, <1>4
  <2>3. logged'[m[1]][m[2]].at - d.at \in 0..(q.window - 1)
    BY <2>1, <2>2, Zenon
  <2> QED BY <1>2, <2>1, <2>3, Zenon
<1>5. CASE m \notin Matches(logged)
  <2>1. PICK r \in done : m = <<pid, z, r>>
    BY <1>1, <1>5
  <2>2. m[1] = pid /\ m[2] = z /\ m[3] = r
    BY <2>1
  <2>3. logged'[m[1]][m[2]].at = call.at
    BY <1>1, <2>2
  <2>4. PICK q \in done : q.id \in {r.id} \cup r.over /\ \A o \in done : o.id \notin q.over
    <3>1. CASE \A o \in done : o.id \notin r.over
      BY <3>1
    <3>2. CASE \E o \in done : o.id \in r.over
      <4>1. PICK q \in done : q.id \in r.over
        BY <3>2
      <4>2. q.over = {}
        BY <1>1, <4>1, SupersessionAssumption
      <4> QED BY <4>1, <4>2
    <3> QED BY <3>1, <3>2
  <2>5. PICK d \in chains' : /\ d.rule = q.id /\ d.pid = pid
                             /\ call.at - d.at \in 0..(q.window - 1)
    BY <1>3, <2>4, Zenon
  <2>6. q \in RuleBook
    BY <1>1
  <2>7. logged'[m[1]][m[2]].at - d.at \in 0..(q.window - 1)
    BY <2>3, <2>5, Zenon
  <2> QED BY <2>2, <2>4, <2>5, <2>6, <2>7, Zenon
<1> QED BY <1>4, <1>5


\* Nothing has been matched yet.
LEMMA MatchingInvInit == Init => MatchingInv /\ MatchesReported
<1> SUFFICES ASSUME Init PROVE MatchingInv /\ MatchesReported
  OBVIOUS
<1>1. /\ logged = Empty /\ window = Empty /\ emitted = Empty /\ chainCounts = Empty
      /\ chains = {} /\ now = 0 /\ pending = <<>> /\ channel = <<>> /\ batch = <<>>
  BY DEF Init, AgentInit, EngineInit, NoRecords
<1>2. DOMAIN Empty = {}
  BY DEF Empty
<1>3. Matches(logged) = {}
  BY <1>1, <1>2 DEF Matches
<1>4. HistoryKept /\ EmissionKept /\ MatchesReported
  BY <1>1, <1>2, <1>3 DEF HistoryKept, EmissionKept, MatchesReported
<1>5. CountsKept
  <2>1. FinitelyMatched(logged)
    BY <1>3, FS_EmptySet DEF FinitelyMatched, MatchesOf
  <2>2. DOMAIN TrueCounts(logged) = {}
    BY <1>3, CountIs
  <2>3. TrueCounts(logged) = [id \in {} |-> 0]
    <3>1. TrueCounts(logged) = [id \in DOMAIN TrueCounts(logged) |-> TrueCounts(logged)[id]]
      BY TrueCountsIs, Zenon
    <3> QED BY <2>2, <3>1
  <2> QED BY <1>1, <2>1, <2>3 DEF CountsKept, CountsExact, Empty
<1>6. OrderKept
  <2>1. LoggedBy(logged, 0)
    BY <1>1, <1>2 DEF LoggedBy
  <2>2. \A i \in 0..(Len(<<>>) + 1) : Line(<<>>, <<>>, <<>>)[i] = <<>>
    <3>1. Len(<<>>) = 0 /\ \A i \in 0..(0 + 1) : i = 0 \/ i = 0 + 1
      BY EmptySeq
    <3> QED BY <3>1 DEF Line
  <2>3. \A i \in 0..(Len(<<>>) + 1) : \A j \in (i + 1)..(Len(<<>>) + 1) : j \in 0..(Len(<<>>) + 1)
    BY EmptySeq
  <2>4. Arriving(0, <<>>, <<>>, <<>>, 0)
    BY <2>2, <2>3, NothingArrives DEF Arriving
  <2>5. 0 \in 0..now
    BY <1>1
  <2> QED BY <1>1, <2>1, <2>4, <2>5 DEF OrderKept
<1> QED BY <1>4, <1>5, <1>6 DEF MatchingInv

\* flush() of records made in order keeps the order on the way.
LEMMA FlushKeepsArriving ==
  ASSUME NEW u \in Nat, NEW records \in Batches, NEW t \in Nat, AgentKept,
         Arriving(u, pending, channel, records, t), Flush(records)
  PROVE  Arriving(u, pending, channel', batch', t)
<1>1. pending \in Batches /\ channel \in Seq(Batches)
  BY BatchesAre
<1>2. /\ Arriving(u, pending, Append(channel, records), <<>>, t)
      /\ Arriving(u, pending, channel, <<>>, t)
  BY <1>1, ArrivingSent
<1>3. \/ channel' = Append(channel, records) /\ batch' = <<>>
      \/ channel' = channel /\ (batch' = <<>> \/ batch' = records)
  BY DEF Flush, NoRecords
<1> QED BY <1>2, <1>3

\* A step of the sample puts what it reports behind the rest.
LEMMA SampleKeepsArriving ==
  ASSUME MonitorInv, OrderKept, SampleCalls
  PROVE  OrderKept'
<1> DEFINE step == Head(todo)
<1> DEFINE api == Canonical(step.raw)
<1> DEFINE passed == IF platform = "windows" THEN Within(guestRate, api, step.n, now')
                     ELSE step.n
<1>1. step \in SampleSteps
  BY HeadTailProperties DEF MonitorInv, AgentKept, SampleCalls
<1>2. /\ now' = now + step.wait /\ Observe(step)
      /\ UNCHANGED <<platform, pending, logged>>
  BY DEF SampleCalls, monitorVars
<1>3. step.wait \in Nat /\ step.n \in Nat \ {0}
  BY <1>1, SampleAssumption
<1>4. /\ pending \in Batches /\ channel \in Seq(Batches) /\ batch \in Batches
      /\ now \in Nat /\ platform \in Platforms
  BY BatchesAre DEF MonitorInv, AgentKept
<1>5. PICK u \in 0..now : Arriving(u, pending, channel, batch, now) /\ LoggedBy(logged, u)
  BY DEF OrderKept
<1> HIDE DEF step
<1>6. now' \in Nat /\ now <= now' /\ u \in Nat /\ u \in 0..now' /\ u <= now'
  BY <1>2, <1>3, <1>4, <1>5
<1>7. Arriving(u, pending, channel, batch, now')
  BY <1>4, <1>5, <1>6, ArrivingLater
<1>8. CASE UNCHANGED <<batch, channel>>
  BY <1>2, <1>5, <1>6, <1>7, <1>8 DEF OrderKept
<1>9. ASSUME NEW record \in Reports, record.at = now', Emit(record)
      PROVE  OrderKept'
  <2> DEFINE held == Append(batch, record)
  <2>1. held \in Batches
    BY <1>4, AppendProperties DEF Batches
  <2>2. Arriving(u, pending, channel, held, now')
    BY <1>4, <1>6, <1>7, <1>9, ArrivingMore
  <2>3. Flush(held) \/ (batch' = held /\ channel' = channel)
    BY <1>9 DEF Emit
  <2> HIDE DEF held
  <2>4. Arriving(u, pending, channel', batch', now')
    BY <1>6, <2>1, <2>2, <2>3, FlushKeepsArriving DEF MonitorInv
  <2>5. Arriving(u, pending', channel', batch', now') /\ LoggedBy(logged', u)
    BY <1>2, <1>5, <2>4
  <2> QED BY <1>6, <2>5 DEF OrderKept
<1>10. CASE step.raw \notin DOMAIN Captured[platform]
  <2>1. UNCHANGED <<batch, channel>>
    BY <1>2, <1>10 DEF Observe
  <2> QED BY <1>8, <2>1
<1>11. CASE step.raw \in DOMAIN Captured[platform]
  <2>1. IF passed = 0 THEN UNCHANGED <<batch, lastFlush, channel, failedSends>>
        ELSE Emit(Report(step, passed))
    BY <1>2, <1>11, Zenon DEF Observe
  <2>2. passed \in Nat
    <3>1. api \in Apis
      BY <1>4, <1>11, HookedAssumption
    <3>2. IsRates(guestRate, now')
      BY <1>4, <1>6 DEF MonitorInv, AgentKept, IsRates
    <3> HIDE DEF api
    <3>3. Within(guestRate, api, step.n, now') \in 0..step.n
      BY <1>3, <1>6, <3>1, <3>2, WithinBounds
    <3> QED BY <1>3, <3>3
  <2> HIDE DEF passed
  <2>3. CASE passed = 0
    BY <1>8, <2>1, <2>3
  <2>4. CASE passed # 0
    <3>1. Report(step, passed) \in Reports
      <4>1. passed \in Nat \ {0}
        BY <2>2, <2>4
      <4> QED BY <1>1, <1>4, <1>6, <4>1, ReportIsOne
    <3>2. Report(step, passed).at = now'
      BY DEF Report
    <3> QED BY <1>9, <2>1, <2>4, <3>1, <3>2
  <2> QED BY <2>3, <2>4
<1> QED BY <1>10, <1>11

\* The timer and the channel keep the order.
LEMMA TransportKeepsArriving ==
  ASSUME MonitorInv, OrderKept, TimerFires \/ ReceiveBatch
  PROVE  OrderKept'
<1>1. /\ pending \in Batches /\ channel \in Seq(Batches) /\ batch \in Batches
      /\ now \in Nat
  BY BatchesAre DEF MonitorInv
<1>2. PICK u \in 0..now : Arriving(u, pending, channel, batch, now) /\ LoggedBy(logged, u)
  BY DEF OrderKept
<1>3. u \in Nat
  BY <1>1
<1>4. CASE TimerFires
  <2>1. now' = now /\ Flush(batch) /\ UNCHANGED <<pending, logged>>
    BY <1>4 DEF TimerFires, FlushTimer, monitorVars, historyVars
  <2>2. Arriving(u, pending, channel', batch', now)
    BY <1>1, <1>2, <1>3, <2>1, FlushKeepsArriving DEF MonitorInv
  <2> QED BY <1>2, <2>1, <2>2 DEF OrderKept
<1>5. CASE ReceiveBatch
  <2>1. /\ pending = <<>> /\ channel # <<>>
        /\ pending' = Head(channel) /\ channel' = Tail(channel)
        /\ UNCHANGED <<now, batch, logged>>
    BY <1>5 DEF ReceiveBatch, historyVars
  <2>2. Arriving(u, Head(channel), Tail(channel), batch, now)
    BY <1>1, <1>2, <1>3, <2>1, ArrivingReceived
  <2> QED BY <1>2, <2>1, <2>2 DEF OrderKept
<1> QED BY <1>4, <1>5

\* What does not touch the engine does not touch what it matched.
LEMMA MatchingStays ==
  ASSUME MatchingInv, UNCHANGED <<window, logged, chainCounts, emitted, chains>>
  PROVE  /\ HistoryKept' /\ CountsKept' /\ EmissionKept'
         /\ MatchesReported => MatchesReported'
<1>1. HistoryKept'
  BY DEF MatchingInv, HistoryKept
<1>2. CountsKept'
  BY DEF MatchingInv, CountsKept, CountsExact
<1>3. EmissionKept'
  BY DEF MatchingInv, EmissionKept
<1>4. MatchesReported => MatchesReported'
  BY DEF MatchesReported
<1> QED BY <1>1, <1>2, <1>3, <1>4

\* Every step keeps the invariant, and reports what it matches.
LEMMA MatchingInvStep ==
  ASSUME MonitorInv, MatchingInv, [Next]_vars
  PROVE  MatchingInv' /\ (MatchesReported => MatchesReported')
<1> USE DEF MatchingInv
<1>1. ASSUME UNCHANGED <<window, logged, chainCounts, emitted, chains>>, OrderKept'
      PROVE  MatchingInv' /\ (MatchesReported => MatchesReported')
  BY <1>1, MatchingStays
<1>2. CASE SampleCalls
  <2>1. OrderKept'
    BY <1>2, SampleKeepsArriving
  <2> QED BY <1>1, <1>2, <2>1 DEF SampleCalls, engineVars
<1>3. CASE TimerFires
  <2>1. OrderKept'
    BY <1>3, TransportKeepsArriving
  <2> QED BY <1>1, <1>3, <2>1 DEF TimerFires, engineVars, historyVars
<1>4. CASE ReceiveBatch
  <2>1. OrderKept'
    BY <1>4, TransportKeepsArriving
  <2> QED BY <1>1, <1>4, <2>1 DEF ReceiveBatch, engineVars, historyVars
<1>5. CASE IngestNext
  <2>1. /\ OrderKept'
        /\ \/ UNCHANGED <<window, logged, chainCounts, emitted, chains>>
           \/ \E call \in Reports : \E c \in Records :
                 /\ Logging(call, c, stage)
                 /\ LoggedBy(logged, call.at)
                 /\ InOrder(Append(At(logged, call.pid, <<>>), c))
    BY <1>5, IngestNextLogs
  <2>2. ASSUME NEW call \in Reports, NEW c \in Records, Logging(call, c, stage),
               LoggedBy(logged, call.at), InOrder(Append(At(logged, call.pid, <<>>), c))
        PROVE  /\ HistoryKept' /\ CountsKept' /\ EmissionKept'
               /\ MatchesReported => MatchesReported'
    BY <2>2, LoggingKeepsHistory, LoggingKeepsCounts, LoggingKeepsEmission, LoggingReports
  <2> QED BY <1>1, <2>1, <2>2
<1>6. CASE (\E s \in StageNames : EnterStage(s)) \/ ExitStage \/ UNCHANGED vars
  <2>1. UNCHANGED <<agentVars, engineVars, pending, logged>>
    BY <1>6 DEF EnterStage, ExitStage, vars, monitorVars, historyVars
  <2>2. OrderKept'
    BY <2>1 DEF OrderKept, agentVars
  <2> QED BY <1>1, <2>1, <2>2 DEF engineVars
<1> QED BY <1>2, <1>3, <1>4, <1>5, <1>6 DEF Next

\* Every reachable state satisfies it.
LEMMA MatchingInvHolds == Spec => []MatchingInv
<1>1. Init => MonitorInv /\ MatchingInv
  BY MonitorInvInit, MatchingInvInit
<1>2. MonitorInv /\ MatchingInv /\ [Next]_vars => MonitorInv' /\ MatchingInv'
  BY MonitorInvStep, MatchingInvStep
<1> QED BY <1>1, <1>2, PTL DEF Spec

-----------------------------------------------------------------------------
(* The theorems *)

\* _match_chains(), "Every match is counted": for any rule book, window and
\* samples, a rule's count is the number of calls that complete it in what was
\* logged of their processes; the greedy walk back through a bounded window
\* misses none and invents none.
THEOREM EveryMatchIsCounted == Spec => []CountsExact
<1>1. MatchingInv => CountsExact
  BY DEF MatchingInv, CountsKept
<1> QED BY <1>1, MatchingInvHolds, PTL

\* _match_chains(): a chain that is reported happened, at its time and in its
\* process, no rule that supersedes it was completed by the same call, and it is
\* a window of its rule away from the others.
THEOREM ChainsAreJustified == Spec => []ChainsJustified
<1>1. MatchingInv /\ MonitorInv => ChainsJustified
  BY MonitorInvSays DEF MatchingInv, EmissionKept, Justified, Unsurpassed, ChainsJustified
<1> QED BY <1>1, MatchingInvHolds, MonitorInvHolds, PTL

\* The dedup of _match_chains() "exists to keep the findings list readable, not
\* to lose" any behaviour: a match without a chain of its own has one, of its
\* rule or of a superseding one, in the same process within that rule's window.
THEOREM NoMatchGoesUnreported == Spec => []MatchesReported
<1>1. MonitorInv /\ MatchingInv /\ MatchesReported /\ [Next]_vars => MatchesReported'
  BY MatchingInvStep
<1> QED BY <1>1, MatchingInvInit, MonitorInvHolds, MatchingInvHolds, PTL DEF Spec
=============================================================================
