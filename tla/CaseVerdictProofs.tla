--------------------------- MODULE CaseVerdictProofs ---------------------------
(***************************************************************************)
(* Proofs about the verdict on a sample, for every set of files, words,    *)
(* signatures and settings: what the score is made of and that it grows    *)
(* with the evidence (CaseVerdict), that no chain of links is broken       *)
(* (Investigation), that every case an analysis comes to is sound          *)
(* (CaseAnalysis), and that the stored cases stay sound while uploads,     *)
(* submissions, the worker and restarts run beside each other (CaseIntake).*)
(***************************************************************************)
EXTENDS CaseIntakeProofs, SumTheorems

-----------------------------------------------------------------------------
(* The points of behaviour chains *)

\* What a chain is worth, and the fold over chains as a table of its parts.
PointsOf(c) == IF c.severity \in Severities THEN c.points ELSE 0
PointsStep(q, g, s) == IF s = {} THEN 0 ELSE g[s \ {Max(s)}] + PointsOf(q[Max(s)])
PointsTable(q) == CHOOSE g : g = [s \in SUBSET DOMAIN q |-> PointsStep(q, g, s)]

\* SumOfPoints() is that fold.
LEMMA SumOfPointsIs ==
  ASSUME NEW q
  PROVE  SumOfPoints(q) = PointsTable(q)[DOMAIN q]
  BY ZenonT(60) DEF SumOfPoints, PointsTable, PointsStep, PointsOf, FoldLeft, MapThenFoldSet

\* Chains of whole points are worth whole points together, and no chains nothing.
LEMMA SumOfPointsIsInt ==
  ASSUME NEW S, NEW q \in Seq(S), \A c \in S : c.points \in Int
  PROVE  SumOfPoints(q) \in Int /\ (q = <<>> => SumOfPoints(q) = 0)
<1> DEFINE n == Len(q)
<1> DEFINE D == 1..n
<1>1. n \in Nat /\ DOMAIN q = D /\ IsFiniteSet(D) /\ \A i \in D : PointsOf(q[i]) \in Int
  <2>1. n \in Nat /\ DOMAIN q = D
    BY LenProperties
  <2>2. IsFiniteSet(D)
    BY <2>1, FS_Interval
  <2>3. \A i \in D : q[i] \in S
    BY <2>1, ElementOfSeq
  <2>4. \A i \in D : PointsOf(q[i]) \in Int
    BY <2>3 DEF PointsOf
  <2> QED BY <2>1, <2>2, <2>4
<1>2. \A s \in SUBSET D : s # {} => Max(s) \in D /\ s \ {Max(s)} \in SUBSET D
                                    /\ Max(s) \in s
  BY <1>1, MaxIsGreatest
<1> DEFINE op == [p \in Int \X D |-> p[1] + PointsOf(q[p[2]])]
<1>3. op \in [Int \X D -> Int]
  BY <1>1
<1>4. PICK g : IsFold(n, Int, 0, op, g)
  <2>1. n \in Nat /\ 0 \in Int /\ op \in [Int \X (1..n) -> Int]
    BY <1>1, <1>3
  <2> HIDE DEF op, n
  <2> QED BY <2>1, FoldExists
<1>5. g \in [SUBSET D -> Int] /\ \A s \in SUBSET D : g[s] = FoldStep(0, op, g, s)
  BY <1>4 DEF IsFold
<1> HIDE DEF D
<1>6. \A s \in SUBSET D : g[s] = PointsStep(q, g, s)
  <2> SUFFICES ASSUME NEW s \in SUBSET D, s # {}
               PROVE  g[s] = g[s \ {Max(s)}] + PointsOf(q[Max(s)])
    BY <1>5 DEF FoldStep, PointsStep
  <2>1. g[s \ {Max(s)}] \in Int /\ Max(s) \in D
    BY <1>2, <1>5
  <2>2. g[s] = op[<<g[s \ {Max(s)}], Max(s)>>]
    BY <1>5 DEF FoldStep
  <2> QED BY <2>1, <2>2
<1>7. g = [s \in SUBSET DOMAIN q |-> PointsStep(q, g, s)]
  BY <1>1, <1>5, <1>6
<1> DEFINE G == PointsTable(q)
<1>8. G = [s \in SUBSET DOMAIN q |-> PointsStep(q, G, s)]
  BY <1>7 DEF PointsTable
<1> HIDE DEF G
<1>9. \A s \in SUBSET D : G[s] = PointsStep(q, G, s)
  BY <1>1, <1>8
<1> DEFINE B == {s \in SUBSET D : G[s] \notin Int}
<1>10. B = {}
  <2> SUFFICES ASSUME B # {} PROVE FALSE
    OBVIOUS
  <2>1. PICK s \in B : \A t \in B : t \subseteq s => t = s
    <3>1. B \in SUBSET SUBSET D
      OBVIOUS
    <3> HIDE DEF B
    <3> QED BY <1>1, <3>1, SmallestSet
  <2>4. s \in SUBSET D /\ G[s] \notin Int
    OBVIOUS
  <2>2. CASE s = {}
    <3>1. G[s] = 0
      BY <1>9, <2>2, <2>4 DEF PointsStep
    <3> QED BY <2>4, <3>1
  <2>3. CASE s # {}
    <3>1. s \ {Max(s)} \in SUBSET D /\ s \ {Max(s)} # s /\ Max(s) \in D
      BY <1>2, <2>3
    <3>2. G[s \ {Max(s)}] \in Int
      BY <2>1, <3>1
    <3>3. G[s] = G[s \ {Max(s)}] + PointsOf(q[Max(s)])
      BY <1>9, <2>3 DEF PointsStep
    <3> QED BY <1>1, <3>1, <3>2, <3>3
  <2> QED BY <2>2, <2>3
<1>11. G[D] \in Int
  BY <1>10
<1>12. D = {} => G[D] = 0
  BY <1>9 DEF PointsStep
<1>13. q = <<>> => D = {}
  BY <1>1
<1> QED BY <1>1, <1>11, <1>12, <1>13, SumOfPointsIs DEF G

-----------------------------------------------------------------------------
(* The chain of links *)

\* The fold over the steps as a table of its parts.
Linked(chain, components, t) ==
    IF components[t] = None THEN chain
    ELSE Append(chain, [type |-> t, data |-> components[t],
                        previous |-> IF chain = <<>> THEN Genesis
                                     ELSE Last(chain).data])
ChainStep(components, g, s) ==
    IF s = {} THEN <<>> ELSE Linked(g[s \ {Max(s)}], components, LinkTypes[Max(s)])
ChainTable(components) ==
    CHOOSE g : g = [s \in SUBSET DOMAIN LinkTypes |-> ChainStep(components, g, s)]

\* CreateChain() is that fold.
LEMMA CreateChainIs ==
  ASSUME NEW components
  PROVE  CreateChain(components) = ChainTable(components)[DOMAIN LinkTypes]
  BY ZenonT(60) DEF CreateChain, ChainTable, ChainStep, Linked, FoldLeft, MapThenFoldSet

Links(components) ==
    LET types == {LinkTypes[i] : i \in 1..7}
        data == {components[t] : t \in types}
    IN  [type : types, data : data, previous : data \cup {Genesis}]

Unbroken(components) == {c \in Seq(Links(components)) : BrokenLinks(c) = {}}

\* A link that names what the last one is of breaks no chain.
LEMMA LinkedIsUnbroken ==
  ASSUME NEW components, NEW i \in 1..7, NEW chain \in Unbroken(components)
  PROVE  Linked(chain, components, LinkTypes[i]) \in Unbroken(components)
<1> DEFINE t == LinkTypes[i]
<1> DEFINE link == [type |-> t, data |-> components[t],
                    previous |-> IF chain = <<>> THEN Genesis ELSE Last(chain).data]
<1> DEFINE S == Links(components)
<1>1. chain \in Seq(S) /\ BrokenLinks(chain) = {} /\ Len(chain) \in Nat
      /\ \A j \in 1..Len(chain) : chain[j] \in S
  BY LenProperties, ElementOfSeq DEF Unbroken
<1>2. \A l \in S : l.data \in {components[LinkTypes[j]] : j \in 1..7}
  BY DEF Links
<1>3. link \in S
  <2>1. chain # <<>> => Len(chain) \in 1..Len(chain) /\ Last(chain) = chain[Len(chain)]
    BY <1>1, EmptySeq DEF Last
  <2>2. link.previous \in {components[LinkTypes[j]] : j \in 1..7} \cup {Genesis}
    BY <1>1, <1>2, <2>1
  <2> HIDE DEF S
  <2> QED BY <2>2 DEF Links, S
<1> DEFINE new == Append(chain, link)
<1>4. /\ new \in Seq(S) /\ Len(new) = Len(chain) + 1 /\ new[Len(chain) + 1] = link
      /\ \A j \in 1..Len(chain) : new[j] = chain[j]
  <2> HIDE DEF S, link
  <2> QED BY <1>1, <1>3, AppendProperties
<1>5. link.previous = IF Len(chain) = 0 THEN Genesis ELSE chain[Len(chain)].data
  BY <1>1, EmptySeq DEF Last
<1> HIDE DEF new, link, S
<1>6. \A j \in 1..Len(chain) :
         chain[j].previous = IF j = 1 THEN Genesis ELSE chain[j - 1].data
  BY <1>1 DEF BrokenLinks
<1>7. \A j \in 1..Len(new) :
         new[j].previous = IF j = 1 THEN Genesis ELSE new[j - 1].data
  <2> SUFFICES ASSUME NEW j \in 1..Len(new)
               PROVE  new[j].previous = IF j = 1 THEN Genesis ELSE new[j - 1].data
    OBVIOUS
  <2>1. CASE j = Len(chain) + 1
    <3>1. j = 1 \/ (Len(chain) # 0 /\ j - 1 = Len(chain) /\ Len(chain) \in 1..Len(chain)
                    /\ j # 1)
      BY <1>1, <2>1
    <3>2. j = 1 => Len(chain) = 0
      BY <1>1, <2>1
    <3> QED BY <1>4, <1>5, <2>1, <3>1, <3>2
  <2>2. CASE j # Len(chain) + 1
    <3>1. j \in 1..Len(chain) /\ (j # 1 => j - 1 \in 1..Len(chain))
      BY <1>1, <1>4, <2>2
    <3> QED BY <1>4, <1>6, <3>1
  <2> QED BY <2>1, <2>2
<1>8. BrokenLinks(new) = {}
  BY <1>7 DEF BrokenLinks
<1>9. new \in Unbroken(components)
  BY <1>4, <1>8 DEF Unbroken, S
<1> QED BY <1>9 DEF Linked, new, link

\* A chain that was just made is not found to be tampered with.
LEMMA CreatedIsUnbroken ==
  ASSUME NEW components
  PROVE  VerifyChain(CreateChain(components)) # "tampered"
<1> DEFINE V == Unbroken(components)
<1> DEFINE D == 1..7
<1>1. DOMAIN LinkTypes = D
  BY DEF LinkTypes
<1>2. IsFiniteSet(D) /\ \A s \in SUBSET D : s # {} =>
         Max(s) \in D /\ s \ {Max(s)} \in SUBSET D /\ Max(s) \in s
  <2>1. 7 \in Nat /\ 1 \in Int /\ 7 \in Int
    OBVIOUS
  <2>2. IsFiniteSet(D)
    BY <2>1, FS_Interval
  <2>3. \A s \in SUBSET (1..7) : s # {} => Max(s) \in s
    BY <2>1, MaxIsGreatest
  <2> QED BY <2>2, <2>3
<1>3. <<>> \in V
  <2>1. <<>> \in Seq(Links(components)) /\ Len(<<>>) = 0
    OBVIOUS
  <2> QED BY <2>1 DEF BrokenLinks, Unbroken
<1> DEFINE op == [p \in V \X D |-> Linked(p[1], components, LinkTypes[p[2]])]
<1>4. op \in [V \X D -> V]
  BY LinkedIsUnbroken
<1> HIDE DEF V
<1>5. PICK g : IsFold(7, V, <<>>, op, g)
  <2> HIDE DEF op
  <2> QED BY <1>3, <1>4, FoldExists
<1>6. g \in [SUBSET D -> V] /\ \A s \in SUBSET D : g[s] = FoldStep(<<>>, op, g, s)
  BY <1>5 DEF IsFold
<1> HIDE DEF D
<1>7. \A s \in SUBSET D : g[s] = ChainStep(components, g, s)
  <2> SUFFICES ASSUME NEW s \in SUBSET D, s # {}
               PROVE  g[s] = Linked(g[s \ {Max(s)}], components, LinkTypes[Max(s)])
    BY <1>6 DEF FoldStep, ChainStep
  <2>1. g[s \ {Max(s)}] \in V /\ Max(s) \in D
    BY <1>2, <1>6
  <2>2. g[s] = op[<<g[s \ {Max(s)}], Max(s)>>]
    BY <1>6 DEF FoldStep
  <2> QED BY <2>1, <2>2
<1>8. g = [s \in SUBSET DOMAIN LinkTypes |-> ChainStep(components, g, s)]
  BY <1>1, <1>6, <1>7
<1> DEFINE G == ChainTable(components)
<1>9. G = [s \in SUBSET DOMAIN LinkTypes |-> ChainStep(components, G, s)]
  BY <1>8 DEF ChainTable
<1> HIDE DEF G
<1>10. \A s \in SUBSET D : G[s] = ChainStep(components, G, s)
  BY <1>1, <1>9
<1> DEFINE B == {s \in SUBSET D : G[s] \notin V}
<1>11. B = {}
  <2> SUFFICES ASSUME B # {} PROVE FALSE
    OBVIOUS
  <2>1. PICK s \in B : \A t \in B : t \subseteq s => t = s
    <3>1. B \in SUBSET SUBSET D
      OBVIOUS
    <3> HIDE DEF B
    <3> QED BY <1>2, <3>1, SmallestSet
  <2>2. CASE s = {}
    BY <1>3, <1>10, <2>2 DEF ChainStep
  <2>3. CASE s # {}
    <3>1. s \ {Max(s)} \in SUBSET D /\ s \ {Max(s)} # s /\ Max(s) \in D
      BY <1>2, <2>3
    <3>2. G[s \ {Max(s)}] \in V
      BY <2>1, <3>1
    <3>3. G[s] = Linked(G[s \ {Max(s)}], components, LinkTypes[Max(s)])
      BY <1>10, <2>3 DEF ChainStep
    <3>4. G[s] \in V
      <4> HIDE DEF B
      <4> QED BY <3>1, <3>2, <3>3, LinkedIsUnbroken DEF D, V
    <3> QED BY <3>4
  <2> QED BY <2>2, <2>3
<1>12. CreateChain(components) \in Unbroken(components)
  <2>1. G[D] \in V
    BY <1>11
  <2> QED BY <1>1, <2>1, CreateChainIs DEF G, V
<1>13. BrokenLinks(CreateChain(components)) = {}
  BY <1>12 DEF Unbroken
<1> QED BY <1>13 DEF VerifyChain

-----------------------------------------------------------------------------
(* Capabilities and techniques *)

\* Sets that are made of single members stay finite.
LEMMA SmallSets ==
  /\ \A S, T : IsFiniteSet(S) /\ IsFiniteSet(T) => IsFiniteSet(S \cup T)
  /\ \A c, S : IsFiniteSet(S) => IsFiniteSet(When(c, S))
  /\ \A i, n : IsFiniteSet(Technique(i, n)) /\ IsFiniteSet(Capability(i, n))
<1>1. \A S, T : IsFiniteSet(S) /\ IsFiniteSet(T) => IsFiniteSet(S \cup T)
  BY FS_Union
<1>2. \A c, S : IsFiniteSet(S) => IsFiniteSet(When(c, S))
  BY FS_EmptySet DEF When
<1>3. \A i, n : IsFiniteSet(Technique(i, n)) /\ IsFiniteSet(Capability(i, n))
  BY FS_Singleton DEF Technique, Capability
<1> QED BY <1>1, <1>2, <1>3

\* What the rules find is finite.
LEMMA FoundIsFinite ==
  ASSUME NEW s, NEW d
  PROVE  IsFiniteSet(MapToMitre(s, d)) /\ IsFiniteSet(ClassifyCapabilities(s, d))
<1>1. IsFiniteSet(MapToMitre(s, d))
  <2>1. /\ IsFiniteSet(SmsAccess(s, d)) /\ IsFiniteSet(C2Comms(s, d))
        /\ IsFiniteSet(OverlayUi(s)) /\ IsFiniteSet(DeviceAdminAbuse(d))
        /\ IsFiniteSet(LocationTracking(s, d)) /\ IsFiniteSet(DataExfil(d))
        /\ IsFiniteSet(RegistryPersistence(d)) /\ IsFiniteSet(Keylogging(s, d))
        /\ IsFiniteSet(CronPersistence(d)) /\ IsFiniteSet(LaunchdPersistence(d))
        /\ IsFiniteSet(LdPreloadHijack(s, d)) /\ IsFiniteSet(SetuidEscalation(s, d))
        /\ IsFiniteSet(ReverseShell(d))
    BY SmallSets DEF SmsAccess, C2Comms, OverlayUi, DeviceAdminAbuse, LocationTracking,
       DataExfil, RegistryPersistence, Keylogging, CronPersistence, LaunchdPersistence,
       LdPreloadHijack, SetuidEscalation, ReverseShell
  <2> QED BY <2>1, SmallSets DEF MapToMitre
<1>2. IsFiniteSet(ClassifyCapabilities(s, d))
  <2>1. /\ IsFiniteSet(SmsOtpTheft(s, d)) /\ IsFiniteSet(GpsTracking(s, d))
        /\ IsFiniteSet(OverlayPhishing(s)) /\ IsFiniteSet(UninstallResistance(d))
        /\ IsFiniteSet(DataExfiltration(s, d)) /\ IsFiniteSet(KeyloggingCapability(s, d))
        /\ IsFiniteSet(Persistence(d)) /\ IsFiniteSet(PrivilegeEscalation(s, d))
        /\ IsFiniteSet(RemoteShell(d)) /\ IsFiniteSet(LibraryHijack(s, d))
    BY SmallSets, ZenonT(30) DEF SmsOtpTheft, GpsTracking, OverlayPhishing, UninstallResistance,
       DataExfiltration, KeyloggingCapability, Persistence, PrivilegeEscalation,
       RemoteShell, LibraryHijack
  <2> QED BY <2>1, SmallSets DEF ClassifyCapabilities
<1> QED BY <1>1, <1>2

CapabilityNames ==
    {"sms_otp_theft", "gps_tracking", "overlay_phishing", "uninstall_resistance",
     "data_exfiltration", "keylogging", "persistence_registry", "persistence_cron",
     "persistence_launchd", "privilege_escalation", "remote_shell_access",
     "library_hijacking"}

Capabilities == [name : CapabilityNames, confidence : 0..100]

\* A capability has a confidence of at most 100.
LEMMA CapabilityIs ==
  \A name \in CapabilityNames, n \in Nat : \A c :
     When(c, Capability(name, n)) \subseteq Capabilities
  BY DEF When, Capability, Capabilities, AtMost

\* What the weights of findings come to.
LEMMA WeightsAreNat ==
  /\ \A c, n \in Nat : Weight(c, n) \in Nat
  /\ \A b, c : \A m, n \in Nat : Weight(b, m) + Weight(c, n) \in Nat
  /\ \A b, c, d : \A m, n, p \in Nat : Weight(b, m) + Weight(c, n) + Weight(d, p) \in Nat
  BY DEF Weight

\* So have all that are found.
LEMMA FoundAreCapabilities ==
  ASSUME NEW s, NEW d
  PROVE  ClassifyCapabilities(s, d) \subseteq Capabilities
<1>1. SmsOtpTheft(s, d) \subseteq Capabilities
  <2> DEFINE n == Weight("READ_SMS" \in s.permissions, 40)
                 + Weight(\E y \in s.yara : y.category = "india_scam_rules", 30)
                 + Weight(SmsCalls(d), 30)
  <2>1. n \in Nat
    BY WeightsAreNat
  <2> HIDE DEF n
  <2>2. "sms_otp_theft" \in CapabilityNames
    BY DEF CapabilityNames
  <2>3. When(n >= 40, Capability("sms_otp_theft", n)) \subseteq Capabilities
    BY <2>1, <2>2, CapabilityIs, Zenon
  <2> QED BY <2>3 DEF SmsOtpTheft, n
<1>2. GpsTracking(s, d) \subseteq Capabilities
  <2> DEFINE n == Weight("LOCATION" \in s.permissions, 40)
                  + Weight("LocationManager" \in d.apis, 40)
  <2>1. n \in Nat
    BY WeightsAreNat
  <2> HIDE DEF n
  <2>2. "gps_tracking" \in CapabilityNames
    BY DEF CapabilityNames
  <2>3. When(n >= 40, Capability("gps_tracking", n)) \subseteq Capabilities
    BY <2>1, <2>2, CapabilityIs, Zenon
  <2> QED BY <2>3 DEF GpsTracking, n
<1>3. DataExfiltration(s, d) \subseteq Capabilities
  <2> DEFINE n == Weight(s.urls # {} \/ s.ips # {}, 30)
                  + Weight(FlaggedC2(d), 50) + Weight(Beaconing(d), 20)
  <2>1. n \in Nat
    BY WeightsAreNat
  <2> HIDE DEF n
  <2>2. "data_exfiltration" \in CapabilityNames
    BY DEF CapabilityNames
  <2>3. When(n >= 30, Capability("data_exfiltration", n)) \subseteq Capabilities
    BY <2>1, <2>2, CapabilityIs, Zenon
  <2> QED BY <2>3 DEF DataExfiltration, n
<1>4. KeyloggingCapability(s, d) \subseteq Capabilities
  <2> DEFINE n == Weight(KeyboardCalls(d), 60) + Weight("keylog" \in s.keywords, 30)
  <2>1. n \in Nat
    BY WeightsAreNat
  <2> HIDE DEF n
  <2>2. "keylogging" \in CapabilityNames
    BY DEF CapabilityNames
  <2>3. When(n >= 30, Capability("keylogging", n)) \subseteq Capabilities
    BY <2>1, <2>2, CapabilityIs, Zenon
  <2> QED BY <2>3 DEF KeyloggingCapability, n
<1>5. /\ \A c : When(c, Capability("overlay_phishing", 65)) \subseteq Capabilities
      /\ \A c : When(c, Capability("uninstall_resistance", 80)) \subseteq Capabilities
      /\ \A c : When(c, Capability("remote_shell_access", 80)) \subseteq Capabilities
      /\ \A c : When(c, Capability("persistence_registry", 85)) \subseteq Capabilities
      /\ \A c : When(c, Capability("persistence_cron", 85)) \subseteq Capabilities
      /\ \A c : When(c, Capability("persistence_launchd", 85)) \subseteq Capabilities
      /\ \A c, b : When(c, Capability("privilege_escalation", IF b THEN 80 ELSE 50))
                     \subseteq Capabilities
      /\ \A c, b : When(c, Capability("library_hijacking", IF b THEN 75 ELSE 50))
                     \subseteq Capabilities
  BY DEF When, Capability, Capabilities, CapabilityNames, AtMost
<1>6. /\ OverlayPhishing(s) \subseteq Capabilities
      /\ UninstallResistance(d) \subseteq Capabilities
      /\ RemoteShell(d) \subseteq Capabilities
      /\ Persistence(d) \subseteq Capabilities
  <2>1. Persistence(d) \subseteq Capabilities
    BY <1>5 DEF Persistence
  <2>2. OverlayPhishing(s) \subseteq Capabilities
    BY <1>5, Zenon DEF OverlayPhishing
  <2>3. UninstallResistance(d) \subseteq Capabilities
    BY <1>5, Zenon DEF UninstallResistance
  <2>4. RemoteShell(d) \subseteq Capabilities
    BY <1>5, ZenonT(30) DEF RemoteShell
  <2> QED BY <2>1, <2>2, <2>3, <2>4
<1>7. /\ PrivilegeEscalation(s, d) \subseteq Capabilities
      /\ LibraryHijack(s, d) \subseteq Capabilities
  BY <1>5, ZenonT(30) DEF PrivilegeEscalation, LibraryHijack
<1> QED BY <1>1, <1>2, <1>3, <1>4, <1>6, <1>7 DEF ClassifyCapabilities

-----------------------------------------------------------------------------
(* The score *)

\* What each capability is worth.
Worth(S) == [c \in S |-> (c.confidence * 15) \div 100]

CapabilityStep(g, s) ==
    IF s = {} THEN 0 ELSE (Some(s).confidence * 15) \div 100 + g[s \ {Some(s)}]

\* CapabilityPoints() is a sum.
LEMMA CapabilityPointsIsSum ==
  ASSUME NEW S
  PROVE  CapabilityPoints(S) = Sum(Worth(S), S)
<1> DEFINE f == Worth(S)
<1>1. CapabilityPoints(S) = (CHOOSE g : g = [s \in SUBSET S |-> CapabilityStep(g, s)])[S]
  BY ZenonT(60) DEF CapabilityPoints, MapThenSumSet, MapThenFoldSet, CapabilityStep, Some
<1>2. \A g : \A s \in SUBSET S : CapabilityStep(g, s) = SumStep(f, g, s)
  <2>1. \A s \in SUBSET S : s # {} => Some(s) \in S
    BY SomeIsIn
  <2> QED BY <2>1 DEF CapabilityStep, SumStep, Worth
<1>3. \A g : [s \in SUBSET S |-> CapabilityStep(g, s)] = [s \in SUBSET S |-> SumStep(f, g, s)]
  BY <1>2
<1> HIDE DEF f
<1>4. \A g : g = [s \in SUBSET S |-> CapabilityStep(g, s)] <=> IsSums(f, g, S)
  BY <1>3 DEF IsSums
<1>5. (CHOOSE g : g = [s \in SUBSET S |-> CapabilityStep(g, s)]) = Sums(f, S)
  BY <1>4, Zenon DEF Sums
<1> QED BY <1>1, <1>5 DEF Sum, f

\* It is a natural number.
LEMMA CapabilityPointsIsNat ==
  ASSUME NEW S \in SUBSET Capabilities, IsFiniteSet(S)
  PROVE  CapabilityPoints(S) \in Nat /\ \A c \in S : Worth(S)[c] \in Nat
<1>1. \A c \in S : c.confidence \in 0..100
  BY DEF Capabilities
<1>2. \A n \in 0..100 : (n * 15) \div 100 \in Nat
  OBVIOUS
<1>3. \A c \in S : Worth(S)[c] \in Nat
  BY <1>1, <1>2 DEF Worth
<1> QED BY <1>3, SumIsNat, CapabilityPointsIsSum

RowPoints(S) == [row \in S |-> row.points]

RowStep(g, s) == IF s = {} THEN 0 ELSE Some(s).points + g[s \ {Some(s)}]

Detected(d) == {row \in BonusTable : row.rules \cap {c.rule : c \in ToSet(d.chains)} # {}}

\* The bonuses are a natural number.
LEMMA BonusesAreNat ==
  ASSUME NEW d
  PROVE  SpecialDetectionBonuses(d) \in Nat
<1> DEFINE S == Detected(d)
<1> DEFINE f == RowPoints(S)
<1>1. SpecialDetectionBonuses(d) = (CHOOSE g : g = [s \in SUBSET S |-> RowStep(g, s)])[S]
  BY ZenonT(60) DEF SpecialDetectionBonuses, MapThenSumSet, MapThenFoldSet, RowStep, Some,
     Detected
<1>2. IsFiniteSet(S) /\ \A row \in S : row.points \in Nat
  <2>1. IsFiniteSet(BonusTable)
    <3>1. \A S1, x : IsFiniteSet(S1) => IsFiniteSet(S1 \cup {x})
      BY FS_AddElement
    <3>2. \A a, b, c, d1, e, f1, g, h, i, j, k, l :
             IsFiniteSet({a, b, c, d1, e, f1, g, h, i, j, k, l})
      <4> SUFFICES ASSUME NEW a, NEW b, NEW c, NEW d1, NEW e, NEW f1, NEW g, NEW h,
                          NEW i, NEW j, NEW k, NEW l
                   PROVE  IsFiniteSet({a, b, c, d1, e, f1, g, h, i, j, k, l})
        OBVIOUS
      <4>1. IsFiniteSet({}) /\ IsFiniteSet({} \cup {a} \cup {b} \cup {c} \cup {d1} \cup {e} \cup {f1}
                        \cup {g} \cup {h} \cup {i} \cup {j} \cup {k} \cup {l})
        BY <3>1, FS_EmptySet
      <4>2. {} \cup {a} \cup {b} \cup {c} \cup {d1} \cup {e} \cup {f1}
                        \cup {g} \cup {h} \cup {i} \cup {j} \cup {k} \cup {l}
              = {a, b, c, d1, e, f1, g, h, i, j, k, l}
        OBVIOUS
      <4> QED BY <4>1, <4>2
    <3> QED BY <3>2, ZenonT(30) DEF BonusTable
  <2>2. S \in SUBSET BonusTable
    BY DEF Detected
  <2>3. \A row \in BonusTable : row.points \in Nat
    BY DEF BonusTable
  <2> HIDE DEF S
  <2> QED BY <2>1, <2>2, <2>3, FS_Subset
<1> HIDE DEF S
<1>3. \A g : \A s \in SUBSET S : RowStep(g, s) = SumStep(f, g, s)
  <2>1. \A s \in SUBSET S : s # {} => Some(s) \in S
    BY SomeIsIn
  <2> QED BY <2>1 DEF RowStep, SumStep, RowPoints
<1>4. \A g : [s \in SUBSET S |-> RowStep(g, s)] = [s \in SUBSET S |-> SumStep(f, g, s)]
  BY <1>3
<1>5. \A row \in S : f[row] \in Nat
  BY <1>2 DEF RowPoints
<1> HIDE DEF f
<1>6. \A g : g = [s \in SUBSET S |-> RowStep(g, s)] <=> IsSums(f, g, S)
  BY <1>4 DEF IsSums
<1>7. (CHOOSE g : g = [s \in SUBSET S |-> RowStep(g, s)]) = Sums(f, S)
  BY <1>6, Zenon DEF Sums
<1>8. SpecialDetectionBonuses(d) = Sum(f, S)
  BY <1>1, <1>7 DEF Sum
<1> QED BY <1>2, <1>5, <1>8, SumIsNat

\* The parts of the score that its explanation names.
Parts(yara, techniques, capabilities) ==
    15 * Cardinality(yara) + 8 * Cardinality(techniques) + CapabilityPoints(capabilities)

\* A score is at least what its parts come to, if it is not cut off at 100.
Covers(risk, yara, techniques, capabilities) ==
    Parts(yara, techniques, capabilities) <= risk \/ risk = 100

\* A score is between 0 and 100, and covers its parts when no chain was seen.
LEMMA ScoreInRange ==
  ASSUME NEW s, IsFiniteSet(s.yara), NEW d, NEW S, d.chains \in Seq(S),
         \A c \in S : c.points \in Int,
         NEW techniques, IsFiniteSet(techniques),
         NEW capabilities \in SUBSET Capabilities, IsFiniteSet(capabilities)
  PROVE  /\ RiskScore(s, d, techniques, capabilities) \in 0..100
         /\ Parts(s.yara, techniques, capabilities) \in Nat
         /\ d.chains = <<>> => Covers(RiskScore(s, d, techniques, capabilities), s.yara,
                                      techniques, capabilities)
<1>1. Cardinality(s.yara) \in Nat /\ Cardinality(techniques) \in Nat
  BY FS_CardinalityType
<1>2. CapabilityPoints(capabilities) \in Nat /\ SpecialDetectionBonuses(d) \in Nat
  BY CapabilityPointsIsNat, BonusesAreNat
<1>3. BehaviorChainScore(d) \in Int /\ (d.chains = <<>> => BehaviorChainScore(d) >= 0)
  <2>1. SumOfPoints(d.chains) \in Int /\ (d.chains = <<>> => SumOfPoints(d.chains) = 0)
    BY SumOfPointsIsInt
  <2> QED BY <2>1 DEF BehaviorChainScore
<1> DEFINE parts == Parts(s.yara, techniques, capabilities)
           others == (IF s.ml = "likely_malicious" THEN 20 ELSE 0)
                     + (IF FlaggedC2(d) THEN 20 ELSE 0)
                     + (IF "DevicePolicyManager" \in d.apis THEN 10 ELSE 0)
<1>4. parts \in Nat /\ others \in Nat
  BY <1>1, <1>2 DEF Parts
<1>5. RiskScore(s, d, techniques, capabilities)
        = AtLeast(AtMost(parts + others + BehaviorChainScore(d) + SpecialDetectionBonuses(d),
                         100), 0)
  <2> DEFINE a1 == Cardinality(s.yara)
             a2 == Cardinality(techniques)
             a3 == CapabilityPoints(capabilities)
             a4 == IF s.ml = "likely_malicious" THEN 20 ELSE 0
             a5 == IF FlaggedC2(d) THEN 20 ELSE 0
             a6 == IF "DevicePolicyManager" \in d.apis THEN 10 ELSE 0
             a7 == BehaviorChainScore(d)
             a8 == SpecialDetectionBonuses(d)
             sum == a1 * 15 + a2 * 8 + a3 + a4 + a5 + a6 + a7 + a8
  <2>1. /\ a1 \in Nat /\ a2 \in Nat /\ a3 \in Nat /\ a4 \in Nat /\ a5 \in Nat /\ a6 \in Nat
        /\ a7 \in Int /\ a8 \in Nat
    BY <1>1, <1>2, <1>3
  <2>2. RiskScore(s, d, techniques, capabilities) = AtLeast(AtMost(sum, 100), 0)
    BY DEF RiskScore
  <2>3. parts = 15 * a1 + 8 * a2 + a3 /\ others = a4 + a5 + a6
    BY DEF Parts
  <2> HIDE DEF parts, others
  <2>4. sum = parts + others + a7 + a8
    <3> HIDE DEF a1, a2, a3, a4, a5, a6, a7, a8
    <3> QED BY <2>1, <2>3
  <2> HIDE DEF sum
  <2> QED BY <2>2, <2>4
<1> DEFINE risk == RiskScore(s, d, techniques, capabilities)
<1> HIDE DEF parts, others, risk
<1>6. risk = AtLeast(AtMost(parts + others + BehaviorChainScore(d)
                            + SpecialDetectionBonuses(d), 100), 0)
  BY <1>5 DEF risk
<1>7. risk \in 0..100 /\ (d.chains = <<>> => parts <= risk \/ risk = 100)
  <2> DEFINE n == BehaviorChainScore(d)
             b == SpecialDetectionBonuses(d)
  <2>1. n \in Int /\ b \in Nat /\ (d.chains = <<>> => n >= 0)
    BY <1>2, <1>3
  <2>2. risk = AtLeast(AtMost(parts + others + n + b, 100), 0)
    BY <1>6
  <2> HIDE DEF n, b
  <2>3. parts \in Nat /\ others \in Nat
    BY <1>4
  <2> DEFINE sum == parts + others + n + b
  <2>4. sum \in Int /\ (n >= 0 => parts <= sum)
    BY ONLY <2>1, <2>3
  <2>5. risk = AtLeast(AtMost(sum, 100), 0)
    BY <2>2
  <2> HIDE DEF sum
  <2>6. risk = (IF sum > 100 THEN 100 ELSE IF sum < 0 THEN 0 ELSE sum)
    BY ONLY <2>4, <2>5 DEF AtMost, AtLeast
  <2>7. risk \in 0..100
    BY ONLY <2>4, <2>6
  <2>8. n >= 0 => parts <= risk \/ risk = 100
    BY ONLY <2>3, <2>4, <2>6
  <2> QED BY <2>1, <2>7, <2>8
<1> QED BY <1>4, <1>7 DEF parts, risk, Covers

-----------------------------------------------------------------------------
(* Less evidence *)

\* Static evidence w says nothing that s does not say.
Weaker(w, s) ==
    /\ w.yara \subseteq s.yara /\ w.permissions \subseteq s.permissions
    /\ w.imports \subseteq s.imports /\ w.urls \subseteq s.urls
    /\ w.ips \subseteq s.ips /\ w.flags \subseteq s.flags
    /\ w.keywords = s.keywords /\ w.ml = s.ml

\* In e nothing was seen that was not seen in d, but the same chains.
Quieter(e, d) ==
    /\ e.apis \subseteq d.apis /\ e.files \subseteq d.files
    /\ e.registry \subseteq d.registry /\ e.artifacts \subseteq d.artifacts
    /\ e.processes \subseteq d.processes
    /\ FlaggedC2(e) => FlaggedC2(d)
    /\ Beaconing(e) => Beaconing(d)
    /\ Connected(e) => Connected(d)
    /\ e.chains = d.chains

\* What the rules look for is there when it is in less evidence.
LEMMA SignsGrow ==
  ASSUME NEW w, NEW s, Weaker(w, s), NEW e, NEW d, Quieter(e, d)
  PROVE  /\ SmsPermission(w) => SmsPermission(s)
         /\ SmsCalls(e) => SmsCalls(d)
         /\ KeyboardCalls(e) => KeyboardCalls(d)
         /\ AutostartKey(e) => AutostartKey(d)
         /\ Shell(e) => Shell(d)
         /\ Preload(w) <=> Preload(s)
         /\ FlaggedC2(e) => FlaggedC2(d)
         /\ Beaconing(e) => Beaconing(d)
         /\ Connected(e) => Connected(d)
         /\ "hardcoded_c2_ip" \in w.flags => "hardcoded_c2_ip" \in s.flags
         /\ \A p : p \in w.permissions => p \in s.permissions
         /\ \A p : p \in e.apis => p \in d.apis
         /\ \A p : p \in w.imports \cup e.apis => p \in s.imports \cup d.apis
         /\ \A p : p \in e.artifacts => p \in d.artifacts
         /\ e.files # {} => d.files # {}
         /\ w.urls # {} \/ w.ips # {} => s.urls # {} \/ s.ips # {}
         /\ (\E y \in w.yara : y.category = "india_scam_rules")
              => \E y \in s.yara : y.category = "india_scam_rules"
  BY DEF Weaker, Quieter, SmsPermission, SmsCalls, KeyboardCalls, AutostartKey, Shell, Preload

-----------------------------------------------------------------------------
(* Techniques *)

\* A rule of one technique, of which the one set has no member without the other.
Rules(S, T, id) ==
    /\ S = {} \/ \E m : S = Technique(id, m)
    /\ T = {} \/ \E n : T = Technique(id, n)
    /\ S # {} => T # {}

\* Its technique has its id, and is found again.
LEMMA RuleIs ==
  \A S, T, id : Rules(S, T, id) =>
     /\ \A x \in S : x.id = id /\ \A y \in S : y = x
     /\ \A x \in S : \E y \in T : y.id = id
  BY DEF Rules, Technique

\* Less evidence shows no more techniques.
LEMMA TechniquesGrow ==
  ASSUME NEW w, NEW s, Weaker(w, s), NEW e, NEW d, Quieter(e, d)
  PROVE  Cardinality(MapToMitre(w, e)) <= Cardinality(MapToMitre(s, d))
<1> DEFINE S == MapToMitre(w, e)
           T == MapToMitre(s, d)
<1>1. /\ Rules(SmsAccess(w, e), SmsAccess(s, d), "T1517")
      /\ Rules(C2Comms(w, e), C2Comms(s, d), "T1071")
      /\ Rules(OverlayUi(w), OverlayUi(s), "T1417")
      /\ Rules(DeviceAdminAbuse(e), DeviceAdminAbuse(d), "T1626")
      /\ Rules(LocationTracking(w, e), LocationTracking(s, d), "T1430")
      /\ Rules(DataExfil(e), DataExfil(d), "T1005")
      /\ Rules(RegistryPersistence(e), RegistryPersistence(d), "T1547.001")
  <2>1. Rules(SmsAccess(w, e), SmsAccess(s, d), "T1517")
    <3> DEFINE m == IF SmsPermission(w) /\ SmsCalls(e) THEN 90 ELSE 70
               n == IF SmsPermission(s) /\ SmsCalls(d) THEN 90 ELSE 70
    <3>1. SmsAccess(w, e) = When(SmsPermission(w) \/ SmsCalls(e), Technique("T1517", m))
      BY DEF SmsAccess
    <3>2. SmsAccess(s, d) = When(SmsPermission(s) \/ SmsCalls(d), Technique("T1517", n))
      BY DEF SmsAccess
    <3> HIDE DEF m, n
    <3> QED BY <3>1, <3>2, SignsGrow DEF Rules, When, Technique
  <2>2. Rules(C2Comms(w, e), C2Comms(s, d), "T1071")
    BY SignsGrow, ZenonT(30) DEF C2Comms, Rules, When, Technique
  <2>3. Rules(OverlayUi(w), OverlayUi(s), "T1417")
    BY SignsGrow, ZenonT(30) DEF OverlayUi, Rules, When, Technique
  <2>4. Rules(DeviceAdminAbuse(e), DeviceAdminAbuse(d), "T1626")
    BY SignsGrow, ZenonT(30) DEF DeviceAdminAbuse, Rules, When, Technique
  <2>5. Rules(LocationTracking(w, e), LocationTracking(s, d), "T1430")
    BY SignsGrow, ZenonT(30) DEF LocationTracking, Rules, When, Technique
  <2>6. Rules(DataExfil(e), DataExfil(d), "T1005")
    BY SignsGrow, ZenonT(30) DEF DataExfil, Rules, When, Technique
  <2>7. Rules(RegistryPersistence(e), RegistryPersistence(d), "T1547.001")
    BY SignsGrow, ZenonT(30) DEF RegistryPersistence, Rules, When, Technique
  <2> QED BY <2>1, <2>2, <2>3, <2>4, <2>5, <2>6, <2>7
<1>2. /\ Rules(Keylogging(w, e), Keylogging(s, d), "T1056.001")
      /\ Rules(CronPersistence(e), CronPersistence(d), "T1053.003")
      /\ Rules(LaunchdPersistence(e), LaunchdPersistence(d), "T1543.001")
      /\ Rules(LdPreloadHijack(w, e), LdPreloadHijack(s, d), "T1574.006")
      /\ Rules(SetuidEscalation(w, e), SetuidEscalation(s, d), "T1548.001")
      /\ Rules(ReverseShell(e), ReverseShell(d), "T1059")
  <2>1. Rules(Keylogging(w, e), Keylogging(s, d), "T1056.001")
    <3>1. w.keywords = s.keywords
      BY DEF Weaker
    <3> QED BY <3>1, SignsGrow, ZenonT(30) DEF Keylogging, Rules, When, Technique
  <2>2. Rules(CronPersistence(e), CronPersistence(d), "T1053.003")
    BY SignsGrow, ZenonT(30) DEF CronPersistence, Rules, When, Technique
  <2>3. Rules(LaunchdPersistence(e), LaunchdPersistence(d), "T1543.001")
    BY SignsGrow, ZenonT(30) DEF LaunchdPersistence, Rules, When, Technique
  <2>4. Rules(LdPreloadHijack(w, e), LdPreloadHijack(s, d), "T1574.006")
    BY SignsGrow, ZenonT(30) DEF LdPreloadHijack, Rules, When, Technique
  <2>5. Rules(SetuidEscalation(w, e), SetuidEscalation(s, d), "T1548.001")
    BY SignsGrow, ZenonT(30) DEF SetuidEscalation, Rules, When, Technique
  <2>6. Rules(ReverseShell(e), ReverseShell(d), "T1059")
    BY SignsGrow, ZenonT(30) DEF ReverseShell, Rules, When, Technique
  <2> QED BY <2>1, <2>2, <2>3, <2>4, <2>5, <2>6
<1>3. \A x \in S : \E y \in T : y.id = x.id
  BY <1>1, <1>2, RuleIs DEF MapToMitre
<1>4. \A x, y \in S : x.id = y.id => x = y
  BY <1>1, <1>2, RuleIs DEF MapToMitre
<1>5. IsFiniteSet(S) /\ IsFiniteSet(T)
  BY FoundIsFinite
<1> HIDE DEF S, T
<1> DEFINE h == [x \in S |-> CHOOSE y \in T : y.id = x.id]
<1>6. h \in [S -> T] /\ \A x \in S : h[x].id = x.id
  BY <1>3
<1>7. h \in Injection(S, T)
  BY <1>4, <1>6 DEF Injection, IsInjective
<1> HIDE DEF h
<1>8. Cardinality(S) <= Cardinality(T)
  BY <1>5, <1>7, FS_Injection
<1> QED BY <1>8 DEF S, T

-----------------------------------------------------------------------------
(* Capabilities *)

\* A rule of one capability, of which T is as sure as S.
Tags(S, T, name) ==
    /\ \A x \in S : x.name = name /\ \A y \in S : y = x
    /\ \A x \in S : \E y \in T : y.name = name /\ x.confidence <= y.confidence

\* A rule is no less sure when it weighs more.
LEMMA TagGrows ==
  \A name, S, T : \A m, n \in Nat :
     /\ m <= n
     /\ S = {} \/ S = Capability(name, m)
     /\ T = {} \/ T = Capability(name, n)
     /\ S # {} => T # {}
     => Tags(S, T, name)
<1> SUFFICES ASSUME NEW name, NEW S, NEW T, NEW m \in Nat, NEW n \in Nat,
                    m <= n,
                    S = {} \/ S = Capability(name, m),
                    T = {} \/ T = Capability(name, n),
                    S # {} => T # {}
             PROVE  Tags(S, T, name)
  OBVIOUS
<1>1. AtMost(m, 100) <= AtMost(n, 100)
  BY DEF AtMost
<1> QED BY <1>1 DEF Tags, Capability

\* A rule that goes by a score, and finds what weighs enough.
LEMMA ScoreGrows ==
  \A name : \A m, n, k \in Nat :
     m <= n => Tags(When(m >= k, Capability(name, m)), When(n >= k, Capability(name, n)), name)
<1> SUFFICES ASSUME NEW name, NEW m \in Nat, NEW n \in Nat, NEW k \in Nat, m <= n
             PROVE  Tags(When(m >= k, Capability(name, m)), When(n >= k, Capability(name, n)),
                         name)
  OBVIOUS
<1> DEFINE S == When(m >= k, Capability(name, m))
           T == When(n >= k, Capability(name, n))
<1>1. S = {} \/ S = Capability(name, m)
  BY DEF When
<1>2. T = {} \/ T = Capability(name, n)
  BY DEF When
<1>3. S # {} => T # {}
  <2>1. S # {} => m >= k
    BY DEF When
  <2>2. m >= k => n >= k
    OBVIOUS
  <2>3. Capability(name, n) # {}
    BY DEF Capability
  <2>4. n >= k => T = Capability(name, n)
    BY DEF When
  <2> QED BY <2>1, <2>2, <2>3, <2>4
<1> HIDE DEF S, T
<1>4. Tags(S, T, name)
  BY <1>1, <1>2, <1>3, TagGrows
<1> QED BY <1>4 DEF S, T

\* Less evidence weighs less.
LEMMA CapabilityRulesGrow ==
  ASSUME NEW w, NEW s, Weaker(w, s), NEW e, NEW d, Quieter(e, d)
  PROVE  /\ Tags(SmsOtpTheft(w, e), SmsOtpTheft(s, d), "sms_otp_theft")
         /\ Tags(GpsTracking(w, e), GpsTracking(s, d), "gps_tracking")
         /\ Tags(OverlayPhishing(w), OverlayPhishing(s), "overlay_phishing")
         /\ Tags(UninstallResistance(e), UninstallResistance(d), "uninstall_resistance")
         /\ Tags(DataExfiltration(w, e), DataExfiltration(s, d), "data_exfiltration")
         /\ Tags(KeyloggingCapability(w, e), KeyloggingCapability(s, d), "keylogging")
         /\ Tags(PrivilegeEscalation(w, e), PrivilegeEscalation(s, d), "privilege_escalation")
         /\ Tags(RemoteShell(e), RemoteShell(d), "remote_shell_access")
         /\ Tags(LibraryHijack(w, e), LibraryHijack(s, d), "library_hijacking")
<1>1. Tags(SmsOtpTheft(w, e), SmsOtpTheft(s, d), "sms_otp_theft")
  <2> DEFINE m == Weight("READ_SMS" \in w.permissions, 40)
                 + Weight(\E y \in w.yara : y.category = "india_scam_rules", 30)
                 + Weight(SmsCalls(e), 30)
             n == Weight("READ_SMS" \in s.permissions, 40)
                 + Weight(\E y \in s.yara : y.category = "india_scam_rules", 30)
                 + Weight(SmsCalls(d), 30)
  <2>1. m \in Nat /\ n \in Nat /\ m <= n
    BY SignsGrow DEF Weight
  <2>2. /\ SmsOtpTheft(w, e) = When(m >= 40, Capability("sms_otp_theft", m))
        /\ SmsOtpTheft(s, d) = When(n >= 40, Capability("sms_otp_theft", n))
    BY DEF SmsOtpTheft
  <2> HIDE DEF m, n
  <2> QED BY <2>1, <2>2, ScoreGrows
<1>2. Tags(GpsTracking(w, e), GpsTracking(s, d), "gps_tracking")
  <2> DEFINE m == Weight("LOCATION" \in w.permissions, 40)
                  + Weight("LocationManager" \in e.apis, 40)
             n == Weight("LOCATION" \in s.permissions, 40)
                  + Weight("LocationManager" \in d.apis, 40)
  <2>1. m \in Nat /\ n \in Nat /\ m <= n
    BY SignsGrow DEF Weight
  <2>2. /\ GpsTracking(w, e) = When(m >= 40, Capability("gps_tracking", m))
        /\ GpsTracking(s, d) = When(n >= 40, Capability("gps_tracking", n))
    BY DEF GpsTracking
  <2> HIDE DEF m, n
  <2> QED BY <2>1, <2>2, ScoreGrows
<1>3. Tags(DataExfiltration(w, e), DataExfiltration(s, d), "data_exfiltration")
  <2> DEFINE m == Weight(w.urls # {} \/ w.ips # {}, 30)
                  + Weight(FlaggedC2(e), 50) + Weight(Beaconing(e), 20)
             n == Weight(s.urls # {} \/ s.ips # {}, 30)
                  + Weight(FlaggedC2(d), 50) + Weight(Beaconing(d), 20)
  <2>1. m \in Nat /\ n \in Nat /\ m <= n
    BY SignsGrow DEF Weight
  <2>2. /\ DataExfiltration(w, e) = When(m >= 30, Capability("data_exfiltration", m))
        /\ DataExfiltration(s, d) = When(n >= 30, Capability("data_exfiltration", n))
    BY DEF DataExfiltration
  <2> HIDE DEF m, n
  <2> QED BY <2>1, <2>2, ScoreGrows
<1>4. Tags(KeyloggingCapability(w, e), KeyloggingCapability(s, d), "keylogging")
  <2> DEFINE m == Weight(KeyboardCalls(e), 60) + Weight("keylog" \in w.keywords, 30)
             n == Weight(KeyboardCalls(d), 60) + Weight("keylog" \in s.keywords, 30)
  <2>1. w.keywords = s.keywords
    BY DEF Weaker
  <2>2. m \in Nat /\ n \in Nat /\ m <= n
    BY <2>1, SignsGrow DEF Weight
  <2>3. /\ KeyloggingCapability(w, e) = When(m >= 30, Capability("keylogging", m))
        /\ KeyloggingCapability(s, d) = When(n >= 30, Capability("keylogging", n))
    BY DEF KeyloggingCapability
  <2> HIDE DEF m, n
  <2> QED BY <2>2, <2>3, ScoreGrows
<1>5. Tags(OverlayPhishing(w), OverlayPhishing(s), "overlay_phishing")
  BY SignsGrow, TagGrows DEF OverlayPhishing, When, Capability
<1>6. Tags(UninstallResistance(e), UninstallResistance(d), "uninstall_resistance")
  BY SignsGrow, TagGrows DEF UninstallResistance, When, Capability
<1>7. Tags(RemoteShell(e), RemoteShell(d), "remote_shell_access")
  BY SignsGrow, TagGrows DEF RemoteShell, When, Capability
<1>8. Tags(PrivilegeEscalation(w, e), PrivilegeEscalation(s, d), "privilege_escalation")
  <2> DEFINE m == IF "setuid" \in e.apis THEN 80 ELSE 50
             n == IF "setuid" \in d.apis THEN 80 ELSE 50
             S == PrivilegeEscalation(w, e)
             T == PrivilegeEscalation(s, d)
  <2>1. m \in Nat /\ n \in Nat /\ m <= n
    BY SignsGrow
  <2>2. /\ S = When("setuid" \in w.imports \cup e.apis, Capability("privilege_escalation", m))
        /\ T = When("setuid" \in s.imports \cup d.apis, Capability("privilege_escalation", n))
    BY DEF PrivilegeEscalation
  <2> HIDE DEF m, n, S, T
  <2>3. /\ S = {} \/ S = Capability("privilege_escalation", m)
        /\ T = {} \/ T = Capability("privilege_escalation", n)
        /\ S # {} => T # {}
    BY <2>2, SignsGrow DEF When, Capability
  <2>4. Tags(S, T, "privilege_escalation")
    BY <2>1, <2>3, TagGrows
  <2> QED BY <2>4 DEF S, T
<1>9. Tags(LibraryHijack(w, e), LibraryHijack(s, d), "library_hijacking")
  <2> DEFINE m == IF "LD_PRELOAD" \in e.apis THEN 75 ELSE 50
             n == IF "LD_PRELOAD" \in d.apis THEN 75 ELSE 50
             S == LibraryHijack(w, e)
             T == LibraryHijack(s, d)
  <2>1. m \in Nat /\ n \in Nat /\ m <= n
    BY SignsGrow
  <2>2. /\ S = When(Preload(w) \/ "LD_PRELOAD" \in e.apis, Capability("library_hijacking", m))
        /\ T = When(Preload(s) \/ "LD_PRELOAD" \in d.apis, Capability("library_hijacking", n))
    BY DEF LibraryHijack
  <2> HIDE DEF m, n, S, T
  <2>3. /\ S = {} \/ S = Capability("library_hijacking", m)
        /\ T = {} \/ T = Capability("library_hijacking", n)
        /\ S # {} => T # {}
    BY <2>2, SignsGrow DEF When, Capability
  <2>4. Tags(S, T, "library_hijacking")
    BY <2>1, <2>3, TagGrows
  <2> QED BY <2>4 DEF S, T
<1> QED BY <1>1, <1>2, <1>3, <1>4, <1>5, <1>6, <1>7, <1>8, <1>9

\* Less evidence shows fewer capabilities, and none of them is surer.
LEMMA CapabilitiesGrow ==
  ASSUME NEW w, NEW s, Weaker(w, s), NEW e, NEW d, Quieter(e, d)
  PROVE  CapabilityPoints(ClassifyCapabilities(w, e)) <= CapabilityPoints(ClassifyCapabilities(s, d))
<1> DEFINE S == ClassifyCapabilities(w, e)
           T == ClassifyCapabilities(s, d)
           S1 == When(AutostartKey(e), Capability("persistence_registry", 85))
           T1 == When(AutostartKey(d), Capability("persistence_registry", 85))
           S2 == When("cron" \in e.artifacts, Capability("persistence_cron", 85))
           T2 == When("cron" \in d.artifacts, Capability("persistence_cron", 85))
           S3 == When("launchd" \in e.artifacts, Capability("persistence_launchd", 85))
           T3 == When("launchd" \in d.artifacts, Capability("persistence_launchd", 85))
<1>1. /\ Tags(S1, T1, "persistence_registry")
      /\ Tags(S2, T2, "persistence_cron")
      /\ Tags(S3, T3, "persistence_launchd")
  <2>1. Tags(S1, T1, "persistence_registry")
    BY SignsGrow, TagGrows DEF When, Capability
  <2>2. Tags(S2, T2, "persistence_cron")
    BY SignsGrow, TagGrows DEF When, Capability
  <2>3. Tags(S3, T3, "persistence_launchd")
    BY SignsGrow, TagGrows DEF When, Capability
  <2> QED BY <2>1, <2>2, <2>3
<1>2. Persistence(e) = S1 \cup S2 \cup S3 /\ Persistence(d) = T1 \cup T2 \cup T3
  BY DEF Persistence
<1> HIDE DEF S1, S2, S3, T1, T2, T3
<1>3. \A x \in S : \E y \in T : y.name = x.name /\ x.confidence <= y.confidence
  BY <1>1, <1>2, CapabilityRulesGrow DEF ClassifyCapabilities, Tags
<1>4. \A x, y \in S : x.name = y.name => x = y
  BY <1>1, <1>2, CapabilityRulesGrow DEF ClassifyCapabilities, Tags
<1>5. /\ IsFiniteSet(S) /\ IsFiniteSet(T)
      /\ S \in SUBSET Capabilities /\ T \in SUBSET Capabilities
  BY FoundIsFinite, FoundAreCapabilities
<1> HIDE DEF S, T
<1> DEFINE h == [x \in S |-> CHOOSE y \in T : y.name = x.name /\ x.confidence <= y.confidence]
<1>6. \A x \in S : h[x] \in T /\ h[x].name = x.name /\ x.confidence <= h[x].confidence
  BY <1>3
<1> HIDE DEF h
<1> DEFINE f == Worth(S)
           g == Worth(T)
<1>7. /\ CapabilityPoints(S) = Sum(f, S) /\ CapabilityPoints(T) = Sum(g, T)
      /\ \A x \in S : f[x] \in Nat
      /\ \A y \in T : g[y] \in Nat
  BY <1>5, CapabilityPointsIsSum, CapabilityPointsIsNat
<1>8. \A x \in S : f[x] <= g[h[x]]
  <2> SUFFICES ASSUME NEW x \in S PROVE f[x] <= g[h[x]]
    OBVIOUS
  <2>1. /\ x.confidence \in 0..100 /\ h[x].confidence \in 0..100
        /\ x.confidence <= h[x].confidence
    BY <1>5, <1>6 DEF Capabilities
  <2>2. \A a, b \in 0..100 : a <= b => (a * 15) \div 100 <= (b * 15) \div 100
    OBVIOUS
  <2>3. f[x] = (x.confidence * 15) \div 100 /\ g[h[x]] = (h[x].confidence * 15) \div 100
    BY <1>6 DEF Worth
  <2> QED BY <2>1, <2>2, <2>3
<1>9. \A x, y \in S : h[x] = h[y] => x = y
  BY <1>4, <1>6
<1> HIDE DEF f, g
<1>10. Sum(f, S) <= Sum(g, T)
  BY <1>5, <1>6, <1>7, <1>8, <1>9, SumDominates
<1> QED BY <1>7, <1>10 DEF S, T

-----------------------------------------------------------------------------
(* The score *)

\* Less evidence scores no higher.
LEMMA ScoreGrowsWithEvidence ==
  ASSUME NEW w, NEW s, Weaker(w, s), IsFiniteSet(s.yara),
         NEW e, NEW d, Quieter(e, d), d.chains = <<>>
  PROVE  RiskScore(w, e, MapToMitre(w, e), ClassifyCapabilities(w, e))
           <= RiskScore(s, d, MapToMitre(s, d), ClassifyCapabilities(s, d))
<1> DEFINE a1 == Cardinality(w.yara)
           a2 == Cardinality(MapToMitre(w, e))
           a3 == CapabilityPoints(ClassifyCapabilities(w, e))
           a4 == IF w.ml = "likely_malicious" THEN 20 ELSE 0
           a5 == IF FlaggedC2(e) THEN 20 ELSE 0
           a6 == IF "DevicePolicyManager" \in e.apis THEN 10 ELSE 0
           a7 == BehaviorChainScore(e)
           a8 == SpecialDetectionBonuses(e)
           b1 == Cardinality(s.yara)
           b2 == Cardinality(MapToMitre(s, d))
           b3 == CapabilityPoints(ClassifyCapabilities(s, d))
           b4 == IF s.ml = "likely_malicious" THEN 20 ELSE 0
           b5 == IF FlaggedC2(d) THEN 20 ELSE 0
           b6 == IF "DevicePolicyManager" \in d.apis THEN 10 ELSE 0
           b7 == BehaviorChainScore(d)
           b8 == SpecialDetectionBonuses(d)
           lesser == a1 * 15 + a2 * 8 + a3 + a4 + a5 + a6 + a7 + a8
           greater == b1 * 15 + b2 * 8 + b3 + b4 + b5 + b6 + b7 + b8
<1>1. a1 \in Nat /\ b1 \in Nat /\ a1 <= b1
  BY FS_Subset, FS_CardinalityType DEF Weaker
<1>2. a2 \in Nat /\ b2 \in Nat /\ a2 <= b2
  BY FoundIsFinite, FS_CardinalityType, TechniquesGrow
<1>3. a3 \in Nat /\ b3 \in Nat /\ a3 <= b3
  <2>1. /\ ClassifyCapabilities(w, e) \in SUBSET Capabilities
        /\ ClassifyCapabilities(s, d) \in SUBSET Capabilities
        /\ IsFiniteSet(ClassifyCapabilities(w, e)) /\ IsFiniteSet(ClassifyCapabilities(s, d))
    BY FoundAreCapabilities, FoundIsFinite
  <2> QED BY <2>1, CapabilityPointsIsNat, CapabilitiesGrow
<1>4. a4 \in Nat /\ b4 = a4
  BY DEF Weaker
<1>5. a5 \in Nat /\ b5 \in Nat /\ a5 <= b5 /\ a6 \in Nat /\ b6 \in Nat /\ a6 <= b6
  BY SignsGrow
<1>6. a7 \in Int /\ b7 = a7
  <2>1. e.chains = d.chains /\ d.chains = <<>>
    BY DEF Quieter
  <2>2. OfSeverity(e, "critical") = OfSeverity(d, "critical")
        /\ OfSeverity(e, "high") = OfSeverity(d, "high")
    BY <2>1 DEF OfSeverity
  <2>3. a7 = b7
    BY <2>1, <2>2 DEF BehaviorChainScore
  <2> DEFINE q == <<>>
             Nobody == {}
  <2>4. q \in Seq(Nobody) /\ \A c \in Nobody : c.points \in Int
    OBVIOUS
  <2> HIDE DEF q, Nobody
  <2>5. SumOfPoints(q) \in Int
    BY <2>4, SumOfPointsIsInt
  <2>6. a7 \in Int
    BY <2>1, <2>5 DEF q, BehaviorChainScore
  <2> QED BY <2>3, <2>6
<1>7. a8 \in Nat /\ b8 = a8
  <2>1. Detected(e) = Detected(d)
    BY DEF Quieter, Detected
  <2>2. a8 = b8
    BY <2>1 DEF SpecialDetectionBonuses, Detected
  <2> QED BY <2>2, BonusesAreNat
<1>8. /\ RiskScore(w, e, MapToMitre(w, e), ClassifyCapabilities(w, e))
           = AtLeast(AtMost(lesser, 100), 0)
      /\ RiskScore(s, d, MapToMitre(s, d), ClassifyCapabilities(s, d))
           = AtLeast(AtMost(greater, 100), 0)
  BY DEF RiskScore
<1>9. lesser \in Int /\ greater \in Int /\ lesser <= greater
  <2> HIDE DEF a1, a2, a3, a4, a5, a6, a7, a8, b1, b2, b3, b4, b5, b6, b7, b8
  <2> QED BY <1>1, <1>2, <1>3, <1>4, <1>5, <1>6, <1>7
<1> HIDE DEF lesser, greater
<1>10. AtLeast(AtMost(lesser, 100), 0) <= AtLeast(AtMost(greater, 100), 0)
  BY <1>9 DEF AtLeast, AtMost
<1> QED BY <1>8, <1>10

-----------------------------------------------------------------------------
(* What the static analysis can find *)

\* What a signature says of a file it matches.
MatchOf(g) == [rule |-> g.rule, category |-> g.category, severity |-> g.severity]

AllMatches == {MatchOf(g) : g \in Signatures}

\* The signatures say finitely many things.
LEMMA MatchesAreFinite == IsFiniteSet(AllMatches)
<1> DEFINE f == [g \in Signatures |-> MatchOf(g)]
<1>1. AllMatches = {f[g] : g \in Signatures}
  BY DEF AllMatches
<1> HIDE DEF f
<1> QED BY <1>1, ImageIsFinite, SignatureAssumption

\* What is found in a file is one of them.
LEMMA ScanIsMatch ==
  \A atoms : Scan(atoms) \subseteq AllMatches
  BY DEF Scan, AllMatches, MatchOf

\* So is what is found in its members.
LEMMA SignatureMatchesAreFinite ==
  ASSUME NEW c
  PROVE  IsFiniteSet(SignatureMatches(c))
<1> DEFINE members == ToSet(ReadMembers(c))
           inside == UNION {Scan(Contents[m.of].atoms) : m \in members}
           all == Scan(CombinedAtoms(ReadMembers(c)))
<1>1. SignatureMatches(c) \subseteq AllMatches
  <2>1. SignatureMatches(c) = Scan(c.atoms) \cup IF c.magic # "zip" THEN {} ELSE inside \cup all
    BY Zenon DEF SignatureMatches
  <2>2. inside \subseteq AllMatches
    <3> HIDE DEF members
    <3> QED BY ScanIsMatch
  <2>3. all \subseteq AllMatches /\ Scan(c.atoms) \subseteq AllMatches
    BY ScanIsMatch
  <2> HIDE DEF inside, all
  <2> QED BY <2>1, <2>2, <2>3
<1> QED BY <1>1, MatchesAreFinite, FS_Subset

\* The rules over facts find one thing each.
LEMMA RuleMatchesAreFinite ==
  ASSUME NEW f
  PROVE  IsFiniteSet(RuleMatches(f))
<1>1. \A b, n, c, v : IsFiniteSet(Rule(b, n, c, v))
  BY FS_EmptySet, FS_Singleton DEF Rule
<1>2. \A S, T : IsFiniteSet(S) /\ IsFiniteSet(T) => IsFiniteSet(S \cup T)
  BY FS_Union
<1>3. IsFiniteSet(ImportRules(f))
  BY <1>1, <1>2, Zenon DEF ImportRules
<1>4. IsFiniteSet(PackingRules(f))
  BY <1>1, <1>2, Zenon DEF PackingRules
<1>5. IsFiniteSet(StringRules(f))
  BY <1>1, <1>2, Zenon DEF StringRules
<1>6. IsFiniteSet(BinaryRules(f))
  BY <1>1, <1>2, Zenon DEF BinaryRules
<1> QED BY <1>2, <1>3, <1>4, <1>5, <1>6, Zenon DEF RuleMatches

\* A report names finitely many rules, however the file was unpacked.
LEMMA ReportIsFinite ==
  ASSUME NEW h, NEW suffix, ~Analyze(h, suffix).failed
  PROVE  IsFiniteSet(Analyze(h, suffix).yara)
<1>1. \A g, x : IsFiniteSet(Findings(g, x).yara)
  <2> TAKE g, x
  <2>1. Findings(g, x).yara = RuleMatches(FormatFacts(Contents[g]))
                              \cup RuleMatches(CommonFacts(Contents[g]))
                              \cup SignatureMatches(Contents[g])
    BY DEF Findings, ReportOf
  <2>2. /\ IsFiniteSet(RuleMatches(FormatFacts(Contents[g])))
        /\ IsFiniteSet(RuleMatches(CommonFacts(Contents[g])))
        /\ IsFiniteSet(SignatureMatches(Contents[g]))
    BY RuleMatchesAreFinite, SignatureMatchesAreFinite
  <2> QED BY <2>1, <2>2, FS_Union
<1>2. \A g, x : Unpacked(Findings(g, x), x).yara = Findings(g, x).yara
  <2> TAKE g, x
  <2>1. {"yara", "packing"} \subseteq DOMAIN Findings(g, x)
    BY DEF Findings, ReportOf
  <2> QED BY <2>1 DEF Unpacked
<1>3. Failed.failed
  BY DEF Failed
<1>4. \/ Analyze(h, suffix) = Unpacked(Findings(h, suffix), suffix)
      \/ \E g, x : Analyze(h, suffix) = Findings(g, x)
  BY <1>3 DEF Analyze
<1> QED BY <1>1, <1>2, <1>4

\* The evidence that is drawn from a report.
LEMMA StaticEvidenceIs ==
  ASSUME NEW r, IsFiniteSet(r.yara)
  PROVE  IsFiniteSet(StaticEvidence(r).yara)
<1> DEFINE f == [y \in r.yara |->
                   [y EXCEPT !.severity = IF @ \in Severities THEN @ ELSE "medium"]]
<1>1. StaticEvidence(r).yara = {f[y] : y \in r.yara}
  BY DEF StaticEvidence
<1> HIDE DEF f
<1> QED BY <1>1, ImageIsFinite

-----------------------------------------------------------------------------
(* Less evidence never scores higher *)

\* Without a run there is less than in any profile.
LEMMA NothingIsQuieter ==
  ASSUME NEW d \in {NoDynamic, AndroidProfile, WindowsProfile}, NEW e \in {d, NoDynamic}
  PROVE  Quieter(e, d) /\ d.chains = <<>>
<1>1. d.chains = <<>>
  <2>1. NoDynamic.chains = <<>>
    BY DEF NoDynamic
  <2>2. AndroidProfile.chains = NoDynamic.chains
    BY DEF AndroidProfile, NoDynamic
  <2>3. WindowsProfile.chains = NoDynamic.chains
    BY DEF WindowsProfile, NoDynamic
  <2> QED BY <2>1, <2>2, <2>3
<1>2. e = d => Quieter(e, d)
  BY DEF Quieter
<1>3. ToSet(<<>>) = {}
  BY DEF ToSet
<1>4. ~FlaggedC2(NoDynamic) /\ ~Beaconing(NoDynamic) /\ ~Connected(NoDynamic)
  BY <1>3 DEF NoDynamic, FlaggedC2, Beaconing, Connected
<1>5. /\ NoDynamic.apis = {} /\ NoDynamic.files = {} /\ NoDynamic.registry = {}
      /\ NoDynamic.artifacts = {} /\ NoDynamic.processes = {} /\ NoDynamic.chains = <<>>
  BY DEF NoDynamic
<1>6. Quieter(NoDynamic, d)
  BY <1>1, <1>4, <1>5 DEF Quieter
<1> QED BY <1>1, <1>2, <1>6

\* A finding less is less evidence.
LEMMA NoStrongerIsWeaker ==
  ASSUME NEW s, {"yara", "permissions", "imports", "urls", "ips", "flags", "keywords", "ml"}
                  \subseteq DOMAIN s,
         NEW w \in NoStronger(s)
  PROVE  Weaker(w, s)
<1>1. Weaker(s, s)
  BY DEF Weaker
<1>2. \A y : Weaker([s EXCEPT !.yara = @ \ {y}], s)
  BY DEF Weaker
<1>3. \A p : Weaker([s EXCEPT !.permissions = @ \ {p}], s)
  BY DEF Weaker
<1>4. \A i : Weaker([s EXCEPT !.imports = @ \ {i}], s)
  BY DEF Weaker
<1>5. /\ Weaker([s EXCEPT !.urls = {}], s) /\ Weaker([s EXCEPT !.ips = {}], s)
      /\ Weaker([s EXCEPT !.flags = {}], s)
  BY DEF Weaker
<1> QED BY <1>1, <1>2, <1>3, <1>4, <1>5 DEF NoStronger

\* Of any two samples the signatures can tell apart: less evidence never scores
\* higher, with or without a run.
THEOREM EvidenceIsMonotone == EvidenceMonotone
<1> SUFFICES ASSUME NEW s \in Findable, NEW d \in {NoDynamic, AndroidProfile, WindowsProfile},
                    NEW w \in NoStronger(s), NEW e \in {d, NoDynamic}
             PROVE  Score(w, e) <= Score(s, d)
  BY DEF EvidenceMonotone
<1>1. PICK h \in DOMAIN Contents :
         ~Analyze(h, "exe").failed /\ s = StaticEvidence(Analyze(h, "exe"))
  BY DEF Findable
<1>2. IsFiniteSet(s.yara)
  BY <1>1, ReportIsFinite, StaticEvidenceIs
<1>3. {"yara", "permissions", "imports", "urls", "ips", "flags", "keywords", "ml"}
        \subseteq DOMAIN s
  BY <1>1 DEF StaticEvidence
<1>4. Weaker(w, s)
  BY <1>3, NoStrongerIsWeaker
<1>5. Quieter(e, d) /\ d.chains = <<>>
  BY NothingIsQuieter
<1> QED BY <1>2, <1>4, <1>5, ScoreGrowsWithEvidence DEF Score

-----------------------------------------------------------------------------
(* What a case must be for its verdict to hang together *)

VerdictFields ==
    {"computed", "risk", "status", "yara", "techniques", "capabilities", "explanation",
     "assessment", "iocs", "dynamic", "chain"}

IsSequence(q) == \E S : q \in Seq(S)

IsRun(dynamic) == IsSequence(dynamic.evidence.connections)

\* Indicators that rest on evidence d.
Traceable(iocs, d) ==
    \A i \in iocs :
        /\ i.class = "MALICIOUS" =>
              \E k \in ToSet(d.connections) : k.ip = i.indicator /\ k.c2
        /\ i.state = "CORROBORATED" =>
              (\E k \in ToSet(d.connections) : k.ip = i.indicator) \/ i.indicator \in d.dns

Coherent(c) ==
    /\ c.risk \in 0..100
    /\ ScoreExplained(c)
    /\ StatusAgrees(c)
    /\ Traceable(c.iocs, c.dynamic.evidence)
    /\ c.chain # "tampered"

SoundCase(c) ==
    /\ VerdictFields \subseteq DOMAIN c
    /\ IsRun(c.dynamic)
    /\ c.computed => Coherent(c)

\* The score of a case still to be explained anew leaves nothing out.
Explainable(c) ==
    c.computed =>
        /\ Parts(c.yara, c.techniques, c.capabilities) \in Nat
        /\ Covers(c.risk, c.yara, c.techniques, c.capabilities)

\* That is what IndicatorsTraceable says of a case.
LEMMA TraceableIs ==
  ASSUME NEW c
  PROVE  IndicatorsTraceable(c) <=> Traceable(c.iocs, c.dynamic.evidence)
  BY DEF IndicatorsTraceable, Traceable

\* Fields that no verdict depends on may change.
LEMMA SoundStays ==
  ASSUME NEW c, NEW new, DOMAIN new = DOMAIN c, \A x \in VerdictFields : new[x] = c[x]
  PROVE  /\ SoundCase(c) => SoundCase(new)
         /\ Explainable(c) => Explainable(new)
         /\ new.dynamic = c.dynamic
<1>1. /\ new.computed = c.computed /\ new.risk = c.risk /\ new.status = c.status
      /\ new.yara = c.yara /\ new.techniques = c.techniques
      /\ new.capabilities = c.capabilities /\ new.explanation = c.explanation
      /\ new.assessment = c.assessment /\ new.iocs = c.iocs /\ new.dynamic = c.dynamic
      /\ new.chain = c.chain
  BY DEF VerdictFields
<1>2. SoundCase(c) => SoundCase(new)
  BY <1>1 DEF SoundCase, Coherent, ScoreExplained, PartsSum, StatusAgrees
<1>3. Explainable(c) => Explainable(new)
  BY <1>1 DEF Explainable
<1> QED BY <1>1, <1>2, <1>3

-----------------------------------------------------------------------------
(* Its parts *)

\* Every indicator rests on the evidence it was drawn from.
LEMMA IndicatorsRest ==
  ASSUME NEW staticIps, NEW d, IsSequence(d.connections), NEW indicators
  PROVE  Traceable(IocIntelligence(staticIps, d, indicators), d)
<1> DEFINE q == d.connections
           To(ip) == {i \in 1..Len(q) : q[i].ip = ip}
<1>1. Len(q) \in Nat /\ DOMAIN q = 1..Len(q)
  BY LenProperties DEF IsSequence
<1>2. ASSUME NEW ip, To(ip) # {}
      PROVE  Max(To(ip)) \in DOMAIN q /\ q[Max(To(ip))].ip = ip
  <2>1. To(ip) \in SUBSET (1..Len(q))
    OBVIOUS
  <2>2. Max(To(ip)) \in To(ip)
    <3> HIDE DEF To, q
    <3> QED BY <1>1, <1>2, <2>1, MaxIsGreatest
  <2> QED BY <1>1, <2>2
<1>3. \A i \in DOMAIN q : q[i] \in ToSet(q)
  BY DEF ToSet
<1> SUFFICES ASSUME NEW i \in IocIntelligence(staticIps, d, indicators)
             PROVE  /\ i.class = "MALICIOUS" =>
                          \E k \in ToSet(q) : k.ip = i.indicator /\ k.c2
                    /\ i.state = "CORROBORATED" =>
                          (\E k \in ToSet(q) : k.ip = i.indicator) \/ i.indicator \in d.dns
  BY DEF Traceable
<1>4. \/ \E ip \in indicators.ips :
            i = [type |-> "IP", indicator |-> ip,
                 class |-> IF To(ip) = {} THEN "UNKNOWN"
                           ELSE IF q[Max(To(ip))].c2 THEN "MALICIOUS" ELSE "SUSPICIOUS",
                 state |-> IF To(ip) # {} /\ ip \in staticIps THEN "CORROBORATED"
                           ELSE "OBSERVED"]
      \/ \E x \in indicators.domains :
            i = [type |-> "DOMAIN", indicator |-> x,
                 class |-> IF x \in Benign THEN "BENIGN"
                           ELSE IF x \in d.dns THEN "SUSPICIOUS" ELSE "UNKNOWN",
                 state |-> IF x \in d.dns THEN "CORROBORATED" ELSE "OBSERVED"]
      \/ \E u \in indicators.urls :
            i = [type |-> "URL", indicator |-> u,
                 class |-> IF Words[u].host \in Benign THEN "BENIGN" ELSE "SUSPICIOUS",
                 state |-> "OBSERVED"]
  BY Zenon DEF IocIntelligence
<1>5. ASSUME NEW ip,
             i = [type |-> "IP", indicator |-> ip,
                  class |-> IF To(ip) = {} THEN "UNKNOWN"
                            ELSE IF q[Max(To(ip))].c2 THEN "MALICIOUS" ELSE "SUSPICIOUS",
                  state |-> IF To(ip) # {} /\ ip \in staticIps THEN "CORROBORATED"
                            ELSE "OBSERVED"]
      PROVE  /\ i.class = "MALICIOUS" => \E k \in ToSet(q) : k.ip = i.indicator /\ k.c2
             /\ i.state = "CORROBORATED" => \E k \in ToSet(q) : k.ip = i.indicator
  <2>1. i.indicator = ip
    BY <1>5
  <2>2. i.class = "MALICIOUS" => To(ip) # {} /\ q[Max(To(ip))].c2
    BY <1>5
  <2>3. i.state = "CORROBORATED" => To(ip) # {}
    BY <1>5
  <2> HIDE DEF To, q
  <2> QED BY <1>2, <1>3, <2>1, <2>2, <2>3
<1>6. ASSUME NEW x,
             i = [type |-> "DOMAIN", indicator |-> x,
                  class |-> IF x \in Benign THEN "BENIGN"
                            ELSE IF x \in d.dns THEN "SUSPICIOUS" ELSE "UNKNOWN",
                  state |-> IF x \in d.dns THEN "CORROBORATED" ELSE "OBSERVED"]
      PROVE  i.class # "MALICIOUS" /\ (i.state = "CORROBORATED" => i.indicator \in d.dns)
  BY <1>6
<1>7. ASSUME NEW u,
             i = [type |-> "URL", indicator |-> u,
                  class |-> IF Words[u].host \in Benign THEN "BENIGN" ELSE "SUSPICIOUS",
                  state |-> "OBSERVED"]
      PROVE  i.class # "MALICIOUS" /\ i.state # "CORROBORATED"
  BY <1>7
<1> HIDE DEF To, q
<1> QED BY <1>4, <1>5, <1>6, <1>7

\* What rests on no run at all rests on any.
LEMMA UnseenIsTraceable ==
  ASSUME NEW iocs, Traceable(iocs, NoDynamic), NEW d
  PROVE  Traceable(iocs, d)
<1>1. ToSet(NoDynamic.connections) = {} /\ NoDynamic.dns = {}
  BY DEF NoDynamic, ToSet
<1> QED BY <1>1 DEF Traceable

\* An explanation adds up to the score it explains.
LEMMA ExplanationAddsUp ==
  ASSUME NEW c, c.risk \in 0..100, Explainable(c), c.computed,
         c.explanation = RiskExplanation(c.risk, c.yara, c.techniques, c.capabilities)
  PROVE  ScoreExplained(c)
<1> DEFINE a == 15 * Cardinality(c.yara)
           b == 8 * Cardinality(c.techniques)
           t == CapabilityPoints(c.capabilities)
           parts == a + b + t
           other == IF c.risk > parts THEN c.risk - parts ELSE 0
<1>1. /\ c.explanation.yara = a /\ c.explanation.mitre = b
      /\ c.explanation.capabilities = t /\ c.explanation.other = other
  BY DEF RiskExplanation
<1>2. parts \in Nat /\ (parts <= c.risk \/ c.risk = 100)
  BY DEF Explainable, Parts, Covers
<1>3. PartsSum(c) = parts + other
  BY <1>1 DEF PartsSum
<1>4. other \in Nat /\ (parts <= c.risk => parts + other = c.risk)
  <2> HIDE DEF parts
  <2> QED BY <1>2
<1> HIDE DEF parts, other
<1>5. PartsSum(c) = c.risk \/ (c.risk = 100 /\ PartsSum(c) >= 100)
  BY <1>2, <1>3, <1>4
<1> QED BY <1>5 DEF ScoreExplained

\* The status and the verdict of a score agree.
LEMMA NamesAgree ==
  ASSUME NEW c, c.risk \in 0..100, c.status = StatusOfScore(c.risk),
         c.assessment.verdict = Verdict(c.risk)
  PROVE  StatusAgrees(c)
  BY DEF StatusAgrees, StatusOfScore, Verdict

-----------------------------------------------------------------------------
(* Where cases come from *)

\* Chains in order, each of them worth whole points.
AreChains(q) == \E S : q \in Seq(S) /\ \A k \in S : k.points \in Int

\* What every case that is computed is, whatever is shown in it.
LEMMA CaseOfIs ==
  ASSUME NEW id, NEW s, IsFiniteSet(s.yara), NEW judged, AreChains(judged.chains), NEW shown, NEW explained,
         NEW c, c = CaseOf(id, s, judged, shown, explained)
  PROVE  /\ VerdictFields \subseteq DOMAIN c
         /\ c.computed /\ c.risk \in 0..100 /\ c.chain # "tampered"
         /\ StatusAgrees(c)
         /\ c.iocs = IocIntelligence(s.ips, shown,
                                     NetworkIndicators(s.ips, s.urls, explained, shown))
         /\ judged.chains = <<>> => ScoreExplained(c) /\ Explainable(c)
         /\ c.dynamic = Absent
<1> DEFINE t == MapToMitre(s, judged)
           k == ClassifyCapabilities(s, judged)
           g == AgentGraph(s, judged)
           indicators == NetworkIndicators(s.ips, s.urls, explained, shown)
           cards == Correlations(s.ips, s.yara, shown, g.techniques)
           assessment == ThreatAssessment(g.risk, s.yara, g.techniques, shown.observed)
<1>1. /\ g.techniques = t /\ g.capabilities = k /\ g.risk = RiskScore(s, judged, t, k)
      /\ g.chain = VerifyChain(CreateChain(HandedOn(judged)))
  <2> DEFINE r == Recommendations(s, judged, k)
             risk == RiskScore(s, judged, t, k)
  <2>1. g = Concluded(s, judged, t, k, risk, r)
    BY DEF AgentGraph, Investigated
  <2> HIDE DEF g, t, k, r, risk
  <2>2. /\ g.techniques = t /\ g.capabilities = k /\ g.risk = risk
        /\ g.chain = VerifyChain(CreateChain(HandedOn(judged)))
    BY <2>1 DEF Concluded
  <2> QED BY <2>2 DEF risk
<1>2. /\ RiskScore(s, judged, t, k) \in 0..100
      /\ Parts(s.yara, t, k) \in Nat
      /\ judged.chains = <<>> => Covers(RiskScore(s, judged, t, k), s.yara, t, k)
  <2>1. IsFiniteSet(t) /\ IsFiniteSet(k) /\ k \in SUBSET Capabilities
    BY FoundIsFinite, FoundAreCapabilities
  <2>2. PICK S : judged.chains \in Seq(S) /\ \A x \in S : x.points \in Int
    BY DEF AreChains
  <2> HIDE DEF t, k
  <2> QED BY <2>1, <2>2, ScoreInRange
<1>3. assessment.verdict = Verdict(g.risk)
  BY DEF ThreatAssessment
<1>4. c = CaseFrom(id, s, shown, explained, g, indicators, cards, assessment)
  BY DEF CaseOf, Judged
<1> HIDE DEF t, k, g, indicators, cards, assessment
<1>5. /\ VerdictFields \subseteq DOMAIN c
      /\ c.computed = TRUE /\ c.risk = g.risk /\ c.status = StatusOfScore(g.risk)
      /\ c.yara = s.yara /\ c.techniques = g.techniques /\ c.capabilities = g.capabilities
      /\ c.iocs = IocIntelligence(s.ips, shown, indicators)
      /\ c.explanation = RiskExplanation(g.risk, s.yara, g.techniques, g.capabilities)
      /\ c.assessment = assessment /\ c.chain = g.chain /\ c.dynamic = Absent
  BY <1>4 DEF CaseFrom, VerdictFields
<1>6. c.chain # "tampered"
  BY <1>1, <1>5, CreatedIsUnbroken
<1>7. StatusAgrees(c) /\ c.risk \in 0..100
  BY <1>1, <1>2, <1>3, <1>5, NamesAgree
<1>8. judged.chains = <<>> => ScoreExplained(c) /\ Explainable(c)
  <2> SUFFICES ASSUME judged.chains = <<>> PROVE ScoreExplained(c) /\ Explainable(c)
    OBVIOUS
  <2>1. Explainable(c)
    BY <1>1, <1>2, <1>5 DEF Explainable
  <2> QED BY <1>5, <1>7, <2>1, ExplanationAddsUp
<1> QED BY <1>5, <1>6, <1>7, <1>8 DEF indicators

\* Without a run there are no chains and no connections.
LEMMA NoDynamicIs ==
  /\ NoDynamic.chains = <<>> /\ NoDynamic.connections = <<>>
  /\ \A S : <<>> \in Seq(S)
  /\ IsSequence(NoDynamic.connections) /\ AreChains(NoDynamic.chains)
  /\ Absent.evidence = NoDynamic /\ Nothing.evidence = NoDynamic
  /\ Absent.status = "absent" /\ Nothing.status = "none"
<1>1. NoDynamic.chains = <<>> /\ NoDynamic.connections = <<>>
  BY DEF NoDynamic
<1>2. \A S : <<>> \in Seq(S)
  OBVIOUS
<1>3. /\ Absent.evidence = NoDynamic /\ Nothing.evidence = NoDynamic
      /\ Absent.status = "absent" /\ Nothing.status = "none"
  BY DEF Absent, Nothing
<1>4. IsSequence(<<>>)
  BY <1>2 DEF IsSequence
<1>5. AreChains(<<>>)
  <2> DEFINE none == {}
  <2>1. \A k \in none : k.points \in Int
    OBVIOUS
  <2> HIDE DEF none
  <2> QED BY <1>2, <2>1 DEF AreChains
<1> QED BY <1>1, <1>2, <1>3, <1>4, <1>5

\* A case that is computed from the static evidence alone, whatever it shows.
LEMMA StaticCaseIs ==
  ASSUME NEW id, NEW s, IsFiniteSet(s.yara), NEW shown, IsSequence(shown.connections),
         NEW explained, NEW c, c = CaseOf(id, s, NoDynamic, shown, explained)
  PROVE  /\ VerdictFields \subseteq DOMAIN c /\ c.computed
         /\ c.risk \in 0..100 /\ c.chain # "tampered"
         /\ StatusAgrees(c) /\ ScoreExplained(c) /\ Explainable(c)
         /\ Traceable(c.iocs, shown)
         /\ c.dynamic = Absent
<1>1. c.iocs = IocIntelligence(s.ips, shown,
                               NetworkIndicators(s.ips, s.urls, explained, shown))
  BY CaseOfIs, NoDynamicIs
<1>2. Traceable(c.iocs, shown)
  BY <1>1, IndicatorsRest
<1>3. /\ VerdictFields \subseteq DOMAIN c /\ c.computed
      /\ c.risk \in 0..100 /\ c.chain # "tampered"
      /\ StatusAgrees(c) /\ c.dynamic = Absent
      /\ NoDynamic.chains = <<>> => ScoreExplained(c) /\ Explainable(c)
  BY CaseOfIs, NoDynamicIs
<1> QED BY <1>2, <1>3, NoDynamicIs

\* What an analysis comes to.
SoundOutcome(r) ==
    r.kind = "case" => SoundCase(r.case) /\ Explainable(r.case)

\* A report becomes a case without a run.
LEMMA ReportedIsSound ==
  ASSUME NEW h, NEW suffix
  PROVE  SoundOutcome(FromReport(Analyze(h, suffix)))
<1> DEFINE report == Analyze(h, suffix)
           s == StaticEvidence(report)
           c == CaseOf(report.sha, s, NoDynamic, NoDynamic, report.explained)
<1>1. \A kind \in {"error", "unsupported"} : Fails(kind).kind # "case"
  BY DEF Fails
<1>2. /\ Succeeds(c).kind = "case" /\ Succeeds(c).case = c
      /\ \/ \E kind \in {"error", "unsupported"} : FromReport(report) = Fails(kind)
         \/ ~report.failed /\ FromReport(report) = Succeeds(c)
  BY DEF FromReport, Succeeds
<1>3. ASSUME ~report.failed PROVE SoundCase(c) /\ Explainable(c)
  <2>1. IsFiniteSet(s.yara)
    BY <1>3, ReportIsFinite, StaticEvidenceIs
  <2> HIDE DEF report, s
  <2>2. /\ VerdictFields \subseteq DOMAIN c /\ c.computed
        /\ c.risk \in 0..100 /\ c.chain # "tampered"
        /\ StatusAgrees(c) /\ ScoreExplained(c) /\ Explainable(c)
        /\ Traceable(c.iocs, NoDynamic) /\ c.dynamic = Absent
    BY <2>1, StaticCaseIs, NoDynamicIs
  <2> HIDE DEF c
  <2> QED BY <2>2, NoDynamicIs DEF SoundCase, Coherent, IsRun
<1> HIDE DEF report, c
<1> QED BY <1>1, <1>2, <1>3 DEF SoundOutcome, report

\* A document with the results of both analyses shows the run it names.
LEMMA ImportedReportIsSound ==
  ASSUME NEW h \in DOMAIN Contents, Contents[h].magic \in {"json", "bson"},
         Contents[h].doc.shape = "report"
  PROVE  SoundOutcome(ImportReport(h, Contents[h].doc))
<1> DEFINE doc == Contents[h].doc
           f == [y \in doc.static.yara |-> [rule |-> y.rule, category |-> y.category,
                                            severity |-> y.severity]]
           found == {[rule |-> y.rule, category |-> y.category,
                      severity |-> y.severity] : y \in doc.static.yara}
           s == [doc.static EXCEPT !.ml = "none", !.flags = {},
                   !.yara = {[rule |-> y.rule, category |-> y.category,
                              severity |-> y.severity] : y \in @}]
           id == IF doc.id = "" THEN h ELSE doc.id
           c == CaseOf(id, s, NoDynamic, doc.dynamic, doc.explained)
           dynamic == IF doc.dynamic.observed
                      THEN [status |-> "completed", evidence |-> doc.dynamic] ELSE Nothing
           new == [c EXCEPT !.dynamic = dynamic]
<1>1. /\ "yara" \in DOMAIN doc.static /\ IsFiniteSet(doc.static.yara)
      /\ IsSequence(doc.dynamic.connections)
      /\ doc.dynamic.observed \/ doc.dynamic = NoDynamic
  BY EvidenceAssumption DEF IsSequence
<1>2. \A kind \in {"error", "unsupported"} : Fails(kind).kind # "case"
  BY DEF Fails
<1>3. /\ Succeeds(new).kind = "case" /\ Succeeds(new).case = new
      /\ \/ \E kind \in {"error", "unsupported"} : ImportReport(h, doc) = Fails(kind)
         \/ ImportReport(h, doc) = Succeeds(new)
  BY DEF ImportReport, Succeeds
<1>4. IsFiniteSet(s.yara)
  <2>1. found = {f[y] : y \in doc.static.yara}
    OBVIOUS
  <2>2. s.yara = found
    BY <1>1
  <2> HIDE DEF f, s, found, doc
  <2> QED BY <1>1, <2>1, <2>2, ImageIsFinite
<1>5. /\ dynamic.evidence = doc.dynamic
  BY <1>1, NoDynamicIs
<1> HIDE DEF doc, s, id, dynamic, f, found
<1>6. /\ VerdictFields \subseteq DOMAIN c /\ c.computed
      /\ c.risk \in 0..100 /\ c.chain # "tampered"
      /\ StatusAgrees(c) /\ ScoreExplained(c) /\ Explainable(c)
      /\ Traceable(c.iocs, doc.dynamic)
  BY <1>1, <1>4, StaticCaseIs
<1> HIDE DEF c
<1>7. /\ DOMAIN new = DOMAIN c /\ new.dynamic = dynamic
      /\ new.computed = c.computed /\ new.risk = c.risk /\ new.status = c.status
      /\ new.yara = c.yara /\ new.techniques = c.techniques
      /\ new.capabilities = c.capabilities /\ new.explanation = c.explanation
      /\ new.assessment = c.assessment /\ new.iocs = c.iocs /\ new.chain = c.chain
  BY <1>6 DEF VerdictFields
<1> HIDE DEF new
<1>8. SoundCase(new) /\ Explainable(new)
  BY <1>1, <1>5, <1>6, <1>7 DEF SoundCase, Coherent, IsRun, Explainable, ScoreExplained,
     PartsSum, StatusAgrees
<1> QED BY <1>2, <1>3, <1>8 DEF SoundOutcome, doc

\* A dump of a case is not computed here, and has no run.
LEMMA ImportedCaseIsSound ==
  ASSUME NEW h, NEW doc
  PROVE  SoundOutcome(ImportCase(h, doc))
<1> DEFINE c == ImportCase(h, doc).case
<1>1. VerdictFields \subseteq DOMAIN c /\ c.computed = FALSE /\ c.dynamic = Absent
  BY DEF ImportCase, Succeeds, VerdictFields
<1> HIDE DEF c
<1>2. SoundCase(c) /\ Explainable(c)
  BY <1>1, NoDynamicIs DEF SoundCase, IsRun, Explainable
<1> QED BY <1>2 DEF SoundOutcome, c

\* So whatever is uploaded or taken from the queue, a case that comes of it is sound.
LEMMA AnalysisIsSound ==
  ASSUME NEW f, Analysable(f)
  PROVE  SoundOutcome(Outcome[f.of][f.suffix])
<1> DEFINE h == f.of
<1>1. h \in DOMAIN Contents /\ Outcome[h][f.suffix] = AnalyzeFile(h, f.suffix)
  BY DEF Outcome, Analysable
<1>2. \A kind \in {"error", "unsupported"} : Fails(kind).kind # "case"
  BY DEF Fails
<1>3. ASSUME NEW kind \in {"json", "bson"} PROVE SoundOutcome(ReadDocument(h, kind))
  <2>1. CASE Contents[h].magic = kind /\ Contents[h].doc.shape = "report"
    <3>1. ReadDocument(h, kind) = ImportReport(h, Contents[h].doc)
      BY <2>1 DEF ReadDocument
    <3> QED BY <1>1, <1>3, <2>1, <3>1, ImportedReportIsSound
  <2>2. CASE Contents[h].magic = kind /\ Contents[h].doc.shape = "case"
    <3>1. ReadDocument(h, kind) = ImportCase(h, Contents[h].doc)
      BY <2>2 DEF ReadDocument
    <3> QED BY <3>1, ImportedCaseIsSound
  <2>3. CASE ~(Contents[h].magic = kind /\ Contents[h].doc.shape \in {"report", "case"})
    <3>1. ReadDocument(h, kind) = Fails("unsupported")
      BY <2>3 DEF ReadDocument
    <3> QED BY <1>2, <3>1 DEF SoundOutcome
  <2> QED BY <2>1, <2>2, <2>3
<1>4. \/ AnalyzeFile(h, f.suffix) = FromReport(Analyze(h, f.suffix))
      \/ \E kind \in {"json", "bson"} : AnalyzeFile(h, f.suffix) = ReadDocument(h, kind)
  BY DEF AnalyzeFile
<1> QED BY <1>1, <1>3, <1>4, ReportedIsSound

\* Results that are submitted: the agents judged the run, the case has none of it.
LEMMA SubmittedIsSound ==
  ASSUME NEW r, IsFiniteSet(r.static.yara), AreChains(r.dynamic.chains)
  PROVE  SoundCase(SubmittedCase(r))
<1> DEFINE c == CaseOf(r.id, r.static, r.dynamic, r.dynamic, {})
           new == [c EXCEPT !.iocs = {}, !.correlation = {}, !.timeline = {},
                            !.explanation = NoExplanation]
<1>1. /\ VerdictFields \subseteq DOMAIN c /\ c.computed /\ c.risk \in 0..100
      /\ c.chain # "tampered" /\ StatusAgrees(c) /\ c.dynamic = Absent
  <2>1. ASSUME NEW id, NEW s, IsFiniteSet(s.yara), NEW d, AreChains(d.chains), NEW x,
               NEW k, k = CaseOf(id, s, d, d, x)
        PROVE  /\ VerdictFields \subseteq DOMAIN k /\ k.computed /\ k.risk \in 0..100
               /\ k.chain # "tampered" /\ StatusAgrees(k) /\ k.dynamic = Absent
    BY <2>1, CaseOfIs
  <2> HIDE DEF c
  <2> QED BY <2>1 DEF c
<1>2. SubmittedCase(r) = new
  BY DEF SubmittedCase
<1> HIDE DEF c
<1>3. /\ DOMAIN new = DOMAIN c /\ new.iocs = {} /\ new.explanation = NoExplanation
      /\ new.computed = c.computed /\ new.risk = c.risk /\ new.status = c.status
      /\ new.assessment = c.assessment /\ new.dynamic = c.dynamic /\ new.chain = c.chain
  <2> DEFINE new1 == [c EXCEPT !.iocs = {}]
             new2 == [new1 EXCEPT !.correlation = {}]
             new3 == [new2 EXCEPT !.timeline = {}]
             new4 == [new3 EXCEPT !.explanation = NoExplanation]
  <2>1. new = new4
    OBVIOUS
  <2> HIDE DEF new
  <2> QED BY <1>1, <2>1 DEF VerdictFields
<1> HIDE DEF new
<1>4. SoundCase(new)
  BY <1>1, <1>3, NoDynamicIs DEF SoundCase, Coherent, IsRun, ScoreExplained, StatusAgrees,
     Traceable
<1> QED BY <1>2, <1>4

\* The addresses of a profile come in order.
LEMMA AnswersAreRuns ==
  ASSUME NEW configured, NEW suffix, NEW platform,
         NEW dynamic \in SandboxAnswers(configured, suffix, platform)
  PROVE  IsRun(dynamic)
<1> DEFINE Android == <<[ip |-> "185.220.101.5", c2 |-> TRUE, interval |-> 0],
                        [ip |-> "149.154.167.220", c2 |-> FALSE, interval |-> 0]>>
           Windows == <<[ip |-> "198.51.100.42", c2 |-> TRUE, interval |-> 0],
                        [ip |-> "103.21.244.0", c2 |-> TRUE, interval |-> 0]>>
<1>1. \A x, y : IsSequence(<<x, y>>)
  <2> TAKE x, y
  <2>1. <<x, y>> \in Seq({x, y})
    OBVIOUS
  <2> QED BY <2>1 DEF IsSequence
<1>2. IsSequence(Android) /\ IsSequence(Windows)
  BY <1>1
<1> HIDE DEF Android, Windows
<1>3. AndroidProfile.connections = Android
  BY DEF AndroidProfile, NoDynamic, Android
<1>4. WindowsProfile.connections = Windows
  BY DEF WindowsProfile, NoDynamic, Windows
<1>5. dynamic.evidence \in {NoDynamic, AndroidProfile, WindowsProfile}
  BY DEF SandboxAnswers
<1> QED BY <1>2, <1>3, <1>4, <1>5, NoDynamicIs DEF IsRun

\* The verdict on a case is explained anew once there is a run.
LEMMA RenewedIsSound ==
  ASSUME NEW c, SoundCase(c), Explainable(c), NEW dynamic, IsRun(dynamic)
  PROVE  SoundCase(WithDynamic(c, dynamic))
<1> DEFINE d == dynamic.evidence
           indicators == NetworkIndicators(c.indicators.ips, c.indicators.urls,
                                           c.explained, d)
           cards == Correlations({}, {}, [d EXCEPT !.observed = TRUE], c.techniques)
           iocs == IocIntelligence({}, d, indicators)
           explanation == RiskExplanation(c.risk, c.yara, c.techniques, c.capabilities)
           new == Renewed(c, dynamic, indicators, cards)
<1>1. WithDynamic(c, dynamic) = new
  BY DEF WithDynamic
<1>2. VerdictFields \subseteq DOMAIN c
  BY DEF SoundCase
<1>3. Traceable(iocs, d)
  <2> HIDE DEF indicators, d
  <2> QED BY IndicatorsRest DEF IsRun, d
<1> HIDE DEF indicators, cards
<1>4. /\ DOMAIN new = DOMAIN c /\ new.dynamic = dynamic /\ new.iocs = iocs
      /\ new.explanation = explanation
      /\ new.computed = c.computed /\ new.risk = c.risk /\ new.status = c.status
      /\ new.yara = c.yara /\ new.techniques = c.techniques
      /\ new.capabilities = c.capabilities /\ new.assessment = c.assessment
      /\ new.chain = c.chain
  <2> DEFINE ai == IF c.computed
                   THEN [c.ai EXCEPT !.network = NetworkInterpretation(indicators)]
                   ELSE c.ai
             timeline == EvidenceTimeline(d, cards)
             full == [c EXCEPT !.dynamic = dynamic, !.indicators = indicators,
                               !.iocs = iocs, !.correlation = cards, !.timeline = timeline,
                               !.explanation = explanation,
                               !.ai = IF c.computed
                                      THEN [@ EXCEPT !.network = NetworkInterpretation(indicators)]
                                      ELSE @,
                               !.analysis = "COMPLETED"]
  <2>1. new = full
    BY DEF Renewed
  <2> HIDE DEF new, iocs, explanation, timeline, d
  <2> QED BY <1>2, <2>1 DEF VerdictFields
<1> HIDE DEF new, iocs, d
<1>5. Explainable(new)
  BY <1>4 DEF Explainable
<1>6. new.computed => Coherent(new)
  <2> SUFFICES ASSUME new.computed PROVE Coherent(new)
    OBVIOUS
  <2>1. Coherent(c)
    BY <1>4 DEF SoundCase
  <2>2. ScoreExplained(new)
    BY <1>4, <1>5, <2>1, ExplanationAddsUp DEF Coherent
  <2>3. Traceable(new.iocs, new.dynamic.evidence)
    BY <1>3, <1>4 DEF d
  <2> QED BY <1>4, <2>1, <2>2, <2>3 DEF Coherent, StatusAgrees
<1> QED BY <1>1, <1>2, <1>4, <1>6 DEF SoundCase

\* A run that is only added to a case without one contradicts nothing in it.
LEMMA ObservedIsSound ==
  ASSUME NEW c, SoundCase(c), c.dynamic = Absent, NEW dynamic, IsRun(dynamic),
         NEW new, new = [c EXCEPT !.dynamic = dynamic, !.analysis = "COMPLETED"]
  PROVE  SoundCase(new)
<1>1. VerdictFields \subseteq DOMAIN c
  BY DEF SoundCase
<1>2. /\ DOMAIN new = DOMAIN c /\ new.dynamic = dynamic
      /\ new.computed = c.computed /\ new.risk = c.risk /\ new.status = c.status
      /\ new.iocs = c.iocs /\ new.explanation = c.explanation
      /\ new.assessment = c.assessment /\ new.chain = c.chain
  BY <1>1 DEF VerdictFields
<1>3. Traceable(c.iocs, NoDynamic) => Traceable(new.iocs, new.dynamic.evidence)
  BY <1>2, UnseenIsTraceable
<1>4. Absent.evidence = NoDynamic
  BY NoDynamicIs
<1> QED BY <1>1, <1>2, <1>3, <1>4 DEF SoundCase, Coherent, ScoreExplained, PartsSum,
           StatusAgrees

\* Nor does another name or another state of its analysis.
LEMMA RelabelledIsSound ==
  ASSUME NEW c, VerdictFields \subseteq DOMAIN c, NEW x,
         NEW new \in {[c EXCEPT !.analysis = x], [c EXCEPT !.id = x]}
  PROVE  /\ SoundCase(c) => SoundCase(new)
         /\ Explainable(c) => Explainable(new)
         /\ new.dynamic = c.dynamic
<1>1. DOMAIN new = DOMAIN c /\ \A y \in VerdictFields : new[y] = c[y]
  BY DEF VerdictFields
<1> QED BY <1>1, SoundStays

-----------------------------------------------------------------------------
(* The inductive invariant *)

\* What is kept is sound, and every row is one the table takes.
SoundStore ==
    /\ \A id \in DOMAIN memory : SoundCase(memory[id].case)
    /\ \A id \in DOMAIN rows : SoundCase(rows[id]) /\ Acceptable(rows[id])

\* The steps from which a case has yet to be explained anew.
Open == {"analysed", "dynamic", "sandbox"}

\* So is what an actor holds; the worker asks the sandbox for a case without a
\* run only, and has no analysis of its own.
HoldsSound(a, r) ==
    /\ r.pc \in Holding \/ r.then \in Holding => SoundCase(r.case)
    /\ r.pc \in Open \/ r.then \in Open => Explainable(r.case)
    /\ a = Worker /\ (r.pc = "sandbox" \/ r.then = "sandbox") => r.case.dynamic = Absent
    /\ r.pc = "polling" => r.id = ""
    /\ r.then # "polling"

SoundRun == \A a \in Actors : HoldsSound(a, run[a])

HasStatus(job) == job.status \in Statuses

\* Every copy of a job, wherever it is on its way, has a status.
JobsTyped ==
    /\ \A id \in DOMAIN jobs : HasStatus(jobs[id])
    /\ \A id \in DOMAIN jobRows : HasStatus(jobRows[id])
    /\ \A a \in DOMAIN sending : \A job \in sending[a].values : HasStatus(job)
    /\ poll.row = NoJob \/ HasStatus(poll.row)

VerdictInv == StatusInv /\ SoundStore /\ SoundRun /\ JobsTyped

-----------------------------------------------------------------------------
(* The jobs *)

\* A table with one more job that has a status.
LEMMA FiledHasStatus ==
  ASSUME NEW table, \A x \in DOMAIN table : HasStatus(table[x]), NEW id, NEW job, HasStatus(job),
         NEW new, new = Filed(table, id, job)
  PROVE  \A x \in DOMAIN new : HasStatus(new[x])
  BY DEF Filed

\* A job is created and updated with a status.
LEMMA ReportedHasStatus ==
  ASSUME JobsTyped, JobsOK, UNCHANGED poll, NEW a, NEW id, NEW changes, HasStatus(changes),
         NEW database,
         CreateJob(a, id, changes, database) \/ UpdateJob(a, id, changes, database)
  PROVE  JobsTyped'
<1>1. PICK job :
         /\ HasStatus(job) /\ jobs' = Filed(jobs, id, job) /\ jobRows' = jobRows
         /\ DOMAIN sending' = DOMAIN sending
         /\ \A b \in DOMAIN sending :
               \/ sending'[b] = Sends(id, job)
               \/ sending'[b] = [sending[b] EXCEPT !.live = FALSE]
               \/ sending'[b] = [sending[b] EXCEPT !.values = @ \cup {job}]
               \/ sending'[b] = sending[b]
  <2>1. CASE CreateJob(a, id, changes, database)
    <3>1. /\ HasStatus(changes) /\ jobs' = Filed(jobs, id, changes) /\ jobRows' = jobRows
          /\ DOMAIN sending' = DOMAIN sending
          /\ \A b \in DOMAIN sending :
                \/ sending'[b] = Sends(id, changes)
                \/ sending'[b] = [sending[b] EXCEPT !.live = FALSE]
                \/ sending'[b] = sending[b]
      BY <2>1 DEF CreateJob
    <3> QED BY <3>1
  <2>2. CASE UpdateJob(a, id, changes, database)
    <3> DEFINE job == Merged(JobInMemory(id), changes)
    <3>1. /\ jobs' = Filed(jobs, id, job) /\ jobRows' = jobRows
          /\ DOMAIN sending' = DOMAIN sending
          /\ \A b \in DOMAIN sending :
                \/ sending'[b] = Sends(id, job)
                \/ sending'[b] = [sending[b] EXCEPT !.values = @ \cup {job}]
                \/ sending'[b] = sending[b]
      BY <2>2 DEF UpdateJob
    <3>2. job.status = changes.status
      BY DEF Merged, Changes, Given, HasStatus, Statuses
    <3>3. HasStatus(job)
      BY <3>2 DEF HasStatus
    <3> HIDE DEF job
    <3> QED BY <3>1, <3>3
  <2> QED BY <2>1, <2>2
<1>2. \A x \in DOMAIN jobs' : HasStatus(jobs'[x])
  BY <1>1, FiledHasStatus DEF JobsTyped
<1>3. ASSUME NEW b \in DOMAIN sending
      PROVE  \A j \in sending'[b].values : HasStatus(j)
  <2>1. /\ SendingFields \subseteq DOMAIN sending[b]
        /\ \A j \in sending[b].values : HasStatus(j)
    BY DEF JobsOK, JobsTyped
  <2>2. sending'[b].values \subseteq sending[b].values \cup {job}
    <3>1. Sends(id, job).values = {job}
      BY DEF Sends
    <3>2. /\ [sending[b] EXCEPT !.live = FALSE].values = sending[b].values
          /\ [sending[b] EXCEPT !.values = @ \cup {job}].values = sending[b].values \cup {job}
      BY <2>1 DEF SendingFields
    <3> QED BY <1>1, <3>1, <3>2
  <2> QED BY <1>1, <2>1, <2>2
<1> QED BY <1>1, <1>2, <1>3 DEF JobsTyped, HasStatus

\* So has what a write carries, gone through or lost.
LEMMA WrittenHasStatus ==
  ASSUME JobsTyped, UNCHANGED poll, NEW a \in DOMAIN sending,
         (\E job : PersistJob(a, job)) \/ LoseJobWrite(a)
  PROVE  JobsTyped'
<1>1. /\ jobs' = jobs /\ sending' = [sending EXCEPT ![a] = NotSending]
      /\ \/ jobRows' = jobRows
         \/ \E job \in sending[a].values : jobRows' = Filed(jobRows, sending[a].id, job)
  BY DEF PersistJob, LoseJobWrite
<1>2. \A x \in DOMAIN jobRows' : HasStatus(jobRows'[x])
  <2>1. CASE jobRows' = jobRows
    BY <2>1 DEF JobsTyped
  <2>2. ASSUME NEW job \in sending[a].values, jobRows' = Filed(jobRows, sending[a].id, job)
        PROVE  \A x \in DOMAIN jobRows' : HasStatus(jobRows'[x])
    BY <2>2, FiledHasStatus DEF JobsTyped
  <2> QED BY <1>1, <2>1, <2>2
<1>3. \A b \in DOMAIN sending' : \A j \in sending'[b].values : HasStatus(j)
  BY <1>1 DEF JobsTyped, NotSending
<1> QED BY <1>1, <1>2, <1>3 DEF JobsTyped, HasStatus

\* And the row a client reads and that becomes the job.
LEMMA AnsweredHasStatus ==
  ASSUME JobsTyped, JobsOK, AnswerStatus
  PROVE  JobsTyped'
<1>1. PICK row \in {poll.row, NoJob} :
         IF row = NoJob THEN UNCHANGED jobVars ELSE AdoptRow(poll.id, row)
  BY DEF AnswerStatus
<1>2. poll'.row = NoJob
  BY DEF AnswerStatus
<1>3. CASE row = NoJob
  BY <1>1, <1>2, <1>3 DEF JobsTyped, jobVars, HasStatus
<1>4. CASE row # NoJob
  <2>1. HasStatus(row)
    BY <1>4 DEF JobsTyped
  <2>2. /\ jobs' = Filed(jobs, poll.id, row) /\ jobRows' = jobRows
        /\ DOMAIN sending' = DOMAIN sending
        /\ \A b \in DOMAIN sending :
              \/ sending'[b] = [sending[b] EXCEPT !.live = FALSE]
              \/ sending'[b] = sending[b]
    BY <1>1, <1>4 DEF AdoptRow
  <2>3. \A x \in DOMAIN jobs' : HasStatus(jobs'[x])
    BY <2>1, <2>2, FiledHasStatus DEF JobsTyped
  <2>4. \A b \in DOMAIN sending : sending'[b].values = sending[b].values
    <3> TAKE b \in DOMAIN sending
    <3>1. SendingFields \subseteq DOMAIN sending[b]
      BY DEF JobsOK
    <3> QED BY <2>2, <3>1 DEF SendingFields
  <2> QED BY <1>2, <2>2, <2>3, <2>4 DEF JobsTyped, HasStatus
<1> QED BY <1>3, <1>4

\* What every other step does to the jobs.
LEMMA JobsStayTyped ==
  ASSUME JobsTyped, UNCHANGED <<jobVars, poll>>
  PROVE  JobsTyped'
  BY DEF JobsTyped, HasStatus, jobVars

\* Whoever reports, writes, asks or restarts: a job has a status.
LEMMA JobsAreTyped ==
  ASSUME JobsTyped, JobsOK, SendersOK, [Next]_vars
  PROVE  JobsTyped'
<1>1. ASSUME NEW a \in Uploaders,
             RejectUpload(a) \/ FindNoCase(a) \/ StartUpload(a) \/ RepeatUpload(a)
             \/ UploadStep(a)
      PROVE  JobsTyped'
  <2>1. UNCHANGED poll
    BY <1>1 DEF UploadStep, RejectUpload, FindNoCase, StartUpload, RepeatUpload, Validate,
                StartStatic, AnalyseUpload, SaveAlias, StartDynamic, Observe, RenewAlias,
                Complete, Fail
  <2> DEFINE Reports(id, changes) ==
                HasStatus(changes) /\ (\/ CreateJob(a, id, changes, setting.database)
                                      \/ UpdateJob(a, id, changes, setting.database))
  <2>2. \A d, e : /\ HasStatus(Changes("UPLOADED", d, e))
                  /\ HasStatus(Changes("VALIDATING", d, e))
                  /\ HasStatus(Changes("STATIC_ANALYSIS", d, e))
                  /\ HasStatus(Changes("DYNAMIC_ANALYSIS", d, e))
                  /\ HasStatus(Changes("COMPLETED", d, e))
                  /\ HasStatus(Changes("FAILED", d, e))
    BY DEF HasStatus, Changes, Statuses
  <2>3. UNCHANGED jobVars \/ \E id, changes : Reports(id, changes)
    <3>1. CASE RejectUpload(a) \/ FindNoCase(a) \/ AnalyseUpload(a) \/ SaveAlias(a)
               \/ Observe(a) \/ RenewAlias(a)
      BY <3>1 DEF RejectUpload, FindNoCase, AnalyseUpload, SaveAlias, Observe, RenewAlias
    <3>2. CASE StartUpload(a)
      <4>1. Reports(Uploaded(setting.upload[a]).of, Changes("UPLOADED", "", ""))
        BY <2>2, <3>2 DEF StartUpload
      <4> QED BY <4>1
    <3>3. CASE RepeatUpload(a)
      <4>1. \E id, d : Reports(id, Changes("COMPLETED", d, ""))
        BY <2>2, <3>3 DEF RepeatUpload, Report
      <4> QED BY <4>1
    <3>4. CASE Validate(a)
      <4>1. Reports(run[a].id, Changes("VALIDATING", "", ""))
        BY <2>2, <3>4 DEF Validate, Report
      <4> QED BY <4>1
    <3>5. CASE StartStatic(a)
      <4>1. Reports(run[a].id, Changes("STATIC_ANALYSIS", "", ""))
        BY <2>2, <3>5 DEF StartStatic, Report
      <4> QED BY <4>1
    <3>6. CASE StartDynamic(a)
      <4>1. Reports(run[a].id, Changes("DYNAMIC_ANALYSIS", "", ""))
        BY <2>2, <3>6 DEF StartDynamic
      <4> QED BY <4>1
    <3>7. CASE Complete(a)
      <4>1. Reports(run[a].id, Changes("COMPLETED", DynamicStatus(run[a].case), ""))
        BY <2>2, <3>7 DEF Complete, Report
      <4> QED BY <4>1
    <3>8. CASE Fail(a)
      <4>1. Reports(run[a].id, Changes("FAILED", "", "error"))
        BY <2>2, <3>8 DEF Fail, Report
      <4> QED BY <4>1
    <3> QED BY <1>1, <3>1, <3>2, <3>3, <3>4, <3>5, <3>6, <3>7, <3>8 DEF UploadStep
  <2>4. CASE UNCHANGED jobVars
    BY <2>1, <2>4, JobsStayTyped
  <2>5. ASSUME NEW id, NEW changes, Reports(id, changes)
        PROVE  JobsTyped'
    BY <2>1, <2>5, ReportedHasStatus
  <2> QED BY <2>3, <2>4, <2>5
<1>2. ASSUME NEW a \in Submitters, Submit(a)
      PROVE  JobsTyped'
  BY <1>2, JobsStayTyped DEF Submit
<1>3. ASSUME NEW a \in Actors, WriteStep(a)
      PROVE  JobsTyped'
  <2>1. UNCHANGED poll /\ a \in DOMAIN sending
    BY <1>3 DEF WriteStep, Persist, LosePersist, Begin, Commit, Abort, SendersOK
  <2>2. CASE Persist(a) \/ LosePersist(a)
    BY <2>1, <2>2, WrittenHasStatus DEF Persist, LosePersist
  <2>3. CASE Begin(a) \/ Commit(a) \/ Abort(a)
    BY <2>1, <2>3, JobsStayTyped DEF Begin, Commit, Abort
  <2> QED BY <1>3, <2>2, <2>3 DEF WriteStep
<1>4. ASSUME NEW r \in setting.ingest, Ingest(r)
      PROVE  JobsTyped'
  BY <1>4, JobsStayTyped DEF Ingest
<1>5. CASE WorkerStep
  BY <1>5, JobsStayTyped DEF WorkerStep, Pop, PopUnanswered, AnalyseJob, ObserveJob, FinishJob
<1>6. ASSUME NEW id, AskStatus(id)
      PROVE  JobsTyped'
  <2>1. /\ UNCHANGED jobVars
        /\ poll'.row = NoJob \/ (id \in DOMAIN jobRows /\ poll'.row = jobRows[id])
    BY <1>6 DEF AskStatus
  <2> QED BY <2>1 DEF JobsTyped, HasStatus, jobVars
<1>7. CASE Restart
  <2>1. /\ jobs' = <<>> /\ jobRows' = jobRows /\ poll'.row = NoJob
        /\ sending' = [a \in DOMAIN sending |-> NotSending]
    BY <1>7 DEF Restart, ForgetJobs
  <2>2. DOMAIN jobs' = {} /\ NotSending.values = {}
    BY <2>1, EmptyTable DEF NotSending
  <2> QED BY <2>1, <2>2 DEF JobsTyped, HasStatus
<1>8. CASE UNCHANGED vars
  BY <1>8, JobsStayTyped DEF vars, intakeVars
<1> QED BY <1>1, <1>2, <1>3, <1>4, <1>5, <1>6, <1>7, <1>8, AnsweredHasStatus DEF Next

-----------------------------------------------------------------------------
(* The store *)

\* A dict that was saved is changed to a sound case only.
LEMMA SharedIsSound ==
  ASSUME StoreOK, SoundStore, NEW a, NEW c, SoundCase(c)
  PROVE  /\ DOMAIN Shared(memory, a, c) = DOMAIN memory
         /\ \A id \in DOMAIN memory : SoundCase(Shared(memory, a, c)[id].case)
<1>1. CASE ~(c.id \in DOMAIN memory /\ memory[c.id].by = a)
  BY <1>1 DEF Shared, SoundStore
<1>2. CASE c.id \in DOMAIN memory /\ memory[c.id].by = a
  <2> DEFINE entry == [memory[c.id] EXCEPT !.case = c]
  <2>1. Shared(memory, a, c) = [memory EXCEPT ![c.id] = entry]
    BY <1>2 DEF Shared
  <2>2. entry.case = c
    BY <1>2 DEF StoreOK
  <2> HIDE DEF entry
  <2> QED BY <1>2, <2>1, <2>2 DEF SoundStore
<1> QED BY <1>1, <1>2

\* A save keeps the case under its id or under another.
LEMMA SaveIsSound ==
  ASSUME StoreOK, SoundStore, NEW a, NEW c, SoundCase(c), NEW id, NEW event, NEW then,
         Save(a, c, id, event, then)
  PROVE  SoundStore'
<1> DEFINE m == Shared(memory, a, c)
           kept == IF id = c.id THEN [case |-> c, by |-> a]
                   ELSE [case |-> [c EXCEPT !.id = id], by |-> "copy"]
<1>1. memory' = Put(m, id, kept) /\ rows' = rows
  BY DEF Save, Remembered
<1>2. SoundCase(kept.case)
  <2>1. VerdictFields \subseteq DOMAIN c
    BY DEF SoundCase
  <2>2. SoundCase([c EXCEPT !.id = id])
    BY <2>1, RelabelledIsSound
  <2> QED BY <2>2
<1>3. DOMAIN m = DOMAIN memory /\ \A x \in DOMAIN memory : SoundCase(m[x].case)
  BY SharedIsSound
<1> HIDE DEF m, kept
<1>4. /\ DOMAIN memory' = DOMAIN memory \cup {id} /\ memory'[id] = kept
      /\ \A x \in DOMAIN memory : x # id => memory'[x] = m[x]
  BY <1>1, <1>3 DEF Put
<1>5. \A x \in DOMAIN memory' : SoundCase(memory'[x].case)
  BY <1>2, <1>3, <1>4
<1>6. \A x \in DOMAIN rows' : SoundCase(rows'[x]) /\ Acceptable(rows'[x])
  BY <1>1 DEF SoundStore
<1> QED BY <1>5, <1>6 DEF SoundStore

\* A step that leaves the cases alone.
LEMMA SoundStoreStays ==
  ASSUME SoundStore, UNCHANGED <<memory, rows>>
  PROVE  SoundStore'
  BY DEF SoundStore

-----------------------------------------------------------------------------
(* The actors *)

\* A step of one actor is no concern of the others.
LEMMA SoundRunMoves ==
  ASSUME SoundRun, UNCHANGED setting, NEW a \in Actors, OthersStay(a), HoldsSound(a, run'[a])
  PROVE  SoundRun'
<1>1. Actors' = Actors
  BY ActorsStay
<1>2. \A b \in Actors : HoldsSound(b, run'[b])
  BY DEF SoundRun, OthersStay
<1> QED BY <1>1, <1>2 DEF SoundRun, HoldsSound

\* Nor is one that leaves every actor where it is.
LEMMA SoundRunStays ==
  ASSUME SoundRun, UNCHANGED <<setting, run>>
  PROVE  SoundRun'
<1>1. Actors' = Actors
  BY ActorsStay
<1> QED BY <1>1 DEF SoundRun, HoldsSound

\* A step that moves an actor on within its write, after it, to a new upload or to an end.
LEMMA GoesOnSound ==
  ASSUME RunOK, SoundRun, NEW a \in Actors, NEW pc, Goes(a, pc),
         \/ pc = run[a].then
         \/ pc = "commit" /\ run[a].pc = "begin"
         \/ pc \in {"unknown", "done", "fail", "finish"}
  PROVE  HoldsSound(a, run'[a])
<1>1. /\ run'[a].pc = pc /\ run'[a].then = run[a].then
      /\ run'[a].id = run[a].id /\ run'[a].case = run[a].case
  BY GoesFields
<1>2. HoldsSound(a, run[a])
  BY DEF SoundRun
<1> QED BY <1>1, <1>2 DEF HoldsSound, Holding, Open

\* A step that reports a status holds no case until it is written.
LEMMA ReportIsSound ==
  ASSUME RunOK, NEW a \in Actors, NEW id, NEW changes, NEW then \in {"static", "analyse", "done"},
         Report(a, id, changes, then)
  PROVE  HoldsSound(a, run'[a])
<1>1. run'[a].pc \in {"persist", then} /\ run'[a].then = then
  BY ReportFields
<1> QED BY <1>1 DEF HoldsSound, Holding, Open

\* A step that saves a sound case holds it.
LEMMA SaverIsSound ==
  ASSUME RunOK, NEW a \in Actors, NEW c, SoundCase(c), NEW id, NEW event, NEW then,
         Save(a, c, id, event, then), then # "polling", then \in Open => Explainable(c),
         a = Worker /\ then = "sandbox" => c.dynamic = Absent
  PROVE  HoldsSound(a, run'[a])
<1>1. /\ run'[a].pc \in {"begin", then} /\ run'[a].then = then /\ run'[a].case = c
  BY SaveFields
<1> QED BY <1>1 DEF HoldsSound, Open

\* What a step of a leaves sound.
Sound(a) == SoundStore' /\ HoldsSound(a, run'[a])

-----------------------------------------------------------------------------
(* The steps *)

\* The answer to an upload.
LEMMA RequestIsSound ==
  ASSUME VerdictInv, NEW a \in Uploaders,
         RejectUpload(a) \/ FindNoCase(a) \/ StartUpload(a) \/ RepeatUpload(a)
  PROVE  Sound(a)
<1>1. /\ RunOK /\ SoundRun /\ SoundStore /\ a \in Actors
      /\ ActorFields \subseteq DOMAIN run[a] /\ DOMAIN run = Actors
  BY DEF VerdictInv, StatusInv, CustodyInv, RunOK, ActorOK, Actors
<1>2. SoundStore'
  BY <1>1, SoundStoreStays DEF RejectUpload, FindNoCase, StartUpload, RepeatUpload, storeVars
<1>3. CASE RejectUpload(a)
  <2>1. Goes(a, "done")
    BY <1>3 DEF RejectUpload
  <2> QED BY <1>1, <2>1, <1>2, GoesOnSound DEF Sound
<1>4. CASE RepeatUpload(a)
  <2>1. \E id, changes : Report(a, id, changes, "done")
    BY <1>4 DEF RepeatUpload
  <2> QED BY <1>1, <2>1, <1>2, ReportIsSound DEF Sound
<1>5. CASE StartUpload(a)
  <2> DEFINE f == Uploaded(setting.upload[a])
             pc == IF setting.database THEN "persist" ELSE "validate"
  <2>1. run' = [run EXCEPT ![a].pc = pc, ![a].then = "validate",
                           ![a].id = f.of, ![a].file = f]
    BY <1>5 DEF StartUpload
  <2> HIDE DEF f, pc
  <2>2. run'[a] = [[[[run[a] EXCEPT !.pc = pc] EXCEPT !.then = "validate"]
                    EXCEPT !.id = f.of] EXCEPT !.file = f]
    BY <1>1, <2>1
  <2>3. run'[a].pc = pc /\ run'[a].then = "validate"
    BY <1>1, <2>2 DEF ActorFields
  <2>4. pc \in {"persist", "validate"}
    BY DEF pc
  <2> QED BY <1>2, <2>3, <2>4 DEF Sound, HoldsSound, Holding, Open
<1>6. CASE FindNoCase(a)
  <2>1. Goes(a, "unknown")
    BY <1>6 DEF FindNoCase
  <2> QED BY <1>1, <2>1, <1>2, GoesOnSound DEF Sound
<1> QED BY <1>3, <1>4, <1>5, <1>6

\* The steps of an upload: only the run, once it is known, changes the verdict.
LEMMA UploadIsSound ==
  ASSUME VerdictInv, NEW a \in Uploaders, UploadStep(a)
  PROVE  Sound(a)
<1>1. /\ RunOK /\ StoreOK /\ SoundRun /\ SoundStore /\ a \in Actors /\ a # Worker
      /\ ActorFields \subseteq DOMAIN run[a] /\ DOMAIN run = Actors
      /\ run[a].pc \in Reading => Analysable(run[a].file)
      /\ HoldsSound(a, run[a])
  BY WorkerAssumption DEF VerdictInv, StatusInv, CustodyInv, RunOK, ActorOK, Actors, SoundRun,
     Uploaders
<1>2. CASE Validate(a) \/ StartStatic(a) \/ Complete(a) \/ Fail(a)
  <2>1. /\ UNCHANGED <<memory, rows>>
        /\ \E id, ch : \E then \in {"static", "analyse", "done"} : Report(a, id, ch, then)
    BY <1>2 DEF Validate, StartStatic, Complete, Fail, storeVars
  <2> QED BY <1>1, <2>1, SoundStoreStays, ReportIsSound DEF Sound
<1>3. CASE AnalyseUpload(a)
  <2>1. PICK r \in {Outcome[run[a].file.of][run[a].file.suffix]} :
           IF r.kind = "case"
           THEN Save(a, [r.case EXCEPT !.analysis = "STATIC_ANALYSIS"], r.case.id,
                     "static_analysis_complete", "analysed")
           ELSE Goes(a, AfterFailure(r.kind)) /\ UNCHANGED storeVars
    BY <1>3 DEF AnalyseUpload
  <2>2. SoundOutcome(r)
    BY <1>1, <1>3, <2>1, AnalysisIsSound DEF AnalyseUpload, Reading
  <2>3. CASE r.kind = "case"
    <3> DEFINE c == [r.case EXCEPT !.analysis = "STATIC_ANALYSIS"]
    <3>1. SoundCase(r.case) /\ Explainable(r.case)
      BY <2>2, <2>3 DEF SoundOutcome
    <3>2. VerdictFields \subseteq DOMAIN r.case
      BY <3>1 DEF SoundCase
    <3>3. SoundCase(c) /\ Explainable(c)
      BY <3>1, <3>2, RelabelledIsSound
    <3>4. Save(a, c, r.case.id, "static_analysis_complete", "analysed")
      BY <2>1, <2>3
    <3> HIDE DEF c
    <3> QED BY <1>1, <3>3, <3>4, SaveIsSound, SaverIsSound DEF Sound
  <2>4. CASE r.kind # "case"
    <3>1. Goes(a, "fail") /\ UNCHANGED <<memory, rows>>
      BY <2>1, <2>4 DEF AfterFailure, storeVars
    <3> QED BY <1>1, <3>1, GoesOnSound, SoundStoreStays DEF Sound
  <2> QED BY <2>3, <2>4
<1>4. CASE SaveAlias(a)
  <2> DEFINE c == [run[a].case EXCEPT !.analysis = "DYNAMIC_ANALYSIS"]
  <2>1. run[a].pc = "analysed" /\ Save(a, c, run[a].id, "json_bson_alias", "dynamic")
    BY <1>4 DEF SaveAlias
  <2>2. SoundCase(run[a].case) /\ Explainable(run[a].case)
    BY <1>1, <2>1 DEF HoldsSound, Holding, Open
  <2>3. VerdictFields \subseteq DOMAIN run[a].case
    BY <2>2 DEF SoundCase
  <2>4. SoundCase(c) /\ Explainable(c)
    BY <2>2, <2>3, RelabelledIsSound
  <2> HIDE DEF c
  <2> QED BY <1>1, <2>1, <2>4, SaveIsSound, SaverIsSound DEF Sound
<1>5. CASE StartDynamic(a)
  <2> DEFINE c == [run[a].case EXCEPT !.analysis = "DYNAMIC_ANALYSIS"]
             pc == IF setting.database THEN "persist" ELSE "sandbox"
  <2>1. /\ run[a].pc \in {"analysed", "dynamic"} /\ rows' = rows
        /\ memory' = Shared(memory, a, c)
        /\ run' = [run EXCEPT ![a].pc = pc, ![a].then = "sandbox", ![a].case = c]
    BY <1>5 DEF StartDynamic
  <2>2. SoundCase(run[a].case) /\ Explainable(run[a].case)
    BY <1>1, <2>1 DEF HoldsSound, Holding, Open
  <2>3. VerdictFields \subseteq DOMAIN run[a].case
    BY <2>2 DEF SoundCase
  <2>4. SoundCase(c) /\ Explainable(c)
    BY <2>2, <2>3, RelabelledIsSound
  <2> HIDE DEF c, pc
  <2>5. SoundStore'
    <3>1. DOMAIN memory' = DOMAIN memory /\ \A id \in DOMAIN memory : SoundCase(memory'[id].case)
      BY <1>1, <2>1, <2>4, SharedIsSound
    <3>2. \A id \in DOMAIN rows' : SoundCase(rows'[id]) /\ Acceptable(rows'[id])
      BY <1>1, <2>1 DEF SoundStore
    <3> QED BY <3>1, <3>2 DEF SoundStore
  <2>6. run'[a] = [[[run[a] EXCEPT !.pc = pc] EXCEPT !.then = "sandbox"] EXCEPT !.case = c]
    BY <1>1, <2>1
  <2>7. run'[a].pc = pc /\ run'[a].then = "sandbox" /\ run'[a].case = c
    BY <1>1, <2>6 DEF ActorFields
  <2> QED BY <1>1, <2>4, <2>5, <2>7 DEF Sound, HoldsSound, pc
<1>6. CASE Observe(a)
  <2> DEFINE c == run[a].case
             answers == IF c.dynamic.status \in {"absent", "none"}
                        THEN SandboxAnswers(setting.sandbox, run[a].file.suffix, c.platform)
                        ELSE {c.dynamic}
  <2>1. /\ run[a].pc = "sandbox"
        /\ \E dynamic \in answers : \E id, e : \E then \in {"complete", "observed"} :
              Save(a, WithDynamic(c, dynamic), id, e, then)
    BY <1>6 DEF Observe
  <2>2. SoundCase(c) /\ Explainable(c)
    BY <1>1, <2>1 DEF HoldsSound, Holding, Open
  <2>3. \A dynamic \in answers : IsRun(dynamic)
    BY <2>2, AnswersAreRuns DEF SoundCase
  <2> HIDE DEF c, answers
  <2>4. PICK dynamic \in answers :
           \E id, e : \E then \in {"complete", "observed"} :
              Save(a, WithDynamic(c, dynamic), id, e, then)
    BY <2>1
  <2>5. SoundCase(WithDynamic(c, dynamic))
    BY <2>2, <2>3, RenewedIsSound
  <2> QED BY <1>1, <2>4, <2>5, SaveIsSound, SaverIsSound DEF Sound, Open
<1>7. CASE RenewAlias(a)
  <2>1. run[a].pc = "observed" /\ \E e : Save(a, run[a].case, run[a].id, e, "complete")
    BY <1>7 DEF RenewAlias
  <2>2. SoundCase(run[a].case)
    BY <1>1, <2>1 DEF HoldsSound, Holding
  <2> QED BY <1>1, <2>1, <2>2, SaveIsSound, SaverIsSound DEF Sound, Open
<1> QED BY <1>2, <1>3, <1>4, <1>5, <1>6, <1>7 DEF UploadStep

\* A submission.
LEMMA SubmitIsSound ==
  ASSUME VerdictInv, NEW a \in Submitters, Submit(a)
  PROVE  Sound(a)
<1> DEFINE r == setting.submit[a]
<1>1. RunOK /\ StoreOK /\ SoundRun /\ SoundStore /\ a \in Actors /\ setting \in Settings
  BY DEF VerdictInv, StatusInv, CustodyInv, RunOK, Actors
<1>2. \E id, e : Save(a, SubmittedCase(r), id, e, "done")
  BY DEF Submit
<1>3. IsFiniteSet(r.static.yara) /\ AreChains(r.dynamic.chains)
  <2>1. /\ IsFiniteSet(r.static.yara)
        /\ r.dynamic.chains \in Seq([rule : STRING, severity : STRING, points : Int])
    BY <1>1, EvidenceAssumption DEF Submitters
  <2>2. \A k \in [rule : STRING, severity : STRING, points : Int] : k.points \in Int
    OBVIOUS
  <2> QED BY <2>1, <2>2 DEF AreChains
<1> HIDE DEF r
<1>4. SoundCase(SubmittedCase(r))
  BY <1>3, SubmittedIsSound
<1> QED BY <1>1, <1>2, <1>4, SaveIsSound, SaverIsSound DEF Sound, Open

\* The worker adds the evidence to a case that has none.
LEMMA WorkerIsSound ==
  ASSUME VerdictInv, WorkerStep
  PROVE  Sound(Worker)
<1>1. /\ RunOK /\ StoreOK /\ SoundRun /\ SoundStore /\ Worker \in Actors
      /\ ActorFields \subseteq DOMAIN run[Worker] /\ DOMAIN run = Actors
      /\ run[Worker].pc \in Reading => Analysable(run[Worker].file)
      /\ HoldsSound(Worker, run[Worker])
  BY DEF VerdictInv, StatusInv, CustodyInv, RunOK, ActorOK, Actors, SoundRun
<1>2. CASE Pop
  <2> DEFINE f == [of |-> Head(queue), suffix |-> DetectFormat(Contents[Head(queue)])]
  <2>1. /\ run' = [run EXCEPT ![Worker].pc = "analyse", ![Worker].file = f]
        /\ UNCHANGED <<memory, rows>>
    BY <1>2 DEF Pop, storeVars
  <2> HIDE DEF f
  <2>2. run'[Worker] = [[run[Worker] EXCEPT !.pc = "analyse"] EXCEPT !.file = f]
    BY <1>1, <2>1
  <2>3. /\ run'[Worker].pc = "analyse" /\ run'[Worker].then = run[Worker].then
        /\ run'[Worker].case = run[Worker].case
    BY <1>1, <2>2 DEF ActorFields
  <2> QED BY <1>1, <2>1, <2>3, SoundStoreStays DEF Sound, HoldsSound, Holding, Open
<1>3. CASE AnalyseJob
  <2>1. PICK r \in {Outcome[run[Worker].file.of][run[Worker].file.suffix]} :
           IF r.kind = "case"
           THEN Save(Worker, r.case, r.case.id, "ingested_via_queue",
                     IF r.case.dynamic = Absent THEN "sandbox" ELSE "finish")
           ELSE Goes(Worker, "finish") /\ UNCHANGED storeVars
    BY <1>3 DEF AnalyseJob
  <2>2. SoundOutcome(r)
    BY <1>1, <1>3, <2>1, AnalysisIsSound DEF AnalyseJob, Reading
  <2>3. CASE r.kind = "case"
    <3> DEFINE then == IF r.case.dynamic = Absent THEN "sandbox" ELSE "finish"
    <3>1. SoundCase(r.case) /\ Explainable(r.case)
      BY <2>2, <2>3 DEF SoundOutcome
    <3>2. Save(Worker, r.case, r.case.id, "ingested_via_queue", then)
      BY <2>1, <2>3
    <3>3. then # "polling" /\ (then = "sandbox" => r.case.dynamic = Absent)
      OBVIOUS
    <3> HIDE DEF then
    <3> QED BY <1>1, <3>1, <3>2, <3>3, SaveIsSound, SaverIsSound DEF Sound
  <2>4. CASE r.kind # "case"
    <3>1. Goes(Worker, "finish") /\ UNCHANGED <<memory, rows>>
      BY <2>1, <2>4 DEF storeVars
    <3> QED BY <1>1, <3>1, GoesOnSound, SoundStoreStays DEF Sound
  <2> QED BY <2>3, <2>4
<1>4. CASE ObserveJob
  <2> DEFINE c == run[Worker].case
             answers == SandboxAnswers(setting.sandbox, run[Worker].file.suffix, c.platform)
             New(dynamic) == [c EXCEPT !.dynamic = dynamic, !.analysis = "COMPLETED"]
  <2>1. /\ run[Worker].pc = "sandbox"
        /\ \E dynamic \in answers : \E id, e : Save(Worker, New(dynamic), id, e, "finish")
    BY <1>4 DEF ObserveJob
  <2>2. SoundCase(c) /\ c.dynamic = Absent
    BY <1>1, <2>1 DEF HoldsSound, Holding
  <2>3. \A dynamic \in answers : SoundCase(New(dynamic))
    <3> TAKE dynamic \in answers
    <3>1. IsRun(dynamic)
      BY AnswersAreRuns
    <3> HIDE DEF c, answers
    <3> QED BY <2>2, <3>1, ObservedIsSound
  <2> HIDE DEF c, answers, New
  <2> QED BY <1>1, <2>1, <2>3, SaveIsSound, SaverIsSound DEF Sound, Open
<1>5. CASE FinishJob
  <2>1. run'[Worker] = [Waiting EXCEPT !.pc = "polling"] /\ UNCHANGED <<memory, rows>>
    BY <1>1, <1>5 DEF FinishJob, storeVars
  <2>2. run'[Worker].pc = "polling" /\ run'[Worker].id = "" /\ run'[Worker].then = ""
    BY <2>1 DEF Waiting
  <2> QED BY <1>1, <2>1, <2>2, SoundStoreStays DEF Sound, HoldsSound, Holding, Open
<1>6. CASE PopUnanswered
  <2>1. UNCHANGED <<memory, rows, run>>
    BY <1>6 DEF PopUnanswered, storeVars
  <2> QED BY <1>1, <2>1, SoundStoreStays DEF Sound
<1> QED BY <1>2, <1>3, <1>4, <1>5, <1>6 DEF WorkerStep

\* What is written is a status, or the case the actor holds if the table takes it.
LEMMA WriteIsSound ==
  ASSUME VerdictInv, NEW a \in Actors, WriteStep(a)
  PROVE  Sound(a)
<1>1. /\ RunOK /\ StoreOK /\ SoundRun /\ SoundStore
      /\ HoldsSound(a, run[a])
      /\ run[a].pc \in Holding => IsCase(run[a].case)
  BY DEF VerdictInv, StatusInv, CustodyInv, RunOK, ActorOK, SoundRun
<1>2. CASE Persist(a) \/ LosePersist(a) \/ Abort(a)
  <2>1. Goes(a, run[a].then) /\ UNCHANGED <<memory, rows>>
    BY <1>2 DEF Persist, LosePersist, Abort, AbortSave, storeVars
  <2> QED BY <1>1, <2>1, GoesOnSound, SoundStoreStays DEF Sound
<1>3. CASE Begin(a)
  <2>1. run[a].pc = "begin" /\ Goes(a, "commit") /\ UNCHANGED <<memory, rows>>
    BY <1>3 DEF Begin, BeginSave
  <2> QED BY <1>1, <2>1, GoesOnSound, SoundStoreStays DEF Sound
<1>4. CASE Commit(a)
  <2> DEFINE id == run[a].row
             c == run[a].case
             saved == [c EXCEPT !.id = id]
             row == IF id \in DOMAIN rows
                    THEN [saved EXCEPT !.platform = rows[id].platform,
                                       !.ftype = rows[id].ftype]
                    ELSE saved
  <2>1. /\ run[a].pc = "commit" /\ Acceptable(c) /\ Goes(a, run[a].then)
        /\ memory' = memory /\ rows' = Put(rows, id, row)
    BY <1>4 DEF Commit, CommitSave, Refused
  <2>2. SoundCase(c) /\ IsCase(c)
    BY <1>1, <2>1 DEF HoldsSound, Holding
  <2>3. VerdictFields \subseteq DOMAIN c /\ CaseFields \subseteq DOMAIN c
    BY <2>2 DEF SoundCase, IsCase
  <2>4. id \in DOMAIN rows => rows[id].platform \in {"android", "windows", "linux", "macos"}
    BY <1>1 DEF SoundStore, Acceptable
  <2> HIDE DEF c, id
  <2>5. DOMAIN row = DOMAIN c /\ \A x \in VerdictFields : row[x] = c[x]
    <3>1. DOMAIN saved = DOMAIN c /\ \A x \in VerdictFields : saved[x] = c[x]
      BY <2>3 DEF VerdictFields
    <3> HIDE DEF saved
    <3> QED BY <3>1 DEF VerdictFields
  <2>6. Acceptable(row)
    <3>1. /\ DOMAIN saved = DOMAIN c /\ saved.platform = c.platform
          /\ saved.status = c.status /\ saved.risk = c.risk
      BY <2>3 DEF CaseFields
    <3> HIDE DEF saved
    <3>2. row.status = c.status /\ row.risk = c.risk
      BY <3>1
    <3>3. row.platform = IF id \in DOMAIN rows THEN rows[id].platform ELSE c.platform
      BY <2>3, <3>1 DEF CaseFields
    <3> HIDE DEF row
    <3> QED BY <2>1, <2>4, <3>2, <3>3 DEF Acceptable
  <2> HIDE DEF row, saved
  <2>7. SoundCase(row)
    BY <2>2, <2>5, SoundStays
  <2>8. /\ DOMAIN rows' = DOMAIN rows \cup {id} /\ rows'[id] = row
        /\ \A x \in DOMAIN rows \ {id} : rows'[x] = rows[x]
    BY <2>1 DEF Put
  <2>9. \A x \in DOMAIN rows' : SoundCase(rows'[x]) /\ Acceptable(rows'[x])
    BY <1>1, <2>6, <2>7, <2>8 DEF SoundStore
  <2>10. SoundStore'
    <3>1. \A x \in DOMAIN memory' : SoundCase(memory'[x].case)
      BY <1>1, <2>1 DEF SoundStore
    <3> QED BY <2>9, <3>1 DEF SoundStore
  <2> QED BY <1>1, <2>1, <2>10, GoesOnSound DEF Sound
<1> QED BY <1>2, <1>3, <1>4 DEF WriteStep

\* After a restart nobody holds anything, and the rows are what they were.
LEMMA RestartIsSound ==
  ASSUME VerdictInv, Restart
  PROVE  SoundStore' /\ SoundRun'
<1>1. memory' = <<>> /\ rows' = rows /\ UNCHANGED setting
  BY DEF Restart, ForgetCases
<1>2. SoundStore'
  <2>1. DOMAIN memory' = {}
    BY <1>1, EmptyTable
  <2>2. \A id \in DOMAIN rows' : SoundCase(rows'[id]) /\ Acceptable(rows'[id])
    BY <1>1 DEF VerdictInv, SoundStore
  <2> QED BY <2>1, <2>2 DEF SoundStore
<1>3. PICK worker \in {"polling", "off"} :
         run' = [a \in Actors |->
                   IF a = Worker THEN [Waiting EXCEPT !.pc = worker]
                   ELSE IF AtWork(a) THEN [Waiting EXCEPT !.pc = "done"] ELSE run[a]]
  BY DEF Restart
<1>4. ASSUME NEW a \in Actors PROVE HoldsSound(a, run'[a])
  <2>1. \/ run'[a] = run[a]
        \/ run'[a].then = "" /\ run'[a].id = "" /\ run'[a].pc \in {"polling", "off", "done"}
    BY <1>3 DEF Waiting
  <2>2. HoldsSound(a, run[a])
    BY DEF VerdictInv, SoundRun
  <2> QED BY <2>1, <2>2 DEF HoldsSound, Holding, Open
<1>5. Actors' = Actors
  BY <1>1, ActorsStay
<1>6. SoundRun'
  BY <1>4, <1>5 DEF SoundRun
<1> QED BY <1>2, <1>6

-----------------------------------------------------------------------------
(* What holds in every behaviour *)

\* Every step keeps what is stored and held sound.
LEMMA VerdictStepKeeps == VerdictInv /\ [Next]_vars => VerdictInv'
<1> SUFFICES ASSUME VerdictInv, [Next]_vars PROVE VerdictInv'
  OBVIOUS
<1>1. StatusInv'
  BY StatusStepKeeps DEF VerdictInv
<1>2. JobsTyped'
  BY JobsAreTyped DEF VerdictInv, StatusInv
<1>3. /\ RunOK /\ QueueInv /\ SoundRun /\ SoundStore
      /\ Uploaders \subseteq Actors /\ Submitters \subseteq Actors /\ Worker \in Actors
  BY DEF VerdictInv, StatusInv, CustodyInv, Actors
<1>4. ASSUME NEW a \in Actors, LocalStep(a) \/ WriteStep(a), Sound(a)
      PROVE  SoundStore' /\ SoundRun'
  <2>1. UNCHANGED setting /\ OthersStay(a)
    <3>1. CASE LocalStep(a)
      BY <3>1 DEF LocalStep
    <3>2. CASE WriteStep(a)
      <4>1. UNCHANGED setting /\ \E pc : Goes(a, pc)
        BY <3>2 DEF WriteStep, Persist, LosePersist, Begin, Commit, Abort
      <4> QED BY <1>3, <4>1 DEF Goes, OthersStay, RunOK
    <3> QED BY <1>4, <3>1, <3>2
  <2> QED BY <1>3, <1>4, <2>1, SoundRunMoves DEF Sound
<1>5. ASSUME UNCHANGED <<memory, rows, run, setting>>
      PROVE  SoundStore' /\ SoundRun'
  BY <1>3, <1>5, SoundStoreStays, SoundRunStays
<1>6. SoundStore' /\ SoundRun'
  <2>1. ASSUME NEW a \in Uploaders,
               RejectUpload(a) \/ FindNoCase(a) \/ StartUpload(a) \/ RepeatUpload(a)
               \/ UploadStep(a)
        PROVE  SoundStore' /\ SoundRun'
    <3>1. LocalStep(a) /\ Sound(a)
      BY <1>3, <2>1, RequestLocal, UploadLocal, RequestIsSound, UploadIsSound
    <3> QED BY <1>3, <1>4, <3>1
  <2>2. ASSUME NEW a \in Submitters, Submit(a)
        PROVE  SoundStore' /\ SoundRun'
    <3>1. LocalStep(a) /\ Sound(a)
      BY <1>3, <2>2, SubmitLocal, SubmitIsSound
    <3> QED BY <1>3, <1>4, <3>1
  <2>3. ASSUME NEW a \in Actors, WriteStep(a)
        PROVE  SoundStore' /\ SoundRun'
    BY <1>4, <2>3, WriteIsSound
  <2>4. CASE WorkerStep
    BY <1>3, <1>4, <2>4, WorkerLocal, WorkerIsSound
  <2>5. ASSUME NEW r \in setting.ingest, Ingest(r)
        PROVE  SoundStore' /\ SoundRun'
    BY <1>5, <2>5 DEF Ingest, storeVars
  <2>6. CASE AnswerStatus \/ \E id \in Asked : AskStatus(id)
    BY <1>5, <2>6 DEF AnswerStatus, AskStatus, storeVars
  <2>7. CASE UNCHANGED vars
    BY <1>5, <2>7 DEF vars, storeVars, intakeVars
  <2> QED BY <2>1, <2>2, <2>3, <2>4, <2>5, <2>6, <2>7, RestartIsSound DEF Next
<1> QED BY <1>1, <1>2, <1>6 DEF VerdictInv

\* Nothing is stored or held at first.
LEMMA InitVerdictInv == Init => VerdictInv
<1> SUFFICES ASSUME Init PROVE VerdictInv
  OBVIOUS
<1>1. /\ memory = <<>> /\ rows = <<>> /\ jobs = <<>> /\ jobRows = <<>>
      /\ sending = [a \in Actors |-> NotSending]
      /\ poll.row = NoJob
      /\ run = [a \in Actors |->
                  IF a = Worker THEN [Waiting EXCEPT !.pc = "polling"] ELSE Waiting]
  BY DEF Init, InitStore, InitJobs
<1>2. /\ DOMAIN memory = {} /\ DOMAIN rows = {} /\ DOMAIN jobs = {} /\ DOMAIN jobRows = {}
  BY <1>1, EmptyTable
<1>3. SoundStore
  BY <1>2 DEF SoundStore
<1>4. ASSUME NEW a \in Actors
      PROVE  run[a].then = "" /\ run[a].id = "" /\ run[a].pc \in {"polling", "waiting"}
  BY <1>1 DEF Waiting
<1>5. SoundRun
  BY <1>4 DEF SoundRun, HoldsSound, Holding, Open
<1>6. JobsTyped
  BY <1>1, <1>2 DEF JobsTyped, NotSending
<1> QED BY <1>3, <1>5, <1>6, InitStatusInv DEF VerdictInv

\* Every stored case is one of those the invariant speaks of.
LEMMA StoredAreSound ==
  ASSUME SoundStore, NEW c \in StoredCases
  PROVE  SoundCase(c)
  BY DEF SoundStore, StoredCases

\* So the records are what the code keeps.
LEMMA VerdictInvIsTyped == VerdictInv => TypeOK
<1> SUFFICES ASSUME VerdictInv PROVE TypeOK
  OBVIOUS
<1>1. SoundStore /\ SoundRun /\ JobsTyped /\ LockOK
  BY DEF VerdictInv, StatusInv, CustodyInv
<1>2. \A id \in DOMAIN rows : Acceptable(rows[id])
  BY <1>1 DEF SoundStore
<1>3. \A c \in StoredCases : c.computed => c.risk \in 0..100
  BY <1>1, StoredAreSound DEF SoundCase, Coherent
<1>4. /\ \A id \in DOMAIN jobs : jobs[id].status \in Statuses
      /\ \A id \in DOMAIN jobRows : jobRows[id].status \in Statuses
  BY <1>1 DEF JobsTyped, HasStatus
<1>5. \A a \in Actors : run[a].id # "" => run[a].pc # "polling"
  BY <1>1 DEF SoundRun, HoldsSound
<1>6. \A id \in DOMAIN holder : holder[id] \in DOMAIN tail
  BY <1>1 DEF LockOK
<1> QED BY <1>2, <1>3, <1>4, <1>5, <1>6 DEF TypeOK

\* And what is said of a sample hangs together.
LEMMA VerdictInvIsSound == VerdictInv => VerdictSound
<1> SUFFICES ASSUME VerdictInv PROVE VerdictSound
  OBVIOUS
<1>1. ASSUME NEW c \in StoredCases, c.computed
      PROVE  /\ ScoreExplained(c) /\ StatusAgrees(c) /\ IndicatorsTraceable(c)
             /\ c.chain # "tampered"
  <2>1. SoundCase(c)
    BY StoredAreSound DEF VerdictInv
  <2> QED BY <1>1, <2>1, TraceableIs DEF SoundCase, Coherent
<1> QED BY <1>1, EvidenceIsMonotone DEF VerdictSound

\* Every row is one the table takes, every score that was computed is between 0
\* and 100 and every copy of a job has a status, whatever is uploaded, submitted
\* or queued and however its steps fall together.
THEOREM StoreIsTyped == Spec => []TypeOK
<1> QED BY InitVerdictInv, VerdictStepKeeps, VerdictInvIsTyped, PTL DEF Spec

\* The verdict of every stored case hangs together, before and after its run is
\* known, under each of its names: the explanation adds up to the score, status
\* and verdict agree, every indicator rests on evidence the case carries and no
\* chain of links is broken; and less evidence never scores higher.
THEOREM VerdictsAreSound == Spec => []VerdictSound
<1> QED BY InitVerdictInv, VerdictStepKeeps, VerdictInvIsSound, PTL DEF Spec

=============================================================================
