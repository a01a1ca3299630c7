----------------------------- MODULE CaseAnalysis -----------------------------
(***************************************************************************)
(* From a file to a case: what the two entry points accept (ingestion/,    *)
(* backend/app/routers/cases.py), what analyze_and_save makes of it        *)
(* (backend/app/analysis.py) and what the sandbox adds (sandbox.py).       *)
(*                                                                         *)
(* The content of a JSON or BSON file has a doc: its shape ("broken",      *)
(* "list", "report" for a document with a static_analysis, "case" for a    *)
(* dump of a case) and what it says.  Domains that are well known are in   *)
(* Benign.  The extension of a file is its suffix without the dot.         *)
(***************************************************************************)
EXTENDS Investigation, StaticEngine

CONSTANTS Benign, ScamWords

MinSampleBytes == 64
MaxSampleBytes == 256 * 1024 * 1024
MaxUploadBytes == 100 * 1024 * 1024

-----------------------------------------------------------------------------
(* What is accepted *)

\* The gateway goes by the content: a name that disagrees is no objection.
DetectFormat(c) ==
    IF Declared(c) # "none" THEN Declared(c)
    ELSE IF c.magic \in {"json", "bson"} THEN c.magic ELSE "none"

ValidSample(h) ==
    /\ Contents[h].size \in MinSampleBytes..MaxSampleBytes
    /\ DetectFormat(Contents[h]) # "none"

HighRiskPermissions ==
    {"READ_SMS", "RECEIVE_SMS", "SYSTEM_ALERT_WINDOW", "READ_CONTACTS", "READ_CALL_LOG"}

\* Keywords of a scam and two high-risk permissions put a sample first.
HighPriority(package, permissions) ==
    /\ \E category \in DOMAIN ScamWords : ScamWords[category] \cap package # {}
    /\ LET risky == Cardinality(permissions \cap HighRiskPermissions)
       IN  40 + AtMost(15 * risky, 50) >= 70

AllowedSuffixes == {"apk", "exe", "dll", "elf", "macho", "dylib", "zip", "json", "bson"}

NoFile == [of |-> "", suffix |-> ""]

\* The one sample of a zip, if there is no other in it.
ZipSample(c) ==
    LET samples == {i \in 1..Len(c.members) :
                      c.members[i].suffix \in AllowedSuffixes \ {"zip"}}
        sample == c.members[CHOOSE i \in samples : TRUE]
    IN  IF /\ c.magic = "zip" /\ Cardinality(samples) = 1 /\ ~sample.unreadable
           /\ SizeOf(sample) \in 1..MaxUploadBytes
        THEN [of |-> sample.of, suffix |-> sample.suffix]
        ELSE NoFile

\* What an upload hands on of file f: a zip is opened, all else taken as named.
Uploaded(f) ==
    IF \/ f.suffix \notin AllowedSuffixes
       \/ Contents[f.of].size \notin 1..MaxUploadBytes
    THEN NoFile
    ELSE IF f.suffix = "zip" THEN ZipSample(Contents[f.of]) ELSE f

-----------------------------------------------------------------------------
(* Indicators and how they are judged *)

HostsOf(urls) == {Words[u].host : u \in urls} \ {""}

IsIp(w) == Words[w].type = "ipv4"

\* Of the explained words a domain and a mailbox go to the domains, a URL
\* nowhere; an address that is known already is taken for a domain.
NetworkIndicators(ips, urls, explained, d) ==
    LET named == {w \in explained :
                    /\ \/ Words[w].type = "domain"
                       \/ ExplainedCategory(w) = "network_indicator"
                    /\ Words[w].type # "url"
                    /\ IsIp(w) => w \in ips}
        contacted == {c.ip : c \in ToSet(d.connections)}
        hosts == HostsOf(urls) \cup d.endpoints
    IN  [ips |-> ips \cup {w \in explained \cup hosts : IsIp(w)} \cup contacted,
         domains |-> named \cup {w \in hosts : ~IsIp(w)},
         urls |-> urls, dns |-> d.dns,
         connections |-> [i \in 1..Len(d.connections) |->
                            [ip |-> d.connections[i].ip, c2 |-> d.connections[i].c2]]]

\* Of several connections to an address the last one decides.
IocIntelligence(staticIps, d, indicators) ==
    LET To(ip) == {i \in 1..Len(d.connections) : d.connections[i].ip = ip}
        Ioc(type, w, class, state) ==
            [type |-> type, indicator |-> w, class |-> class, state |-> state]
    IN  {Ioc("IP", ip,
             IF To(ip) = {} THEN "UNKNOWN"
             ELSE IF d.connections[Max(To(ip))].c2 THEN "MALICIOUS" ELSE "SUSPICIOUS",
             IF To(ip) # {} /\ ip \in staticIps THEN "CORROBORATED" ELSE "OBSERVED") :
            ip \in indicators.ips}
        \cup {Ioc("DOMAIN", x,
                  IF x \in Benign THEN "BENIGN"
                  ELSE IF x \in d.dns THEN "SUSPICIOUS" ELSE "UNKNOWN",
                  IF x \in d.dns THEN "CORROBORATED" ELSE "OBSERVED") :
                x \in indicators.domains}
        \cup {Ioc("URL", u,
                  IF Words[u].host \in Benign THEN "BENIGN" ELSE "SUSPICIOUS",
                  "OBSERVED") : u \in indicators.urls}

Correlations(staticIps, yara, d, techniques) ==
    {[finding |-> c.ip, severity |-> IF c.c2 THEN "HIGH" ELSE "MEDIUM",
      state |-> IF c.ip \in staticIps THEN "CORROBORATED" ELSE "OBSERVED"] :
        c \in ToSet(d.connections)}
    \cup {[finding |-> y.rule, severity |-> y.severity, state |-> "OBSERVED"] : y \in yara}
    \cup {[finding |-> t.id, severity |-> "MEDIUM",
           state |-> IF d.observed THEN "CORROBORATED" ELSE "INFERRED"] : t \in techniques}

EvidenceTimeline(d, correlations) ==
    {"received", "analysed"} \cup {c.ip : c \in ToSet(d.connections)} \cup d.dns
    \cup When(correlations # {}, {"correlated"})

\* What the parts do not explain is put down to the remaining rules.
RiskExplanation(risk, yara, techniques, capabilities) ==
    LET rules == 15 * Cardinality(yara)
        mapped == 8 * Cardinality(techniques)
        tagged == CapabilityPoints(capabilities)
        explained == rules + mapped + tagged
    IN  [yara |-> rules, mitre |-> mapped, capabilities |-> tagged,
         other |-> IF risk > explained THEN risk - explained ELSE 0]

NoExplanation == RiskExplanation(0, {}, {}, {})

ThreatAssessment(risk, yara, techniques, dynamic) ==
    [level |-> ThreatLevel(risk), verdict |-> Verdict(risk),
     confidence |-> Confidence(Cardinality(yara), Cardinality(techniques), dynamic)]

\* Only addresses, domains and flagged connections are spoken of.
NetworkInterpretation(indicators) ==
    IF indicators.ips = {} /\ indicators.domains = {} THEN [told |-> FALSE]
    ELSE [told |-> TRUE, ips |-> Cardinality(indicators.ips),
          flagged |-> {c.ip : c \in {x \in ToSet(indicators.connections) : x.c2}},
          domains |-> Cardinality(indicators.domains),
          urls |-> Cardinality(indicators.urls)]

-----------------------------------------------------------------------------
(* The case *)

Absent    == [status |-> "absent", evidence |-> NoDynamic]
Nothing   == [status |-> "none", evidence |-> NoDynamic]

\* What the case shows of the agents' conclusions g and of the evidence shown.
CaseFrom(id, s, shown, explained, g, indicators, cards, assessment) ==
    [id |-> id, computed |-> TRUE, platform |-> s.platform, ftype |-> s.ftype,
     risk |-> g.risk, status |-> StatusOfScore(g.risk),
     yara |-> s.yara, techniques |-> g.techniques, capabilities |-> g.capabilities,
     explained |-> explained, indicators |-> indicators,
     iocs |-> IocIntelligence(s.ips, shown, indicators),
     correlation |-> cards, timeline |-> EvidenceTimeline(shown, cards),
     explanation |-> RiskExplanation(g.risk, s.yara, g.techniques, g.capabilities),
     assessment |-> assessment,
     ai |-> [classification |-> assessment.verdict,
             recommendations |-> {g.recommendations[i].about :
                                    i \in 1..Len(g.recommendations)},
             network |-> NetworkInterpretation(indicators)],
     chain |-> g.chain, dynamic |-> Absent, analysis |-> "none"]

Judged(id, s, shown, explained, g) ==
    CaseFrom(id, s, shown, explained, g,
             NetworkIndicators(s.ips, s.urls, explained, shown),
             Correlations(s.ips, s.yara, shown, g.techniques),
             ThreatAssessment(g.risk, s.yara, g.techniques, shown.observed))

\* The agents saw the dynamic evidence judged, the case shows the one shown.
CaseOf(id, s, judged, shown, explained) ==
    Judged(id, s, shown, explained, AgentGraph(s, judged))

\* A severity that is none of the four counts as medium.
StaticEvidence(report) ==
    [yara |-> {[y EXCEPT !.severity = IF @ \in Severities THEN @ ELSE "medium"] :
                y \in report.yara},
     permissions |-> report.permissions, imports |-> report.imports,
     keywords |-> report.keywords, urls |-> report.urls, ips |-> report.ips,
     ml |-> "none", platform |-> report.platform, ftype |-> report.type,
     flags |-> When(\E y \in report.yara : y.category = "network_indicator",
                    {"hardcoded_c2_ip"})]

SupportedTypes == {"apk", "pe", "exe", "dll", "elf", "mach_o", "json", "bson"}

Platforms == {"android", "windows", "linux", "macos"}

\* What analysis comes to when there is no case.
Fails(kind) == [kind |-> kind]

Succeeds(c) == [kind |-> "case", case |-> c]

\* A document with the results of analyses: the agents judge the static ones,
\* of which the flags and the verdict of a model are not read.
ImportReport(h, doc) ==
    IF \/ doc.static.platform \notin Platforms
       \/ \E y \in doc.static.yara : ~y.described \/ y.severity \notin Severities
    THEN Fails("error")
    ELSE LET s == [doc.static EXCEPT
                     !.ml = "none", !.flags = {},
                     !.yara = {[rule |-> y.rule, category |-> y.category,
                                severity |-> y.severity] : y \in @}]
             id == IF doc.id = "" THEN h ELSE doc.id
         IN  Succeeds([CaseOf(id, s, NoDynamic, doc.dynamic, doc.explained)
                        EXCEPT !.dynamic = IF doc.dynamic.observed
                                           THEN [status |-> "completed",
                                                 evidence |-> doc.dynamic]
                                           ELSE Nothing])

\* A dump of a case is taken over as it is.
ImportCase(h, doc) ==
    LET id == IF doc.id = "" THEN h ELSE doc.id
    IN  Succeeds([id |-> id, computed |-> FALSE, platform |-> doc.platform,
                  ftype |-> "exe", risk |-> doc.risk,
                  status |-> IF doc.status = "" THEN StatusOfScore(doc.risk)
                             ELSE doc.status,
                  yara |-> {}, techniques |-> {}, capabilities |-> {},
                  explained |-> {}, indicators |-> NetworkIndicators({}, {}, {}, NoDynamic),
                  iocs |-> {}, correlation |-> {}, timeline |-> {},
                  explanation |-> NoExplanation,
                  assessment |-> ThreatAssessment(doc.risk, {}, {}, FALSE),
                  ai |-> [told |-> FALSE], chain |-> "none",
                  dynamic |-> Absent, analysis |-> "none"])

ReadDocument(h, kind) ==
    IF Contents[h].magic # kind THEN Fails("unsupported")
    ELSE CASE Contents[h].doc.shape = "report" -> ImportReport(h, Contents[h].doc)
           [] Contents[h].doc.shape = "case" -> ImportCase(h, Contents[h].doc)
           [] OTHER -> Fails("unsupported")

FromReport(report) ==
    IF report.failed THEN Fails("error")
    ELSE IF report.type \notin SupportedTypes THEN Fails("unsupported")
    ELSE Succeeds(CaseOf(report.sha, StaticEvidence(report), NoDynamic, NoDynamic,
                         report.explained))

\* The file is read as what its extension says or else its content.
AnalyzeFile(h, suffix) ==
    IF suffix \in {"json", "bson"} THEN ReadDocument(h, suffix)
    ELSE IF Contents[h].magic \in {"json", "bson"}
    THEN ReadDocument(h, Contents[h].magic)
    ELSE FromReport(Analyze(h, suffix))

\* Results that come with a request: the agents judge both kinds of evidence,
\* and the case has none of the parts that join them.
SubmittedCase(r) ==
    [CaseOf(r.id, r.static, r.dynamic, r.dynamic, {})
        EXCEPT !.iocs = {}, !.correlation = {}, !.timeline = {},
               !.explanation = NoExplanation]

-----------------------------------------------------------------------------
(* The sandbox *)

\* Without a sandbox the evidence is that of a profile of the platform.
AndroidProfile ==
    [NoDynamic EXCEPT
        !.observed = TRUE, !.apis = {"SmsManager"}, !.files = {"intercepted_sms"},
        !.processes = {"app_process", "SmsInterceptor"},
        !.connections = <<[ip |-> "185.220.101.5", c2 |-> TRUE, interval |-> 0],
                          [ip |-> "149.154.167.220", c2 |-> FALSE, interval |-> 0]>>,
        !.dns = {"api.telegram.org", "c2-gate-server.darknet.in"},
        !.endpoints = {"185.220.101.5", "api.telegram.org"}]

WindowsProfile ==
    [NoDynamic EXCEPT
        !.observed = TRUE, !.files = {"payload.exe"}, !.registry = {"Run"},
        !.processes = {"sample", "shell"},
        !.connections = <<[ip |-> "198.51.100.42", c2 |-> TRUE, interval |-> 0],
                          [ip |-> "103.21.244.0", c2 |-> TRUE, interval |-> 0]>>,
        !.dns = {"malicious-c2-node.xyz", "drop-payload.server.ru"},
        !.endpoints = {"198.51.100.42", "malicious-c2-node.xyz"}]

SandboxAnswers(configured, suffix, platform) ==
    IF configured
    THEN {[status |-> "submitted", evidence |-> NoDynamic],
          [status |-> "failed", evidence |-> NoDynamic]}
    ELSE {[status |-> "completed",
           evidence |-> IF platform = "android" \/ suffix = "apk"
                        THEN AndroidProfile ELSE WindowsProfile]}

\* Everything but the score is made anew from what is known by then: the
\* addresses are no longer told apart by where they were found.
Renewed(c, dynamic, indicators, cards) ==
    [c EXCEPT !.dynamic = dynamic, !.indicators = indicators,
              !.iocs = IocIntelligence({}, dynamic.evidence, indicators),
              !.correlation = cards,
              !.timeline = EvidenceTimeline(dynamic.evidence, cards),
              !.explanation = RiskExplanation(c.risk, c.yara, c.techniques,
                                              c.capabilities),
              !.ai = IF c.computed
                     THEN [@ EXCEPT !.network = NetworkInterpretation(indicators)]
                     ELSE @,
              !.analysis = "COMPLETED"]

WithDynamic(c, dynamic) ==
    Renewed(c, dynamic,
            NetworkIndicators(c.indicators.ips, c.indicators.urls, c.explained,
                              dynamic.evidence),
            Correlations({}, {}, [dynamic.evidence EXCEPT !.observed = TRUE],
                         c.techniques))

=============================================================================
