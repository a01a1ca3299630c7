---------------------------- MODULE Investigation ----------------------------
(***************************************************************************)
(* The last node of the agents' graph: the investigation of a sample       *)
(* (investigation_engine.py) and the chain of links over what every        *)
(* analysis step handed on (chain_verification.py).                        *)
(*                                                                         *)
(* A text is named by what it is about, a hash is the data it is of.       *)
(* The explanation of the malware is a text in every case and left out.    *)
(***************************************************************************)
EXTENDS CaseVerdict

Has(capabilities, name) == \E c \in capabilities : c.name = name

Persistent(capabilities) ==
    \E c \in capabilities :
        c.name \in {"persistence_registry", "persistence_cron", "persistence_launchd"}

-----------------------------------------------------------------------------
(* Timeline, impact and exfiltration *)

EventSeverity(severity) ==
    IF severity = "low" THEN "info"
    ELSE IF severity = "medium" THEN "warning" ELSE "critical"

TimelineEvents(s, d) ==
    {[type |-> "static", about |-> "submitted", severity |-> "info"]}
    \cup {[type |-> "static", about |-> y.rule, severity |-> EventSeverity(y.severity)] :
            y \in s.yara}
    \cup {[type |-> "process", about |-> p, severity |-> "warning"] : p \in d.processes}
    \cup {[type |-> "network", about |-> c.ip,
           severity |-> IF c.c2 THEN "critical" ELSE "warning"] :
            c \in ToSet(d.connections)}
    \cup {[type |-> "file", about |-> f, severity |-> "warning"] : f \in d.files}
    \cup {[type |-> "registry", about |-> k, severity |-> "warning"] : k \in d.registry}

FinancialRisks(capabilities) ==
    When(Has(capabilities, "sms_otp_theft"), {"bank transactions"})
    \cup When(Has(capabilities, "keylogging"), {"credential theft"})

IntegrityConcerns(d, capabilities) ==
    When(Persistent(capabilities), {"persistence"})
    \cup When(FlaggedC2(d), {"command and control"})

\* Of the privacy risks only the tracking of the victim is counted.
VictimImpact(capabilities) ==
    LET count == Cardinality(FinancialRisks(capabilities))
                 + (IF Has(capabilities, "gps_tracking") THEN 1 ELSE 0)
    IN  IF count >= 3 THEN "critical" ELSE IF count = 2 THEN "high"
        ELSE IF count = 1 THEN "medium" ELSE "low"

DataTypes(s, capabilities) ==
    When(s.urls # {}, {"urls"}) \cup When(s.ips # {}, {"ips"})
    \cup When(Has(capabilities, "sms_otp_theft"), {"sms"})
    \cup When(Has(capabilities, "gps_tracking"), {"location"})
    \cup When(Has(capabilities, "keylogging"), {"keystrokes"})

Exfiltration(s, d, capabilities) ==
    LET types == Cardinality(DataTypes(s, capabilities))
        timed == SelectSeq(d.connections, LAMBDA c : c.interval # 0)
    IN  [volume |-> IF types > 3 THEN "High" ELSE IF types > 1 THEN "Medium"
                    ELSE IF types = 1 THEN "Low" ELSE "Unknown",
         encrypted |-> "crypt" \in d.apis,
         period |-> IF timed = <<>> THEN 0 ELSE Last(timed).interval,
         risk |-> IF FlaggedC2(d) THEN "Critical"
                  ELSE IF Connected(d) THEN "Medium" ELSE "Low"]

-----------------------------------------------------------------------------
(* Recommendations, the most urgent first, and the summary *)

Advice(priority, category, about) ==
    <<[priority |-> priority, category |-> category, about |-> about]>>

GivenIf(condition, advice) == IF condition THEN advice ELSE <<>>

Recommendations(s, d, capabilities) ==
    LET grave == VictimImpact(capabilities) \in {"high", "critical"}
        given ==
            GivenIf(grave, Advice("immediate", "containment", "isolate")
                           \o Advice("immediate", "victim", "passwords"))
            \o GivenIf(Connected(d), Advice("high", "evidence", "traffic"))
            \o GivenIf(s.ftype = "apk", Advice("high", "evidence", "manifest"))
            \o GivenIf(Has(capabilities, "sms_otp_theft"),
                       Advice("high", "investigation", "sms logs"))
            \o GivenIf(Has(capabilities, "gps_tracking"),
                       Advice("medium", "investigation", "location history"))
            \o GivenIf(FinancialRisks(capabilities) # {},
                       Advice("high", "victim", "banks"))
            \o GivenIf(Connected(d), Advice("high", "investigation", "destinations"))
            \o GivenIf(IntegrityConcerns(d, capabilities) # {},
                       Advice("medium", "containment", "factory reset"))
        Only(priority) == SelectSeq(given, LAMBDA r : r.priority = priority)
    IN  Only("immediate") \o Only("high") \o Only("medium")

RiskBand(score) ==
    IF score >= 70 THEN "Critical" ELSE IF score >= 50 THEN "High"
    ELSE IF score >= 30 THEN "Medium" ELSE "Low"

\* The first five urgent actions.
NextSteps(recommendations) ==
    LET urgent == SelectSeq(recommendations,
                            LAMBDA r : r.priority \in {"immediate", "high"})
    IN  {urgent[i].about : i \in 1..AtMost(Len(urgent), 5)}

-----------------------------------------------------------------------------
(* The chain of links *)

LinkTypes == <<"static_analysis", "dynamic_analysis", "mitre_mapping",
               "capability_classification", "risk_scoring",
               "narrative_generation", "investigation_engine">>

Genesis == [step |-> "genesis"]

\* components[t] is what step t handed on, and None when it did not.
None == [step |-> "none"]

\* A link is made for every step that handed something on, and names what the
\* link before it is of.
CreateChain(components) ==
    FoldLeft(LAMBDA chain, t :
                IF components[t] = None THEN chain
                ELSE Append(chain, [type |-> t, data |-> components[t],
                                    previous |-> IF chain = <<>> THEN Genesis
                                                 ELSE Last(chain).data]),
             <<>>, LinkTypes)

BrokenLinks(chain) ==
    {i \in 1..Len(chain) :
        chain[i].previous # (IF i = 1 THEN Genesis ELSE chain[i - 1].data)}

MissingLinks(chain) == ToSet(LinkTypes) \ {chain[i].type : i \in 1..Len(chain)}

VerifyChain(chain) ==
    IF BrokenLinks(chain) # {} THEN "tampered"
    ELSE IF MissingLinks(chain) # {} THEN "incomplete" ELSE "valid"

-----------------------------------------------------------------------------
(* The graph: every node hands its result to the next (orchestrator.py) *)

\* investigation_output is no key of the state that is verified.
HandedOn(d) ==
    [t \in ToSet(LinkTypes) |->
        IF t = "investigation_engine" \/ (t = "dynamic_analysis" /\ ~d.observed)
        THEN None ELSE [step |-> t]]

Concluded(s, d, techniques, capabilities, risk, recommendations) ==
    [techniques |-> techniques, capabilities |-> capabilities,
     risk |-> risk, band |-> RiskBand(risk),
     impact |-> VictimImpact(capabilities),
     recommendations |-> recommendations, next |-> NextSteps(recommendations),
     events |-> TimelineEvents(s, d),
     exfiltration |-> Exfiltration(s, d, capabilities),
     chain |-> VerifyChain(CreateChain(HandedOn(d)))]

Investigated(s, d, techniques, capabilities) ==
    Concluded(s, d, techniques, capabilities,
              RiskScore(s, d, techniques, capabilities),
              Recommendations(s, d, capabilities))

AgentGraph(s, d) == Investigated(s, d, MapToMitre(s, d), ClassifyCapabilities(s, d))

=============================================================================
