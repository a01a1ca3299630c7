----------------------------- MODULE CaseVerdict -----------------------------
(***************************************************************************)
(* What the agents conclude from the evidence of one sample                *)
(* (agents/orchestrator, mitre_mapper, capability_classifier,              *)
(* investigation_engine): ATT&CK techniques, capabilities, the risk score, *)
(* the investigation and its chain of links.                               *)
(*                                                                         *)
(* Static evidence s has yara (a set of [rule, category, severity]),       *)
(* permissions, keywords, imports, ml, flags, ips, urls, platform and      *)
(* ftype; dynamic evidence d has observed, apis, connections (a sequence   *)
(* of [ip, c2, interval]), files, registry, artifacts, processes, chains   *)
(* ([rule, severity, points]), dns and endpoints.  A member of a set       *)
(* stands for the strings the rules look for; an interval of 0 is one that *)
(* is not given.  Without dynamic evidence d is NoDynamic, in which        *)
(* nothing is found.  Confidences are hundredths.                          *)
(***************************************************************************)
EXTENDS Integers, Sequences, FiniteSets, FiniteSetsExt, SequencesExt

NoDynamic ==
    [observed |-> FALSE, apis |-> {}, connections |-> <<>>, files |-> {},
     registry |-> {}, artifacts |-> {}, processes |-> {}, chains |-> <<>>,
     dns |-> {}, endpoints |-> {}]

When(condition, S) == IF condition THEN S ELSE {}

AtMost(n, cap) == IF n > cap THEN cap ELSE n

AtLeast(n, floor) == IF n < floor THEN floor ELSE n

-----------------------------------------------------------------------------
(* What the rules look for *)

SmsPermission(s) == s.permissions \cap {"READ_SMS", "RECEIVE_SMS"} # {}
SmsCalls(d) == d.apis \cap {"SmsManager", "sms_content"} # {}
FlaggedC2(d) == \E c \in ToSet(d.connections) : c.c2
Beaconing(d) == \E c \in ToSet(d.connections) : c.interval \in 1..119
Connected(d) == d.connections # <<>>
KeyboardCalls(d) ==
    d.apis \cap {"GetKeyboardState", "SetWindowsHookEx", "GetAsyncKeyState"} # {}
AutostartKey(d) == d.registry \cap {"Run", "Startup"} # {}
Shell(d) == "shell" \in d.processes
Preload(s) == s.keywords \cap {"LD_PRELOAD", "shell LD_PRELOAD"} # {}

-----------------------------------------------------------------------------
(* mitre_rules.py: one technique per rule at most *)

Technique(id, confidence) == {[id |-> id, confidence |-> confidence]}

SmsAccess(s, d) ==
    When(SmsPermission(s) \/ SmsCalls(d),
         Technique("T1517", IF SmsPermission(s) /\ SmsCalls(d) THEN 90 ELSE 70))

C2Comms(s, d) ==
    LET static == "hardcoded_c2_ip" \in s.flags
    IN  When(static \/ FlaggedC2(d),
             Technique("T1071", IF static /\ FlaggedC2(d) THEN 90 ELSE 65))

OverlayUi(s) == When("SYSTEM_ALERT_WINDOW" \in s.permissions, Technique("T1417", 75))

DeviceAdminAbuse(d) == When("DevicePolicyManager" \in d.apis, Technique("T1626", 80))

LocationTracking(s, d) ==
    LET perm == "LOCATION" \in s.permissions
        api == "LocationManager" \in d.apis
    IN  When(perm \/ api, Technique("T1430", IF perm /\ api THEN 85 ELSE 60))

DataExfil(d) == When(d.files # {} /\ Connected(d), Technique("T1005", 55))

RegistryPersistence(d) == When(AutostartKey(d), Technique("T1547.001", 85))

Keylogging(s, d) ==
    When(KeyboardCalls(d) \/ "keylog" \in s.keywords,
         Technique("T1056.001", IF KeyboardCalls(d) THEN 85 ELSE 60))

CronPersistence(d) == When("cron" \in d.artifacts, Technique("T1053.003", 85))

LaunchdPersistence(d) == When("launchd" \in d.artifacts, Technique("T1543.001", 85))

LdPreloadHijack(s, d) ==
    When(Preload(s) \/ "LD_PRELOAD" \in d.apis,
         Technique("T1574.006", IF "LD_PRELOAD" \in d.apis THEN 75 ELSE 55))

SetuidEscalation(s, d) ==
    When("setuid" \in s.imports \cup d.apis,
         Technique("T1548.001", IF "setuid" \in d.apis THEN 80 ELSE 55))

ReverseShell(d) == When(Shell(d) /\ Connected(d), Technique("T1059", 80))

MapToMitre(s, d) ==
    SmsAccess(s, d) \cup C2Comms(s, d) \cup OverlayUi(s) \cup DeviceAdminAbuse(d)
    \cup LocationTracking(s, d) \cup DataExfil(d) \cup RegistryPersistence(d)
    \cup Keylogging(s, d) \cup CronPersistence(d) \cup LaunchdPersistence(d)
    \cup LdPreloadHijack(s, d) \cup SetuidEscalation(s, d) \cup ReverseShell(d)

-----------------------------------------------------------------------------
(* capability_rules.py *)

Weight(condition, hundredths) == IF condition THEN hundredths ELSE 0

Capability(name, confidence) == {[name |-> name, confidence |-> AtMost(confidence, 100)]}

SmsOtpTheft(s, d) ==
    LET score == Weight("READ_SMS" \in s.permissions, 40)
                 + Weight(\E y \in s.yara : y.category = "india_scam_rules", 30)
                 + Weight(SmsCalls(d), 30)
    IN  When(score >= 40, Capability("sms_otp_theft", score))

GpsTracking(s, d) ==
    LET score == Weight("LOCATION" \in s.permissions, 40)
                 + Weight("LocationManager" \in d.apis, 40)
    IN  When(score >= 40, Capability("gps_tracking", score))

OverlayPhishing(s) ==
    When("SYSTEM_ALERT_WINDOW" \in s.permissions, Capability("overlay_phishing", 65))

UninstallResistance(d) ==
    When("DevicePolicyManager" \in d.apis, Capability("uninstall_resistance", 80))

DataExfiltration(s, d) ==
    LET score == Weight(s.urls # {} \/ s.ips # {}, 30)
                 + Weight(FlaggedC2(d), 50) + Weight(Beaconing(d), 20)
    IN  When(score >= 30, Capability("data_exfiltration", score))

KeyloggingCapability(s, d) ==
    LET score == Weight(KeyboardCalls(d), 60) + Weight("keylog" \in s.keywords, 30)
    IN  When(score >= 30, Capability("keylogging", score))

Persistence(d) ==
    When(AutostartKey(d), Capability("persistence_registry", 85))
    \cup When("cron" \in d.artifacts, Capability("persistence_cron", 85))
    \cup When("launchd" \in d.artifacts, Capability("persistence_launchd", 85))

PrivilegeEscalation(s, d) ==
    When("setuid" \in s.imports \cup d.apis,
         Capability("privilege_escalation", IF "setuid" \in d.apis THEN 80 ELSE 50))

RemoteShell(d) == When(Shell(d) /\ Connected(d), Capability("remote_shell_access", 80))

LibraryHijack(s, d) ==
    When(Preload(s) \/ "LD_PRELOAD" \in d.apis,
         Capability("library_hijacking", IF "LD_PRELOAD" \in d.apis THEN 75 ELSE 50))

ClassifyCapabilities(s, d) ==
    SmsOtpTheft(s, d) \cup GpsTracking(s, d) \cup OverlayPhishing(s)
    \cup UninstallResistance(d) \cup DataExfiltration(s, d)
    \cup KeyloggingCapability(s, d) \cup Persistence(d) \cup PrivilegeEscalation(s, d)
    \cup RemoteShell(d) \cup LibraryHijack(s, d)

-----------------------------------------------------------------------------
(* risk_scoring.py *)

Severities == {"low", "medium", "high", "critical"}

OfSeverity(d, severity) == {i \in 1..Len(d.chains) : d.chains[i].severity = severity}

\* A chain of another severity is worth nothing.
SumOfPoints(chains) ==
    FoldLeft(LAMBDA sum, c : sum + (IF c.severity \in Severities THEN c.points ELSE 0),
             0, chains)

\* Three critical chains or five high ones are worth a bonus of their own.
BehaviorChainScore(d) ==
    SumOfPoints(d.chains)
    + (IF Cardinality(OfSeverity(d, "critical")) >= 3 THEN 3 * 30 ELSE 0)
    + (IF Cardinality(OfSeverity(d, "high")) >= 5 THEN 5 * 20 ELSE 0)

BonusTable == {
    [points |-> 25, rules |-> {"classic_injection", "injection_no_alloc",
                               "process_hollowing"}],
    [points |-> 25, rules |-> {"token_impersonation_full", "token_impersonation_basic",
                               "privilege_enable_debug", "escalate_and_exec"}],
    [points |-> 30, rules |-> {"driver_load_from_nonstandard_path",
                               "drop_and_load_driver", "byovd_attack"}],
    [points |-> 20, rules |-> {"security_process_termination", "security_service_disabled",
                               "security_service_deleted", "registry_security_disabled"}],
    [points |-> 15, rules |-> {"service_persistence_install", "service_hijack",
                               "drop_and_install_service", "file_based_persistence",
                               "file_moved_to_system_location"}],
    [points |-> 30, rules |-> {"android_sms_interception", "android_sms_exfiltration",
                               "android_sms_evidence_destruction"}],
    [points |-> 25, rules |-> {"android_location_exfiltration",
                               "android_cached_location_exfiltration",
                               "android_geofencing_surveillance",
                               "android_high_accuracy_tracking"}],
    [points |-> 25, rules |-> {"android_crypto_clipper", "android_clipboard_hijack",
                               "android_clipboard_exfiltration"}],
    [points |-> 35, rules |-> {"android_audio_surveillance",
                               "android_covert_audio_recording",
                               "android_camera_surveillance",
                               "android_covert_photo_capture"}],
    [points |-> 30, rules |-> {"android_permission_escalation",
                               "android_permission_state_manipulation",
                               "android_overlay_permission_request"}],
    [points |-> 35, rules |-> {"android_accessibility_automation",
                               "android_accessibility_credential_automation",
                               "android_accessibility_navigate_and_act"}],
    [points |-> 30, rules |-> {"android_overlay_without_permission",
                               "android_overlay_with_permission_escalation",
                               "android_automated_overlay_attack"}]}

\* One bonus for each kind of detection, however many chains are of the kind.
SpecialDetectionBonuses(d) ==
    LET detected == {c.rule : c \in ToSet(d.chains)}
    IN  MapThenSumSet(LAMBDA row : row.points,
                      {row \in BonusTable : row.rules \cap detected # {}})

CapabilityPoints(capabilities) ==
    MapThenSumSet(LAMBDA c : (c.confidence * 15) \div 100, capabilities)

\* Mutant of RiskScore: the sum is not cut off at 100.
UnboundedScore(s, d, techniques, capabilities) ==
    Cardinality(s.yara) * 15 + Cardinality(techniques) * 8
    + CapabilityPoints(capabilities) + (IF FlaggedC2(d) THEN 20 ELSE 0)
    + BehaviorChainScore(d) + SpecialDetectionBonuses(d)

RiskScore(s, d, techniques, capabilities) ==
    AtLeast(AtMost(Cardinality(s.yara) * 15
                   + Cardinality(techniques) * 8
                   + CapabilityPoints(capabilities)
                   + (IF s.ml = "likely_malicious" THEN 20 ELSE 0)
                   + (IF FlaggedC2(d) THEN 20 ELSE 0)
                   + (IF "DevicePolicyManager" \in d.apis THEN 10 ELSE 0)
                   + BehaviorChainScore(d) + SpecialDetectionBonuses(d), 100), 0)

-----------------------------------------------------------------------------
(* api_models.py: the names of a score *)

\* Mutant of StatusOfScore: 60 itself is not malicious.
StrictStatus(score) ==
    IF score > 60 THEN "malicious" ELSE IF score >= 25 THEN "suspicious" ELSE "clean"

StatusOfScore(score) ==
    IF score >= 60 THEN "malicious" ELSE IF score >= 25 THEN "suspicious" ELSE "clean"

ThreatLevel(score) ==
    IF score >= 90 THEN "SEVERE" ELSE IF score >= 70 THEN "CRITICAL"
    ELSE IF score >= 40 THEN "HIGH" ELSE IF score >= 20 THEN "MEDIUM" ELSE "LOW"

Verdict(score) ==
    IF score >= 60 THEN "MALICIOUS" ELSE IF score >= 20 THEN "SUSPICIOUS" ELSE "CLEAN"

Confidence(yara, techniques, dynamic) ==
    AtMost(30 + AtMost(8 * yara, 30) + AtMost(5 * techniques, 20)
           + (IF dynamic THEN 20 ELSE 0), 100)

=============================================================================
