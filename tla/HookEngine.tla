------------------------------ MODULE HookEngine ------------------------------
(***************************************************************************)
(* The correlation engine on the host (hooks/hook_engine.py, HookEngine):  *)
(* what ingest() does with one reported call, the chains it matches and    *)
(* the findings that only the volume of calls shows.                       *)
(*                                                                         *)
(* A record stands for n equal calls of one second.  They match the same   *)
(* rules: no rule names an API twice, so the calls of one record are not   *)
(* links of one chain.  (They could push one another's links out of a full *)
(* window one by one; here a record does so as a whole.)  Paths,           *)
(* destinations, packages and evidence are report data and left out; the   *)
(* registry handles are kept, as a condition is decided from them.         *)
(***************************************************************************)
EXTENDS HookAgent

CONSTANTS
    RuleBook,   \* self.rules: CHAIN_RULES unless the caller gives others
    MaxWindow   \* MAX_WINDOW_CALLS, the calls of one process remembered

\* On a rule without a sequence _match_chains() raises (rule.sequence[-1]).
ASSUME EngineAssumption ==
    /\ MaxWindow \in Nat \ {0}
    /\ \A r, s \in RuleBook : r.id = s.id => r = s
    /\ \A r \in RuleBook : r.window \in Nat
    /\ \A r \in RuleBook : Len(r.seq) \in Nat \ {0}

\* As CHAIN_RULES has it, and nothing enforces: a window lasts some time, and a
\* rule that supersedes another is superseded by none.
ASSUME SupersessionAssumption ==
    \A r \in RuleBook : /\ r.window > 0
                         /\ \A q \in RuleBook : q.id \in r.over => q.over = {}

VARIABLES
    window,         \* pid -> its recent calls
    emitted,        \* _emitted: <<rule id, pid>> -> time of the last emission
    callCounts,     \* API -> calls received
    categoryCounts, \* category -> calls logged
    stageCounts,    \* <<stage, API>> -> calls logged
    chainCounts,    \* rule id -> matches
    chains,         \* the chains emitted, in no order
    total,
    suppressed,
    hostRate,       \* _rate_state
    regHandles,     \* _reg_handles: handle -> its key is an autostart key
    signals,        \* android_signals
    permissions     \* android_permissions

engineVars == <<window, emitted, callCounts, categoryCounts, stageCounts, chainCounts,
                chains, total, suppressed, hostRate, regHandles, signals, permissions>>

\* A dictionary that starts out empty, and one of counters (defaultdict(int)).
Empty == [k \in {} |-> 0]
At(dict, k, default) == IF k \in DOMAIN dict THEN dict[k] ELSE default
Put(dict, k, v) == [x \in {k} |-> v] ++ dict
Bump(counter, k, n) == Put(counter, k, At(counter, k, 0) + n)

EngineInit ==
    /\ window = Empty
    /\ emitted = Empty
    /\ callCounts = Empty /\ categoryCounts = Empty /\ stageCounts = Empty
    /\ chainCounts = Empty
    /\ chains = {}
    /\ total = 0 /\ suppressed = 0
    /\ hostRate = NoRates
    /\ regHandles = Empty
    /\ signals = Empty
    /\ permissions = {}

-----------------------------------------------------------------------------
(* The window of a process *)

\* How many calls the records from position i on stand for.
CallsFrom(history, i) ==
    FoldLeft(LAMBDA sum, c : sum + c.n, 0, SubSeq(history, i, Len(history)))

\* deque(maxlen = MAX_WINDOW_CALLS): a record is gone when all its calls are.
Remember(history, call) ==
    LET all == Append(history, call)
    IN  SubSeq(all, CHOOSE i \in 1..Len(all) :
                        /\ CallsFrom(all, i + 1) < MaxWindow
                        /\ i = 1 \/ CallsFrom(all, i) >= MaxWindow,
               Len(all))

-----------------------------------------------------------------------------
(* Matching *)

Satisfies(rule, call) ==
    call.api \in DOMAIN rule.needs => rule.needs[call.api] \in call.marks

\* Mutant of InHorizon: a call exactly a window old is out.
InHorizonShort(rule, trigger, history) ==
    SelectSeq(history, LAMBDA c : c.at > trigger.at - rule.window)

\* The walk back stops at the first call older than the rule's window.
InHorizon(rule, trigger, history) ==
    LET old == {i \in 1..Len(history) : history[i].at < trigger.at - rule.window}
        first == IF old = {} THEN 1 ELSE 1 + CHOOSE i \in old : \A j \in old : j <= i
    IN  SubSeq(history, first, Len(history))

\* _try_match(): the latest fitting call for each link, from the last to the first.
TryMatch(rule, trigger, history) ==
    LET Link(call, needed) ==
            IF /\ needed > 0
               /\ call.api = rule.seq[needed]
               /\ Satisfies(rule, call)
            THEN needed - 1 ELSE needed
    IN  /\ Satisfies(rule, trigger)
        /\ FoldRight(Link, InHorizon(rule, trigger, history), Len(rule.seq) - 1) = 0

\* _match_chains(), first half: the rules this call completes; all are counted.
RulesEndingIn == [a \in Apis |-> {r \in RuleBook : Last(r.seq) = a}]

Candidates(trigger, history) ==
    {r \in RulesEndingIn[trigger.api] : TryMatch(r, trigger, history)}

\* Mutant of Fresh: one process's chain silences the others.
FreshForAll(rule, pid, at) ==
    \A k \in DOMAIN emitted : k[1] = rule.id => at - emitted[k] >= rule.window

\* Second half: not a rule another match supersedes, nor one emitted for this
\* process less than its window ago.
Fresh(rule, pid, at) ==
    <<rule.id, pid>> \in DOMAIN emitted => at - emitted[<<rule.id, pid>>] >= rule.window

\* Mutant of Emissions: the narrower rules are not dropped.
EmissionsOfAll(candidates, pid, at) == {r \in candidates : Fresh(r, pid, at)}

Emissions(candidates, pid, at) ==
    LET matched == {r.id : r \in candidates}
    IN  {r \in candidates : r.over \cap matched = {} /\ Fresh(r, pid, at)}

-----------------------------------------------------------------------------
(* ingest() *)

\* _normalize() and _decode(): a value set under an autostart key says so itself.
Decode(call, api, n) ==
    [api |-> api, at |-> call.at, n |-> n,
     marks |-> IF api = "RegSetValue" /\ At(regHandles, call.handle, FALSE)
               THEN call.marks \cup {"autostart_key"} ELSE call.marks]

TrackHandles(call, api) ==
    regHandles' = IF api = "RegCreateKey"
                  THEN Put(regHandles, call.returned, "autostart_key" \in call.marks)
                  ELSE regHandles

\* _track_android_signals(): the counters a call of this API advances.
SignalsOf(api, marks) ==
    CASE api = "CheckPermission" /\ "is_dangerous" \in marks -> {"dangerous_permission_checks"}
      [] api \in {"SendSMS", "SendMultipartSMS"} -> {"sms_sent"}
      [] api \in {"RequestLocationUpdates", "GetLastKnownLocation", "FusedLocationUpdates"} ->
            {"location_requests"}
            \cup IF api # "GetLastKnownLocation" /\ "high_frequency_location" \in marks
                 THEN {"high_frequency_location_requests"} ELSE {}
      [] api \in {"ClipboardRead", "ClipboardCheck"} -> {"clipboard_polls"}
      [] api = "AudioRecordRead" -> {"audio_reads"}
      [] api = "MediaRecorderAudioSource" /\ "records_call" \in marks ->
            {"call_recording_sessions"}
      [] api = "AccessibilityEvent" ->
            (IF "text_capture_event" \in marks THEN {"accessibility_text_events"} ELSE {})
            \cup (IF "window_change_event" \in marks THEN {"foreground_app_checks"} ELSE {})
      [] api = "AccessibilityFindByText" /\ "credential_search" \in marks ->
            {"credential_field_searches"}
      [] api = "OverlayWindowAdded" ->
            (IF "overlay_window" \in marks THEN {"overlay_windows"} ELSE {})
            \cup (IF "invisible_overlay" \in marks THEN {"invisible_overlays"} ELSE {})
      [] OTHER -> {}

TrackAndroidSignals(call, api, n) ==
    LET up == SignalsOf(api, call.marks)
    IN  /\ signals' = [s \in DOMAIN signals \cup up |->
                          At(signals, s, 0) + IF s \in up THEN n ELSE 0]
        /\ permissions' = IF api = "RequestPermissions"
                          THEN permissions \cup call.permissions ELSE permissions

\* _match_chains() and what ingest() keeps of it.
\* The call itself is in the window already, and is passed over.
MatchChains(call, seen, stage, n) ==
    LET candidates == Candidates(seen, Front(window'[call.pid]))
        new == Emissions(candidates, call.pid, call.at)
        ids == {r.id : r \in candidates}
    IN  /\ chainCounts' = [id \in DOMAIN chainCounts \cup ids |->
                              At(chainCounts, id, 0) + IF id \in ids THEN n ELSE 0]
        /\ emitted' = [k \in {<<r.id, call.pid>> : r \in new} |-> call.at] ++ emitted
        /\ chains' = chains \cup
              {[rule |-> r.id, severity |-> r.severity, pid |-> call.pid,
                at |-> call.at, stage |-> stage] : r \in new}

\* A call within the host's own budget, and one beyond it, of which only the
\* counters hear.
Log(call, api, n, stage) ==
    LET seen == Decode(call, api, n)
    IN  /\ categoryCounts' = Bump(categoryCounts, CategoryOf(api), n)
        /\ stageCounts' = IF stage = "none" THEN stageCounts
                          ELSE Bump(stageCounts, <<stage, api>>, n)
        /\ TrackHandles(call, api)
        /\ TrackAndroidSignals(call, api, n)
        /\ window' = Put(window, call.pid, Remember(At(window, call.pid, <<>>), seen))
        /\ MatchChains(call, seen, stage, n)

Suppress == UNCHANGED <<categoryCounts, stageCounts, regHandles, signals, permissions,
                        window, chainCounts, emitted, chains>>

\* A name the catalog does not resolve is dropped without a trace.
Ingest(call, stage) ==
    IF Resolved(call.raw) = {} THEN UNCHANGED engineVars
    ELSE \E api \in Resolved(call.raw) :
            LET n == Within(hostRate, api, call.n, now)
            IN  /\ hostRate' = Spend(hostRate, api, call.n, now)
                /\ callCounts' = Bump(callCounts, api, call.n)
                /\ total' = total + call.n
                /\ suppressed' = suppressed + (call.n - n)
                /\ IF n > 0 THEN Log(call, api, n, stage) ELSE Suppress

-----------------------------------------------------------------------------
(* volume_findings() *)

\* The count a finding is judged on, and the number that makes it one.
WindowsVolumes(counts, matches) ==
    [ransomware_volume |-> <<At(matches, "ransomware_cycle", 0), 25>>,
     mass_deletion |-> <<At(counts, "DeleteFile", 0), 100>>,
     heavy_dynamic_resolution |-> <<At(counts, "GetProcAddress", 0), 50>>]

AndroidVolumes(counts, signs, asked) ==
    [android_sms_burst |->
        <<At(counts, "SendSMS", 0) + At(counts, "SendMultipartSMS", 0), 10>>,
     android_continuous_tracking |-> <<At(signs, "location_requests", 0), 20>>,
     android_sustained_audio_capture |-> <<At(counts, "AudioRecordRead", 0), 50>>,
     android_clipboard_monitoring |-> <<At(signs, "clipboard_polls", 0), 30>>,
     android_accessibility_keylogging |-> <<At(signs, "accessibility_text_events", 0), 50>>,
     android_tapjacking |-> <<At(signs, "invisible_overlays", 0), 1>>,
     android_call_recording |-> <<At(signs, "call_recording_sessions", 0), 1>>,
     android_permission_escalation |-> <<asked, 5>>]

OverThreshold(volumes) == {f \in DOMAIN volumes : volumes[f][1] >= volumes[f][2]}

VolumeFindings ==
    OverThreshold(WindowsVolumes(callCounts, chainCounts)
                  ++ AndroidVolumes(callCounts, signals, Cardinality(permissions)))
=============================================================================
