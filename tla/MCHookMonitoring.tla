--------------------------- MODULE MCHookMonitoring ---------------------------
(* Samples for HookMonitoring: one for each rule the agents can feed, in    *)
(* each spelling of its calls, and some that repeat, race and flood.       *)
EXTENDS HookMonitoring

\* The agents' names for an API that capture what the rule looks at.
Spellings(p, rule, api) ==
    {raw \in DOMAIN Captured[p] :
        /\ Resolved(raw) = {api}
        /\ api \in DOMAIN rule.needs =>
              Conditions[rule.needs[api]] \cap Captured[p][raw] # {}}

Usual(p, rule, api) == CHOOSE raw \in Spellings(p, rule, api) : TRUE

Step(raw, pid, n, wait, shows) ==
    [raw |-> raw, pid |-> pid, n |-> n, wait |-> wait, shows |-> shows,
     handle |-> "none", permissions |-> {}]

\* The calls of a rule a second apart, and the last of them twice.
RulePrograms(p) ==
    UNION {
        LET size == Len(rule.seq)
            raws == UNION {Spellings(p, rule, rule.seq[i]) : i \in 1..size}
            Fitting == {f \in [1..size -> raws] :
                            \A i \in 1..size : f[i] \in Spellings(p, rule, rule.seq[i])}
            Unusual(f) == {i \in 1..size : f[i] # Usual(p, rule, rule.seq[i])}
        IN  {[i \in 1..size |->
                 Step(f[i], 1, IF i = size THEN 2 ELSE 1, 1,
                      IF rule.seq[i] \in DOMAIN rule.needs
                      THEN {rule.needs[rule.seq[i]]} ELSE {})] :
             f \in {g \in Fitting : Cardinality(Unusual(g)) <= 1}} :
        rule \in ChainRules}

Alloc(wait) == Step("VirtualAllocEx", 1, 1, wait, {"rwx_or_exec"})
Write(pid, wait) == Step("WriteProcessMemory", pid, 1, wait, {"foreign_process"})
Thread(pid, wait) == Step("CreateRemoteThread", pid, 1, wait, {})

\* Injections in any order, by two processes, at and beyond the rules' windows.
Injections ==
    {<<a, b, Thread(1, 15)>> : a, b \in {Alloc(0), Write(1, 0), Write(2, 0), Thread(1, 15)}}
    \cup {<<Alloc(0), Write(1, 0), Thread(1, 0), Thread(1, 16)>>,
          <<Write(1, 0), Thread(1, 14), Thread(1, 1), Thread(1, 1)>>}

Names(n, wait) == Step("GetProcAddress", 1, n, wait, {})
Deletes(n, wait) == Step("DeleteFileW", 1, n, wait, {})

Connect(pid, wait) == Step("InternetConnectW", pid, 1, wait, {})

\* Two processes with a behaviour each, and one of them a window later.
Repeats == {<<Connect(1, 0), Connect(2, 1), Connect(1, 59)>>,
            <<Connect(1, 0), Connect(1, 40), Connect(1, 40)>>}

\* Bursts below, at and beyond the budgets of a second, and a window that
\* overflows between the links of a chain.
Floods ==
    {<<Names(25, 0), Names(25, 1)>>, <<Names(24, 0), Names(25, 1)>>,
     <<Names(1200, 0), Names(30, 0)>>, <<Deletes(99, 0)>>,
     <<Deletes(99, 0), Deletes(1, 0)>>, <<Deletes(150, 0), Deletes(150, 0)>>,
     <<Write(1, 0), Names(1000, 1), Names(999, 1), Thread(1, 1)>>,
     <<Write(1, 0), Names(1000, 1), Names(998, 1), Thread(1, 1)>>}

Burst(raw, n, wait, shows) == Step(raw, 1, n, wait, shows)

AndroidFloods ==
    {<<Burst("SendSMS", 6, 0, {}), Burst("SendMultipartSMS", 4, 1, {})>>,
     <<Burst("SendSMS", 70, 0, {}), Burst("ReadSMS", 1, 0, {})>>,
     <<Burst("RequestLocationUpdates", 10, 0, {}), Burst("FusedLocationUpdates", 9, 0, {}),
       Burst("GetLastKnownLocation", 1, 1, {})>>,
     <<Burst("AudioRecordRead", 600, 0, {}), Burst("AudioRecordRead", 600, 0, {})>>,
     <<Burst("ClipboardCheck", 29, 0, {}), Burst("ClipboardRead", 1, 0, {})>>,
     <<Burst("ClipboardCheck", 29, 0, {})>>}

MCPrograms ==
    [windows |-> RulePrograms("windows") \cup Injections \cup Repeats
                \cup Floods,
     android |-> RulePrograms("android") \cup AndroidFloods]

MCRuleBook == ChainRules

\* The samples show what their hooks capture.
ASSUME MCFactsReported == FactsReported

MCStageOrder == <<"activation", "execution">>

\* A value under a key the sample opened just before.
MCAutostart ==
    [windows |-> {<<[Step("RegCreateKeyExW", 1, 1, 0, {"autostart_key"})
                         EXCEPT !.handle = "key"],
                    [Step("RegSetValueExW", 1, 1, 1, {}) EXCEPT !.handle = "key"]>>},
     android |-> {<<>>}]
=============================================================================
