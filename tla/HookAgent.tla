------------------------------- MODULE HookAgent -------------------------------
(***************************************************************************)
(* The instrumentation in the guest (hooks/hook_installer.py): the exports *)
(* and Java methods the two generated Frida agents hook, the rate limit    *)
(* and the batching in front of the channel to the host.                   *)
(*                                                                         *)
(* A step of the sample is n calls of one function within one second of    *)
(* the clock; the agent's reports of them are one record with that n.      *)
(* The reentrancy guard is left out: a hook's own calls are not reported.  *)
(***************************************************************************)
EXTENDS HookCatalog, HookRules, SequencesExt

CONSTANTS
    BatchSize,      \* CONFIG.batch_size, in records: a batch is full
    MaxFailedSends  \* bound: how often send() throws

ASSUME AgentAssumption == BatchSize \in Nat \ {0} /\ MaxFailedSends \in Nat

Platforms == {"windows", "android"}

-----------------------------------------------------------------------------
(* What is hooked: the reported name, and the telling arguments captured *)

FileExports ==
    [r \in {"CreateFileW", "CreateFileA"} |-> {"lpFileName", "dwDesiredAccess"}]
    @@ [r \in {"DeleteFileW", "DeleteFileA"} |-> {"lpFileName"}]
    @@ [r \in {"ReadFile", "WriteFile"} |-> {}]

RegistryExports == "RegCreateKeyExW" :> {"lpSubKey"} @@ "RegSetValueExW" :> {"lpValueName"}

NetworkExports ==
    [r \in {"InternetConnectW", "InternetConnectA", "WinHttpSendRequest"} |-> {}]

ProcessExports ==
    [r \in {"CreateProcessW", "CreateProcessA"} |-> {"dwCreationFlags"}]
    @@ [r \in {"ShellExecuteW", "ShellExecuteA"} |-> {}]

MemoryExports ==
    "VirtualAlloc" :> {"flProtect"} @@ "VirtualAllocEx" :> {"flProtect", "target_pid"}
    @@ "VirtualProtect" :> {"flNewProtect"}
    @@ "VirtualProtectEx" :> {"flNewProtect", "target_pid"}

InjectionExports ==
    [r \in {"NtWriteVirtualMemory", "WriteProcessMemory", "CreateRemoteThread",
            "CreateRemoteThreadEx"} |-> {"target_pid"}]

ResolutionExports ==
    [r \in {"LoadLibraryW", "LoadLibraryA", "LoadLibraryExW", "GetProcAddress"} |-> {}]

CryptoExports == [r \in {"CryptEncrypt", "CryptDecrypt"} |-> {}]

DeviceExports == "DeviceIoControl" :> {}

ServiceExports ==
    [r \in {"OpenSCManagerW", "OpenSCManagerA"} |-> {"dwDesiredAccess"}]
    @@ [r \in {"CreateServiceW", "CreateServiceA", "ChangeServiceConfigW",
               "ChangeServiceConfigA"} |-> {"dwStartType", "lpBinaryPathName"}]
    @@ [r \in {"StartServiceW", "StartServiceA"} |-> {}]

DriverExports ==
    [r \in {"NtLoadDriver", "ZwLoadDriver"} |-> {"DriverServiceName"}]
    @@ "NtSetSystemInformation" :> {}

TokenExports ==
    "AdjustTokenPrivileges" :> {"PrivilegeCount", "FirstLuid"}
    @@ "DuplicateTokenEx" :> {"dwDesiredAccess", "TokenType"}
    @@ [r \in {"OpenProcessToken", "ImpersonateLoggedOnUser",
               "CreateProcessWithTokenW"} |-> {}]

\* The Java methods that stand for the Windows APIs.
JavaAnalogues ==
    "DeleteFile" :> {"lpFileName"} @@ "CreateFile" :> {"lpFileName", "dwDesiredAccess"}
    @@ "RegSetValue" :> {"lpValueName"} @@ "LoadLibrary" :> {"dynamic_dex"}
    @@ [r \in {"InternetConnect", "CreateProcess", "ShellExecute",
               "CryptEncrypt"} |-> {}]

PermissionEvents ==
    "RequestPermissions" :> {"permissions", "dangerous"}
    @@ "CheckPermission" :> {"permission"}

SmsEvents == "ReadSMS" :> {"uri"} @@ [r \in {"SendSMS", "SendMultipartSMS"} |-> {}]

LocationEvents ==
    "RequestLocationUpdates" :> {"minTimeMs", "highFrequency"}
    @@ "FusedLocationUpdates" :> {"intervalMs", "highFrequency"}
    @@ "GetLastKnownLocation" :> {}

ContactEvents == "ReadContacts" :> {"uri"} @@ "ContactsContractAccess" :> {}

ClipboardEvents ==
    "ClipboardRead" :> {"possibleCryptoAddress"}
    @@ [r \in {"ClipboardWrite", "ClipboardCheck"} |-> {}]

CameraEvents ==
    "MediaRecorderVideoSource" :> {"source"}
    @@ [r \in {"CameraOpen", "CameraStartPreview", "MediaRecorderStart"} |-> {}]

MicrophoneEvents ==
    "MediaRecorderAudioSource" :> {"source", "isMic"}
    @@ [r \in {"AudioRecordStart", "AudioRecordRead"} |-> {}]

AccessibilityEvents ==
    "AccessibilityEvent" :> {"eventType", "isTextChange", "isWindowChange"}
    @@ "AccessibilityFindByText" :> {"searchText", "sensitiveSearch"}

OverlayEvents ==
    "OverlayWindowAdded" :> {"windowType", "flags", "isOverlay", "invisibleTapLogger"}
    @@ "LayoutInflate" :> {}

WindowsAgent ==
    FileExports @@ RegistryExports @@ NetworkExports @@ ProcessExports
    @@ MemoryExports @@ InjectionExports @@ ResolutionExports @@ CryptoExports
    @@ DeviceExports @@ ServiceExports @@ DriverExports @@ TokenExports

AndroidAgent ==
    JavaAnalogues @@ PermissionEvents @@ SmsEvents @@ LocationEvents
    @@ ContactEvents @@ ClipboardEvents @@ CameraEvents @@ MicrophoneEvents
    @@ AccessibilityEvents @@ OverlayEvents

\* generate_frida_agent() and generate_frida_android_agent()
Captured == [windows |-> WindowsAgent, android |-> AndroidAgent]

-----------------------------------------------------------------------------
(* The agent at work *)

VARIABLES
    platform,   \* the guest, and so the agent that runs in it
    now,        \* seconds since the agent was loaded
    guestRate,  \* rateState: API -> [start, count]
    batch,      \* the records not flushed yet
    lastFlush,
    channel,    \* batches sent and not received: the channel keeps their order
    failedSends \* how often send() threw

agentVars == <<platform, now, guestRate, batch, lastFlush, channel,
               failedSends>>

NoRates == [a \in {} |-> [start |-> 0, count |-> 0]]
NoRecords == <<>>

AgentInit ==
    /\ platform \in Platforms
    /\ now = 0
    /\ guestRate = NoRates
    /\ batch = NoRecords
    /\ lastFlush = 0
    /\ channel = <<>>
    /\ failedSends = 0

Smaller(a, b) == IF a <= b THEN a ELSE b

\* A budget per API and second, as rateLimited() keeps it in the guest and
\* _rate_limited() on the host: how many of n calls at time t are within it.
Running(rate, api, t) == api \in DOMAIN rate /\ t - rate[api].start < 1

Within(rate, api, n, t) ==
    LET used == IF Running(rate, api, t) THEN rate[api].count ELSE 0
    IN  IF used >= RateLimit[api] THEN 0 ELSE Smaller(n, RateLimit[api] - used)

Spend(rate, api, n, t) ==
    LET budget == IF Running(rate, api, t)
                  THEN [rate[api] EXCEPT !.count = @ + n]
                  ELSE [start |-> t, count |-> n]
    IN  [a \in {api} |-> budget] ++ rate

\* flush(): a send() that throws costs the Windows agent the batch; the Android
\* agent never gets to clearing it, and sends it again the next time.
Flush(records) ==
    \/ /\ channel' = Append(channel, records)
       /\ batch' = NoRecords
       /\ lastFlush' = now'
       /\ UNCHANGED failedSends
    \/ /\ failedSends < MaxFailedSends
       /\ failedSends' = failedSends + 1
       /\ batch' = IF platform = "windows" THEN NoRecords ELSE records
       /\ lastFlush' = now'
       /\ UNCHANGED channel

\* emit(): the record joins the batch, and a full or old batch is flushed.
\* The Android agent has the size only; its batches otherwise wait for the timer.
Emit(record) ==
    LET held == Append(batch, record)
    IN  IF \/ Len(held) >= BatchSize
           \/ platform = "windows" /\ now' - lastFlush >= 1
        THEN Flush(held)
        ELSE batch' = held /\ UNCHANGED <<lastFlush, channel, failedSends>>

\* onEnter and onLeave of a hook; without a hook the call leaves no trace.
\* The Windows agent counts against the budget of the canonical name it was
\* installed with, which is what Resolved gives but for CreateRemoteThreadEx.
Canonical(raw) ==
    IF raw = "CreateRemoteThreadEx" THEN "CreateRemoteThread"
    ELSE CHOOSE api \in Resolved(raw) : TRUE

\* Whatever is hooked is a monitored API: a fact of the tables alone.
ASSUME HookedAssumption ==
    \A p \in Platforms : \A raw \in DOMAIN Captured[p] : Canonical(raw) \in Apis

\* A reported name stands for one entry, the one the agent counts it by.
\* The host knows all names but the one that has no entry of its own.
ASSUME ResolvedAssumption ==
    /\ \A raw \in Reported : \A api \in Resolved(raw) : api = Canonical(raw)
    /\ \A p \in Platforms : \A raw \in DOMAIN Captured[p] :
          Resolved(raw) = {} => raw = "CreateRemoteThreadEx"

\* retval is the status of the call: what RegCreateKeyExW opened goes into the
\* argument hkResult, and RegSetValueExW reports the handle as its hKey.
Success == "ERROR_SUCCESS"

\* Mutant of Report: the time of the batch instead of the call's.
ReportAtFlush(step, n) ==
    [raw |-> step.raw, pid |-> step.pid, at |-> lastFlush, n |-> n,
     returned |-> Success, handle |-> step.handle,
     marks |-> Evident(step.shows, Captured[platform][step.raw]),
     permissions |-> step.permissions]

Report(step, n) ==
    [raw |-> step.raw, pid |-> step.pid, at |-> now', n |-> n,
     returned |-> Success, handle |-> step.handle,
     marks |-> Evident(step.shows, Captured[platform][step.raw]),
     permissions |-> step.permissions]

Observe(step) ==
    LET api == Canonical(step.raw)
        passed == IF platform = "windows" THEN Within(guestRate, api, step.n, now')
                  ELSE step.n
    IN  IF step.raw \notin DOMAIN Captured[platform]
        THEN UNCHANGED <<guestRate, batch, lastFlush, channel, failedSends>>
        ELSE /\ guestRate' = IF platform = "windows"
                             THEN Spend(guestRate, api, step.n, now') ELSE guestRate
             /\ IF passed = 0 THEN UNCHANGED <<batch, lastFlush, channel, failedSends>>
                ELSE Emit(Report(step, passed))

\* Mutant of FlushTimer: flush() does not look whether there is anything.
FlushTimerAlways ==
    /\ now' = now
    /\ Flush(batch)
    /\ UNCHANGED <<platform, guestRate>>

\* Mutant of FlushTimer: only full batches leave.
FlushTimerWhenFull ==
    /\ Len(batch) >= BatchSize
    /\ FlushTimerAlways

\* setInterval(flush, CONFIG.flush_ms)
FlushTimer ==
    /\ batch # NoRecords
    /\ now' = now
    /\ Flush(batch)
    /\ UNCHANGED <<platform, guestRate>>
=============================================================================
