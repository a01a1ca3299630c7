------------------------------ MODULE HookCatalog ------------------------------
(***************************************************************************)
(* The monitored API surface (dynamic-sandbox/hooks/api_catalog.py) and    *)
(* what the two guest agents hook of it (hooks/hook_installer.py).         *)
(*                                                                         *)
(* Of a catalog entry the model keeps its name, its category and its rate  *)
(* limit.  Of an agent's hook it keeps the name the agent reports, and the *)
(* captured arguments some condition of a chain rule can be decided from;  *)
(* argument values, buffers, decoded flag names and report texts are left  *)
(* out.  "target_pid" is the field of that name in the event itself.       *)
(***************************************************************************)
EXTENDS Naturals, Sequences, TLC

-----------------------------------------------------------------------------
(* The catalog: each section maps an API to rate_limit_per_sec *)

\* Entries with one limit; a dictionary and what another has besides.
Each(apis, limit) == [a \in apis |-> limit]
f ++ g == [x \in DOMAIN f \cup DOMAIN g |-> IF x \in DOMAIN f THEN f[x] ELSE g[x]]

FilesystemHooks ==
    Each({"ReadFile", "WriteFile"}, 500)
    ++ Each({"CreateFile", "DeleteFile", "FindNextFile"}, 200)
    ++ Each({"MoveFile", "CopyFile", "FindFirstFile"}, 100)

RegistryHooks ==
    Each({"RegOpenKey"}, 200)
    ++ Each({"RegCreateKey", "RegSetValue", "RegDeleteKey", "RegDeleteValue",
             "RegEnumKey"}, 100)

NetworkHooks ==
    Each({"send", "recv"}, 200)
    ++ Each({"InternetConnect", "WinHttpSendRequest", "InternetOpenUrl",
             "connect"}, 100)

ProcessHooks ==
    Each({"EnumProcesses", "EnumProcessModules"}, 50)
    ++ Each({"CreateProcess", "OpenProcess", "TerminateProcess",
             "GetModuleFileName"}, 100)

ExecutionHooks == Each({"ShellExecute"}, 100)

MemoryHooks == Each({"VirtualAlloc"}, 300) ++ Each({"VirtualProtect"}, 100)

InjectionHooks == Each({"NtWriteVirtualMemory", "CreateRemoteThread"}, 100)

\* Mutant of ResolutionHooks: a budget below the number that makes a finding.
ResolutionHooksTight == Each({"LoadLibrary"}, 200) ++ Each({"GetProcAddress"}, 40)

ResolutionHooks == Each({"LoadLibrary"}, 200) ++ Each({"GetProcAddress"}, 1000)

CryptoHooks == Each({"CryptEncrypt", "CryptDecrypt"}, 50)

DeviceHooks == Each({"DeviceIoControl"}, 100)

ServiceHooks ==
    Each({"OpenSCManager", "CreateService", "ChangeServiceConfig",
          "StartService", "ControlService", "DeleteService"}, 100)

DriverHooks == Each({"NtLoadDriver", "NtSetSystemInformation"}, 100)

TokenHooks ==
    Each({"OpenProcessToken", "AdjustTokenPrivileges", "DuplicateTokenEx",
          "ImpersonateLoggedOnUser", "SetThreadToken", "GetTokenInformation",
          "CreateProcessWithToken"}, 100)

PermissionHooks ==
    Each({"RequestPermissions"}, 20) ++ Each({"CheckPermission"}, 200)
    ++ Each({"GrantRuntimePermission", "SetPackagePermission"}, 10)

SmsHooks ==
    Each({"ReadSMS"}, 100) ++ Each({"DownloadMMS"}, 20)
    ++ Each({"SendSMS", "SendMultipartSMS", "DeleteSMS",
             "SendMultipartTextMessage"}, 50)

LocationHooks ==
    Each({"GetLastKnownLocation"}, 100) ++ Each({"GeofencingAdd"}, 20)
    ++ Each({"LocationRequestHighAccuracy"}, 30)
    ++ Each({"RequestLocationUpdates", "FusedLocationUpdates"}, 50)

ContactHooks ==
    Each({"ReadContacts"}, 100)
    ++ Each({"ContactsContractAccess", "WriteContacts", "DeleteContacts"}, 50)

ClipboardHooks ==
    Each({"ClipboardCheck"}, 500) ++ Each({"ClipboardRead", "ClipboardWrite"}, 200)

CameraHooks ==
    Each({"CameraSetParameters"}, 50)
    ++ Each({"CameraOpen", "CameraStartPreview", "MediaRecorderVideoSource",
             "CameraTakePicture"}, 20)

MicrophoneHooks ==
    Each({"AudioRecordRead"}, 500)
    ++ Each({"AudioRecordStart", "MediaRecorderAudioSource"}, 20)

MediaHooks == Each({"MediaRecorderStart"}, 20)

AccessibilityHooks ==
    Each({"AccessibilityEvent"}, 300) ++ Each({"AccessibilityFindByText"}, 200)
    ++ Each({"AccessibilityPerformAction"}, 100)
    ++ Each({"AccessibilityFindAccessibilityNodeInfo"}, 150)

OverlayHooks ==
    Each({"LayoutInflate"}, 300) ++ Each({"SystemAlertWindowRequest"}, 10)
    ++ Each({"OverlayWindowAdded", "WindowManagerAddView"}, 50)

\* What the sections list between them; no API is in two.
Listed(sections) ==
    [a \in UNION {DOMAIN s : s \in sections} |-> (CHOOSE s \in sections : a \in DOMAIN s)[a]]

WindowsCatalog ==
    Listed({FilesystemHooks, RegistryHooks, NetworkHooks, ProcessHooks, ExecutionHooks,
            MemoryHooks, InjectionHooks, ResolutionHooks, CryptoHooks, DeviceHooks,
            ServiceHooks, DriverHooks, TokenHooks})

AndroidCatalog ==
    Listed({PermissionHooks, SmsHooks, LocationHooks, ContactHooks, ClipboardHooks,
            CameraHooks, MicrophoneHooks, MediaHooks, AccessibilityHooks, OverlayHooks})

\* API_CATALOG: rate_limit_per_sec of every monitored API.
RateLimit == WindowsCatalog ++ AndroidCatalog
Apis == DOMAIN RateLimit

\* ApiCategory: the entries of one behavioural family.
Category ==
    [filesystem |-> DOMAIN FilesystemHooks, registry |-> DOMAIN RegistryHooks,
     network |-> DOMAIN NetworkHooks, memory |-> DOMAIN MemoryHooks,
     process |-> DOMAIN ProcessHooks \cup DOMAIN TokenHooks,
     injection |-> DOMAIN InjectionHooks, crypto |-> DOMAIN CryptoHooks,
     dynamic_resolution |-> DOMAIN ResolutionHooks,
     device |-> DOMAIN DeviceHooks \cup DOMAIN DriverHooks,
     execution |-> DOMAIN ExecutionHooks \cup DOMAIN ServiceHooks,
     permissions |-> DOMAIN PermissionHooks, sms |-> DOMAIN SmsHooks,
     location |-> DOMAIN LocationHooks, contacts |-> DOMAIN ContactHooks,
     clipboard |-> DOMAIN ClipboardHooks, camera |-> DOMAIN CameraHooks,
     microphone |-> DOMAIN MicrophoneHooks, media_capture |-> DOMAIN MediaHooks,
     accessibility |-> DOMAIN AccessibilityHooks, overlay |-> DOMAIN OverlayHooks]

CategoryOf(api) == CHOOSE c \in DOMAIN Category : api \in Category[c]

-----------------------------------------------------------------------------
(* API_ALIASES: the name an agent reports against the catalog's *)

\* Names the -A and -W suffixes do not give; the table also lists suffixed ones.
SpecialAliases ==
    [r \in {"RegCreateKeyExA", "RegCreateKeyExW"} |-> "RegCreateKey"]
    @@ [r \in {"RegSetValueExA", "RegSetValueExW"} |-> "RegSetValue"]
    @@ [r \in {"ShellExecuteExA", "ShellExecuteExW"} |-> "ShellExecute"]
    @@ [r \in {"LoadLibraryExA", "LoadLibraryExW"} |-> "LoadLibrary"]
    @@ [r \in {"GetModuleFileNameExA", "GetModuleFileNameExW"} |-> "GetModuleFileName"]
    @@ [r \in {"RegEnumKeyExA", "RegEnumKeyExW"} |-> "RegEnumKey"]
    @@ [r \in {"RegOpenKeyExA", "RegOpenKeyExW"} |-> "RegOpenKey"]
    @@ [r \in {"MoveFileExA", "MoveFileExW"} |-> "MoveFile"]
    @@ [r \in {"CopyFileExA", "CopyFileExW"} |-> "CopyFile"]
    @@ "VirtualAllocEx" :> "VirtualAlloc" @@ "VirtualProtectEx" :> "VirtualProtect"
    @@ "WriteProcessMemory" :> "NtWriteVirtualMemory"
    @@ "ZwLoadDriver" :> "NtLoadDriver"
    @@ "ZwSetSystemInformation" :> "NtSetSystemInformation"

\* The catalog's own names, and those of the Windows APIs with a suffix.
Suffixed == {api \o suffix : api \in DOMAIN WindowsCatalog, suffix \in {"A", "W"}}
Reported == Apis \cup Suffixed \cup DOMAIN SpecialAliases

ResolvesTo ==
    [raw \in Reported |->
        {api \in Apis :
            \/ raw = api
            \/ raw \in {api \o "A", api \o "W"}
            \/ raw \in DOMAIN SpecialAliases /\ SpecialAliases[raw] = api}]

\* resolve_api(): the catalog entry a reported name stands for, if any.
Resolved(raw) == IF raw \in Reported THEN ResolvesTo[raw] ELSE {}
=============================================================================
