------------------------------ MODULE HookRules ------------------------------
(***************************************************************************)
(* The behaviour rules of the hook engine (hooks/hook_engine.py,           *)
(* CHAIN_RULES) and the conditions they put on single calls.               *)
(*                                                                         *)
(* A rule is an ordered sequence of APIs seen within window seconds.       *)
(* needs maps an API of the sequence to the condition a matched call has   *)
(* to meet; over is superseded_by.  Texts, ATT&CK identifiers and          *)
(* risk_points are left out, and so is same_process, which nothing reads.  *)
(***************************************************************************)
EXTENDS Naturals, Sequences, TLC

NoConditions == [a \in {} |-> ""]

Rule(id, severity, window, over, seq, needs) ==
    [id |-> id, severity |-> severity, window |-> window, over |-> over,
     seq |-> seq, needs |-> needs]

-----------------------------------------------------------------------------
(* Windows *)

InjectionRules == {
    Rule("classic_injection", "critical", 30, {},
         <<"VirtualAlloc", "NtWriteVirtualMemory", "CreateRemoteThread">>,
         "VirtualAlloc" :> "rwx_or_exec"
         @@ "NtWriteVirtualMemory" :> "foreign_process"),
    Rule("injection_no_alloc", "critical", 15, {"classic_injection", "process_hollowing"},
         <<"NtWriteVirtualMemory", "CreateRemoteThread">>,
         "NtWriteVirtualMemory" :> "foreign_process"),
    Rule("process_hollowing", "critical", 60, {},
         <<"CreateProcess", "NtWriteVirtualMemory", "CreateRemoteThread">>,
         "CreateProcess" :> "suspended")}

UnpackingRules == {
    Rule("runtime_unpacking", "high", 20, {},
         <<"VirtualAlloc", "VirtualProtect">>,
         "VirtualProtect" :> "becomes_executable"),
    Rule("decrypt_then_execute", "high", 30, {},
         <<"CryptDecrypt", "VirtualProtect">>,
         "VirtualProtect" :> "becomes_executable")}

RansomwareRules == {
    Rule("ransomware_cycle", "critical", 10, {},
         <<"ReadFile", "CryptEncrypt", "WriteFile">>, NoConditions),
    Rule("destructive_delete", "high", 10, {},
         <<"ReadFile", "DeleteFile">>, NoConditions)}

PersistenceRules == {
    Rule("drop_and_persist", "critical", 120, {},
         <<"WriteFile", "RegCreateKey", "RegSetValue">>,
         "RegSetValue" :> "autostart_key"),
    Rule("registry_persistence", "high", 30, {},
         <<"RegCreateKey", "RegSetValue">>,
         "RegSetValue" :> "autostart_key")}

ExfiltrationRules == {
    Rule("collect_and_exfiltrate", "critical", 120, {},
         <<"ReadFile", "InternetConnect", "WinHttpSendRequest">>, NoConditions),
    Rule("encrypt_then_exfiltrate", "critical", 60, {},
         <<"CryptEncrypt", "WinHttpSendRequest">>, NoConditions)}

ConcealmentRules == {
    Rule("dynamic_api_resolution", "medium", 5, {},
         <<"LoadLibrary", "GetProcAddress">>, NoConditions),
    Rule("download_and_execute", "critical", 180, {},
         <<"WinHttpSendRequest", "WriteFile", "ShellExecute">>, NoConditions),
    Rule("driver_communication", "high", 30, {},
         <<"CreateFile", "DeviceIoControl">>,
         "CreateFile" :> "device_path")}

ServiceRules == {
    Rule("service_persistence_install", "critical", 60, {},
         <<"OpenSCManager", "CreateService", "StartService">>,
         "CreateService" :> "service_auto_start"),
    Rule("service_hijack", "critical", 30, {},
         <<"OpenSCManager", "ChangeServiceConfig">>,
         "ChangeServiceConfig" :> "suspicious_binary_path"),
    Rule("drop_and_install_service", "critical", 120, {},
         <<"WriteFile", "OpenSCManager", "CreateService">>, NoConditions)}

DriverRules == {
    Rule("driver_load_from_nonstandard_path", "critical", 5, {},
         <<"NtLoadDriver">>,
         "NtLoadDriver" :> "nonstandard_driver_path"),
    Rule("drop_and_load_driver", "critical", 120, {},
         <<"WriteFile", "CreateService", "NtLoadDriver">>,
         "NtLoadDriver" :> "nonstandard_driver_path"),
    Rule("byovd_attack", "critical", 30, {},
         <<"NtLoadDriver", "DeviceIoControl">>, NoConditions)}

TokenRules == {
    Rule("token_impersonation_full", "critical", 30, {},
         <<"OpenProcessToken", "DuplicateTokenEx", "CreateProcessWithToken">>,
         "DuplicateTokenEx" :> "token_primary_type"),
    Rule("token_impersonation_basic", "high", 15, {"token_impersonation_full"},
         <<"OpenProcessToken", "ImpersonateLoggedOnUser">>, NoConditions),
    Rule("privilege_enable_debug", "critical", 10, {},
         <<"OpenProcessToken", "AdjustTokenPrivileges">>,
         "AdjustTokenPrivileges" :> "debug_privilege_enabled"),
    Rule("escalate_and_exec", "critical", 30, {},
         <<"AdjustTokenPrivileges", "CreateProcess">>,
         "AdjustTokenPrivileges" :> "any_privilege_enabled")}

EvasionRules == {
    Rule("security_process_termination", "critical", 15, {},
         <<"OpenProcess", "TerminateProcess">>,
         "OpenProcess" :> "suspicious_target_process"),
    Rule("security_service_disabled", "critical", 30, {},
         <<"OpenSCManager", "ControlService">>,
         "ControlService" :> "service_stop"),
    Rule("security_service_deleted", "critical", 30, {},
         <<"OpenSCManager", "DeleteService">>, NoConditions),
    Rule("registry_security_disabled", "high", 30, {},
         <<"RegOpenKey", "RegDeleteValue">>,
         "RegOpenKey" :> "security_registry_key")}

ProcessReconRules == {
    Rule("process_enumeration_high_frequency", "medium", 60, {},
         <<"EnumProcesses">>, NoConditions),
    Rule("module_enumeration_suspicious_target", "high", 30, {},
         <<"OpenProcess", "EnumProcessModules">>,
         "OpenProcess" :> "suspicious_target_process")}

FileReconRules == {
    Rule("document_directory_enumeration", "high", 30, {},
         <<"FindFirstFile", "FindNextFile">>,
         "FindFirstFile" :> "document_pattern"),
    Rule("system_directory_enumeration", "medium", 30, {},
         <<"FindFirstFile", "FindNextFile">>,
         "FindFirstFile" :> "system_pattern"),
    Rule("file_replacement_attack", "high", 5, {},
         <<"CopyFile">>,
         "CopyFile" :> "system_directory_destination")}

NetworkRules == {
    Rule("socket_based_c2", "high", 30, {},
         <<"connect", "send">>, NoConditions),
    Rule("high_frequency_beaconing", "high", 60, {},
         <<"WinHttpSendRequest">>, NoConditions),
    Rule("direct_url_c2", "high", 30, {},
         <<"InternetOpenUrl">>, NoConditions)}

AdvancedPersistenceRules == {
    Rule("file_based_persistence", "high", 10, {},
         <<"CopyFile">>,
         "CopyFile" :> "startup_directory"),
    Rule("file_moved_to_system_location", "high", 10, {},
         <<"MoveFile">>,
         "MoveFile" :> "system_directory_destination"),
    Rule("registry_run_key_persistence", "high", 30, {},
         <<"RegCreateKey", "RegSetValue">>,
         "RegCreateKey" :> "run_key")}

LateralRules == {
    Rule("credential_dumping_preparation", "critical", 5, {},
         <<"OpenProcess">>,
         "OpenProcess" :> "lsass_target"),
    Rule("network_discovery", "medium", 60, {},
         <<"InternetConnect">>, NoConditions)}

-----------------------------------------------------------------------------
(* Android *)

SmsRules == {
    Rule("android_sms_interception", "critical", 60, {},
         <<"ReadSMS", "SendSMS">>, NoConditions),
    Rule("android_sms_exfiltration", "critical", 120, {},
         <<"ReadSMS", "InternetConnect">>, NoConditions)}

ContactRules == {
    Rule("android_contact_exfiltration", "high", 120, {},
         <<"ReadContacts", "InternetConnect">>, NoConditions),
    Rule("android_contact_smishing", "critical", 120, {},
         <<"ReadContacts", "SendSMS">>, NoConditions)}

LocationRules == {
    Rule("android_location_exfiltration", "high", 180, {},
         <<"RequestLocationUpdates", "InternetConnect">>, NoConditions),
    Rule("android_cached_location_exfiltration", "high", 180, {},
         <<"GetLastKnownLocation", "InternetConnect">>, NoConditions)}

ClipboardRules == {
    Rule("android_crypto_clipper", "critical", 5, {},
         <<"ClipboardRead", "ClipboardWrite">>,
         "ClipboardRead" :> "crypto_address_clipboard"),
    Rule("android_clipboard_hijack", "high", 5, {"android_crypto_clipper"},
         <<"ClipboardRead", "ClipboardWrite">>, NoConditions),
    Rule("android_clipboard_exfiltration", "high", 120, {},
         <<"ClipboardRead", "InternetConnect">>, NoConditions)}

RecordingRules == {
    Rule("android_audio_surveillance", "critical", 300, {},
         <<"AudioRecordStart", "InternetConnect">>, NoConditions),
    Rule("android_covert_audio_recording", "high", 60, {},
         <<"MediaRecorderAudioSource", "MediaRecorderStart">>,
         "MediaRecorderAudioSource" :> "covert_audio_source"),
    Rule("android_camera_surveillance", "critical", 300, {},
         <<"CameraOpen", "InternetConnect">>, NoConditions),
    Rule("android_covert_photo_capture", "critical", 10, {},
         <<"CameraTakePicture">>, NoConditions),
    Rule("android_camera_without_permission_flow", "high", 15, {},
         <<"CameraOpen", "CameraSetParameters">>, NoConditions)}

PermissionRules == {
    Rule("android_permission_escalation", "critical", 5, {},
         <<"GrantRuntimePermission">>, NoConditions),
    Rule("android_permission_state_manipulation", "critical", 5, {},
         <<"SetPackagePermission">>, NoConditions),
    Rule("android_overlay_permission_request", "high", 10, {},
         <<"SystemAlertWindowRequest">>,
         "SystemAlertWindowRequest" :> "permission_granted")}

SmsDestructionRules == {
    Rule("android_sms_evidence_destruction", "critical", 60, {},
         <<"ReadSMS", "DeleteSMS">>, NoConditions),
    Rule("android_sms_mass_deletion", "high", 30, {},
         <<"DeleteSMS">>, NoConditions),
    Rule("android_mms_payload_delivery", "high", 10, {},
         <<"DownloadMMS">>, NoConditions)}

ContactChangeRules == {
    Rule("android_contact_manipulation", "high", 10, {},
         <<"WriteContacts">>, NoConditions),
    Rule("android_contact_destruction", "high", 10, {},
         <<"DeleteContacts">>, NoConditions),
    Rule("android_contact_replacement", "critical", 30, {},
         <<"DeleteContacts", "WriteContacts">>, NoConditions)}

TrackingRules == {
    Rule("android_geofencing_surveillance", "high", 30, {},
         <<"GeofencingAdd">>, NoConditions),
    Rule("android_high_accuracy_tracking", "high", 10, {},
         <<"LocationRequestHighAccuracy">>,
         "LocationRequestHighAccuracy" :> "high_accuracy_requested"),
    Rule("android_location_geofence_exfiltration", "high", 60, {},
         <<"GeofencingAdd", "InternetConnect">>, NoConditions)}

AutomationRules == {
    Rule("android_accessibility_automation", "critical", 30, {},
         <<"AccessibilityEvent", "AccessibilityPerformAction">>, NoConditions),
    Rule("android_accessibility_credential_automation", "critical", 15, {},
         <<"AccessibilityFindByText", "AccessibilityPerformAction">>,
         "AccessibilityFindByText" :> "credential_search"),
    Rule("android_accessibility_navigate_and_act", "high", 30, {},
         <<"AccessibilityFindAccessibilityNodeInfo", "AccessibilityPerformAction">>, NoConditions)}

OverlayPermissionRules == {
    Rule("android_overlay_without_permission", "high", 10, {},
         <<"WindowManagerAddView">>, NoConditions),
    Rule("android_overlay_with_permission_escalation", "critical", 30, {},
         <<"SystemAlertWindowRequest", "OverlayWindowAdded">>,
         "SystemAlertWindowRequest" :> "permission_granted"),
    Rule("android_automated_overlay_attack", "critical", 30, {},
         <<"AccessibilityEvent", "OverlayWindowAdded">>,
         "AccessibilityEvent" :> "window_change_event"),
    Rule("android_video_recording", "high", 60, {},
         <<"MediaRecorderVideoSource", "MediaRecorderStart">>,
         "MediaRecorderVideoSource" :> "camera_video_source")}

AccessibilityRules == {
    Rule("android_accessibility_credential_theft", "critical", 60, {},
         <<"AccessibilityEvent", "AccessibilityFindByText">>,
         "AccessibilityFindByText" :> "credential_search"),
    Rule("android_accessibility_exfiltration", "high", 180, {},
         <<"AccessibilityEvent", "InternetConnect">>,
         "AccessibilityEvent" :> "text_capture_event")}

OverlayRules == {
    Rule("android_targeted_overlay", "critical", 30, {},
         <<"AccessibilityEvent", "OverlayWindowAdded">>,
         "AccessibilityEvent" :> "window_change_event"
         @@ "OverlayWindowAdded" :> "overlay_window"),
    Rule("android_overlay_credential_theft", "critical", 120, {},
         <<"OverlayWindowAdded", "LayoutInflate", "InternetConnect">>,
         "OverlayWindowAdded" :> "overlay_window")}

DynamicCodeRules == {
    Rule("android_dynamic_dex_then_network", "high", 180, {},
         <<"LoadLibrary", "InternetConnect">>,
         "LoadLibrary" :> "dynamic_dex")}

\* CHAIN_RULES
ChainRules ==
    UNION {InjectionRules, UnpackingRules, RansomwareRules, PersistenceRules,
           ExfiltrationRules, ConcealmentRules, ServiceRules, DriverRules,
           TokenRules, EvasionRules, ProcessReconRules, FileReconRules,
           NetworkRules, AdvancedPersistenceRules, LateralRules, SmsRules,
           ContactRules, LocationRules, ClipboardRules, RecordingRules,
           PermissionRules, SmsDestructionRules, ContactChangeRules,
           TrackingRules, AutomationRules, OverlayPermissionRules,
           AccessibilityRules, OverlayRules, DynamicCodeRules}

-----------------------------------------------------------------------------
(***************************************************************************)
(* CONDITIONS.  What a condition looks for is abstract: a call of the      *)
(* sample either shows it or not.  What matters is where it looks: the     *)
(* condition can be met only by a call that carries one of these           *)
(* arguments.  (any_privilege_enabled and debug_privilege_enabled also     *)
(* look at DisableAllPrivileges, which is captured with the others.)       *)
(***************************************************************************)
MemoryConditions ==
    [rwx_or_exec |-> {"flProtect"}, becomes_executable |-> {"flNewProtect"},
     foreign_process |-> {"target_pid"}, suspended |-> {"dwCreationFlags"},
     autostart_key |-> {"lpSubKey", "lpValueName"}, device_path |-> {"lpFileName"}]

ServiceConditions ==
    [service_auto_start |-> {"dwStartType"},
     suspicious_binary_path |-> {"lpBinaryPathName"},
     nonstandard_driver_path |-> {"DriverServiceName"},
     debug_privilege_enabled |-> {"FirstLuid"},
     any_privilege_enabled |-> {"PrivilegeCount"},
     token_primary_type |-> {"TokenType"}]

EvasionConditions ==
    [suspicious_target_process |-> {"dwProcessId"}, service_stop |-> {"dwControl"},
     security_registry_key |-> {"lpSubKey"}, document_pattern |-> {"lpFileName"},
     system_pattern |-> {"lpFileName"}, startup_directory |-> {"lpNewFileName"},
     system_directory_destination |-> {"lpNewFileName", "lpDestination"},
     run_key |-> {"lpSubKey"}, lsass_target |-> {"dwDesiredAccess"}]

PhoneConditions ==
    [dangerous_permission |-> {"permissions", "dangerous"}, sms_uri |-> {"uri"},
     contacts_uri |-> {"uri"}, crypto_address_clipboard |-> {"possibleCryptoAddress"},
     high_frequency_location |-> {"highFrequency", "minTimeMs", "intervalMs"},
     covert_audio_source |-> {"isMic", "source"}, camera_video_source |-> {"source"}]

ScreenConditions ==
    [credential_search |-> {"sensitiveSearch", "searchText"},
     text_capture_event |-> {"isTextChange", "eventType"},
     window_change_event |-> {"isWindowChange", "eventType"},
     overlay_window |-> {"windowType", "isOverlay"},
     invisible_overlay |-> {"invisibleTapLogger", "flags"},
     dynamic_dex |-> {"dynamic_dex"}, permission_granted |-> {"granted"},
     high_accuracy_requested |-> {"quality"}]

\* _decode_android: the fact is derived for the counters, no rule asks for it.
DecodedFacts == [records_call |-> {"source"}, is_dangerous |-> {"permission"}]

Conditions ==
    MemoryConditions @@ ServiceConditions @@ EvasionConditions
    @@ PhoneConditions @@ ScreenConditions

\* What a call that shows these facts lets the host see of them.
Evident(shows, captured) ==
    {f \in shows : (Conditions @@ DecodedFacts)[f] \cap captured # {}}
=============================================================================
