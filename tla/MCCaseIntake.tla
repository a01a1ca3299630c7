----------------------------- MODULE MCCaseIntake -----------------------------
(***************************************************************************)
(* Small samples and the settings they come in, for CaseIntake.            *)
(***************************************************************************)
EXTENDS CaseIntake

Word(type, keyword, tool, host) ==
    [type |-> type, keyword |-> keyword, tool |-> tool, host |-> host]

MCWords ==
    [w \in {"185.220.101.5", "149.154.167.220", "198.51.100.42", "103.21.244.0"} |->
        Word("ipv4", "", FALSE, "")]
    @@ [w \in {"api.telegram.org", "malicious-c2-node.xyz", "pay.example.in"} |->
        Word("domain", "", FALSE, "")]
    @@ [w \in {"http://pay.example.in/kyc"} |-> Word("url", "", FALSE, "pay.example.in")]
    @@ [w \in {"powershell -enc"} |-> Word("text", "shell", TRUE, "")]
    @@ [w \in {"HKCU\\Run"} |-> Word("registry_path", "", FALSE, "")]

MCSignatures ==
    {[rule |-> "kyc_scam", category |-> "india_scam", severity |-> "severe",
      atoms |-> {"kyc", "otp"}],
     [rule |-> "injector", category |-> "malware", severity |-> "critical",
      atoms |-> {"inject"}]}

MCBenign == {"api.telegram.org"}

MCScamWords == [c \in {"banking"} |-> {"kyc", "bank"}]

Bare ==
    [apis |-> {}, permissions |-> {}, requested |-> {}, imports |-> {}, entropies |-> {},
     packed |-> FALSE, wx |-> {}, signed |-> "yes", stripped |-> FALSE, sections |-> {},
     metadata |-> {}]

File(magic, words, atoms, facts) ==
    [size |-> 4096, magic |-> magic, atoms |-> atoms, words |-> words, facts |-> facts,
     parsed |-> TRUE, members |-> <<>>, unpacked |-> ""]

Archive(members) == [File("zip", {}, {}, Bare) EXCEPT !.members = members]

Member(name, suffix, of) ==
    [name |-> name, suffix |-> suffix, of |-> of, unreadable |-> FALSE]

Document(magic, doc) == File(magic, {}, {}, Bare) @@ [doc |-> doc]

NoStatic ==
    [yara |-> {}, permissions |-> {}, keywords |-> {}, imports |-> {}, ml |-> "none",
     flags |-> {}, ips |-> {}, urls |-> {}, platform |-> "windows", ftype |-> "exe"]

Seen(ip) ==
    [NoDynamic EXCEPT !.observed = TRUE,
                      !.connections = <<[ip |-> ip, c2 |-> TRUE, interval |-> 60]>>]

Described(rule, severity) ==
    [rule |-> rule, category |-> "generic", severity |-> severity, described |-> TRUE]

MCContents ==
    "loader" :> File("exe", {"185.220.101.5", "http://pay.example.in/kyc",
                             "powershell -enc", "HKCU\\Run"}, {"inject"},
                     [Bare EXCEPT !.apis = {"CreateRemoteThread"}, !.imports = {"setuid"},
                                  !.entropies = {750}])
    @@ "tool"   :> File("elf", {}, {}, [Bare EXCEPT !.stripped = TRUE])
    @@ "packed" :> [File("exe", {}, {}, [Bare EXCEPT !.packed = TRUE, !.signed = "no",
                                                     !.wx = {"UPX0"}, !.entropies = {790}])
                      EXCEPT !.unpacked = "loader"]
    @@ "dex"    :> File("other", {}, {"otp"}, Bare)
    @@ "xml"    :> File("other", {}, {"kyc"}, Bare)
    @@ "bank"   :> [Archive(<<Member("AndroidManifest.xml", "xml", "xml"),
                              Member("classes.dex", "dex", "dex")>>)
                      EXCEPT !.facts = [Bare EXCEPT !.permissions = {"READ_SMS"},
                                          !.requested = {"READ_SMS", "SYSTEM_ALERT_WINDOW"}]]
    @@ "bundle" :> Archive(<<Member("bank.apk", "apk", "bank")>>)
    @@ "sealed" :> Archive(<<[Member("tool", "elf", "tool") EXCEPT !.unreadable = TRUE]>>)
    @@ "wrapped" :> Archive(<<Member("tool", "elf", "tool")>>)
    @@ "broken" :> Document("json", [shape |-> "broken"])
    @@ "report" :> Document("json",
            [shape |-> "report", id |-> "case7", explained |-> {"pay.example.in"},
             static |-> [NoStatic EXCEPT !.yara = {Described("dropper", "high")},
                                         !.ips = {"198.51.100.42"},
                                         !.flags = {"hardcoded_c2_ip"}],
             dynamic |-> Seen("198.51.100.42")])
    @@ "vague"  :> Document("json",
            [shape |-> "report", id |-> "", explained |-> {},
             static |-> [NoStatic EXCEPT !.yara = {Described("x", "severe")}],
             dynamic |-> NoDynamic])
    @@ "dump"   :> Document("bson", [shape |-> "case", id |-> "", platform |-> "windows",
                                     risk |-> 60, status |-> ""])
    @@ "odd"    :> Document("bson", [shape |-> "case", id |-> "case7", platform |-> "ios",
                                     risk |-> 150, status |-> ""])

Submitted ==
    [id |-> "case7", static |-> [NoStatic EXCEPT !.permissions = {"LOCATION"}],
     dynamic |-> [Seen("103.21.244.0") EXCEPT
                    !.chains = <<[rule |-> "process_hollowing", severity |-> "critical",
                                  points |-> 30]>>]]

Upload(of, suffix) == [of |-> of, suffix |-> suffix]

Intake(of) == [of |-> of, package |-> {}, permissions |-> {}]

\* Nothing happens and nothing fails.
Quiet ==
    [upload |-> <<>>, submit |-> <<>>, ingest |-> {}, database |-> TRUE, tags |-> FALSE,
     sandbox |-> FALSE, failures |-> 0, polls |-> 0, restarts |-> 0, outages |-> 0]

One(file) == [u \in {"u1"} |-> file]

Two(file, other) == [u \in {"u1", "u2"} |-> IF u = "u1" THEN file ELSE other]

MCSettings == {
    \* one sample uploaded twice, and a call that fails
    [Quiet EXCEPT !.upload = Two(Upload("loader", "exe"), Upload("loader", "exe")),
                  !.failures = 1],
    \* one sample, watched, and a restart beside the failure
    [Quiet EXCEPT !.upload = One(Upload("loader", "exe")),
                  !.failures = 1, !.polls = 2, !.restarts = 1],
    \* three writers of one case
    [Quiet EXCEPT !.upload = One(Upload("report", "json")),
                  !.submit = [s \in {"s1"} |-> Submitted], !.failures = 1,
                  !.ingest = {Intake("report")}],
    \* the driver refuses tags; the case is lost when the backend goes down
    [Quiet EXCEPT !.upload = One(Upload("bundle", "zip")),
                  !.tags = TRUE, !.polls = 2, !.restarts = 1],
    \* the same sample, watched while it comes in another guise
    [Quiet EXCEPT !.upload = Two(Upload("bundle", "zip"), Upload("bank", "apk")),
                  !.tags = TRUE, !.polls = 1],
    \* no database, and files that end badly
    [Quiet EXCEPT !.upload = Two(Upload("sealed", "exe"), Upload("broken", "txt")),
                  !.database = FALSE, !.polls = 2, !.restarts = 1],
    [Quiet EXCEPT !.upload = Two(Upload("odd", "bson"), Upload("dex", "macho")),
                  !.sandbox = TRUE, !.polls = 2],
    [Quiet EXCEPT !.upload = Two(Upload("vague", "json"), Upload("packed", "exe")),
                  !.polls = 1],
    \* a sample in an archive that the upload does not open
    [Quiet EXCEPT !.upload = Two(Upload("wrapped", "exe"), Upload("dump", "bson")),
                  !.failures = 1, !.ingest = {Intake("vague")}],
    \* the queue, with Redis coming and going
    [Quiet EXCEPT !.upload = One(Upload("loader", "exe")),
                  !.ingest = {Intake("loader"),
                              [Intake("bank") EXCEPT
                                 !.package = {"kyc"},
                                 !.permissions = {"READ_SMS", "READ_CONTACTS"}]},
                  !.outages = 1, !.restarts = 1]}

NothingFound == [id |-> ""]

=============================================================================
