----------------------------- MODULE StaticEngine -----------------------------
(***************************************************************************)
(* The static analysis engine (static-analysis/): what it reports of one   *)
(* file.                                                                   *)
(*                                                                         *)
(* Contents maps the hash of a file to what is in it: its size, its magic  *)
(* ("zip", "gzip", "exe", "dll", "elf", "mach_o", "json", "bson", "other"),*)
(* the atoms that signatures look for and the words among its raw bytes,   *)
(* the facts a format parser finds (none when parsed is FALSE), the        *)
(* members of an archive in the order they are read, each of them with its *)
(* name, its suffix and the hash of its content, and the hash of what      *)
(* unpacking it gives ("" when it cannot be unpacked).  Words says of a    *)
(* word what type of string it is, the category of the keyword in it, if   *)
(* it names a tool and, of a URL, its host.                                *)
(***************************************************************************)
EXTENDS Integers, Sequences, FiniteSets, FiniteSetsExt, SequencesExt

CONSTANTS Contents, Words, Signatures

\* The rule files that are compiled hold finitely many signatures.
ASSUME SignatureAssumption == IsFiniteSet(Signatures)

MaxMembers       == 400
MaxMemberBytes   == 32 * 1024 * 1024
MaxTotalBytes    == 128 * 1024 * 1024
MaxCombinedBytes == 32 * 1024 * 1024
MaxUnwrapBytes   == 200 * 1024 * 1024

SizeOf(m) == Contents[m.of].size

-----------------------------------------------------------------------------
(* Formats *)

HasManifest(c) == \E i \in 1..Len(c.members) : c.members[i].name = "AndroidManifest.xml"

\* The format a detector declares; a plain archive has none.
Declared(c) ==
    IF c.magic = "zip" /\ HasManifest(c) THEN "apk"
    ELSE IF c.magic \in {"exe", "dll", "elf", "mach_o"} THEN c.magic ELSE "none"

FileType(c, suffix) ==
    IF Declared(c) # "none" THEN Declared(c)
    ELSE IF suffix = "" THEN "bin" ELSE suffix

PlatformOf(type) ==
    IF type = "apk" THEN "android"
    ELSE IF type \in {"exe", "dll", "pe"} THEN "windows"
    ELSE IF type = "elf" THEN "linux" ELSE "macos"

-----------------------------------------------------------------------------
(* Rules over normalized facts (rules/) *)

IndicatorTypes == {"url", "ipv4", "ipv6", "domain", "email"}

PathTypes == {"registry_path", "windows_path", "unix_path"}

Explained(words) ==
    {w \in words : Words[w].keyword # "" \/ Words[w].type \in IndicatorTypes \cup PathTypes}

ExplainedCategory(w) ==
    IF Words[w].keyword # "" THEN Words[w].keyword
    ELSE IF Words[w].type \in IndicatorTypes THEN "network_indicator"
    ELSE IF Words[w].type = "registry_path" THEN "persistence" ELSE "filesystem_indicator"

NoFacts ==
    [apis |-> {}, permissions |-> {}, entropies |-> {}, packed |-> FALSE,
     wx |-> {}, signed |-> "unknown", stripped |-> FALSE, sections |-> {},
     metadata |-> {}, words |-> {}]

Rule(fires, name, category, severity) ==
    IF fires THEN {[rule |-> name, category |-> category, severity |-> severity]} ELSE {}

ImportRules(f) ==
    Rule(f.apis # {}, "suspicious_imports", "suspicious_import", "high")
    \cup Rule(f.permissions # {}, "dangerous_permissions", "dangerous_permission", "medium")

PackingRules(f) ==
    Rule(\E e \in f.entropies : e >= 720, "high_entropy", "high_entropy", "medium")
    \cup Rule(f.packed, "packed_binary", "packed_binary", "high")

StringRules(f) ==
    Rule(\E w \in f.words : Words[w].keyword # "",
         "suspicious_strings", "suspicious_string", "medium")
    \cup Rule(\E w \in f.words : Words[w].type \in IndicatorTypes \ {"email"},
              "network_indicators", "network_indicator", "low")

BinaryRules(f) ==
    Rule(f.wx # {}, "executable_writable_sections", "executable_writable_section", "high")
    \cup Rule(f.signed = "no", "unsigned_binary", "unsigned_binary", "low")
    \cup Rule(f.metadata # {} \/ f.stripped \/ f.sections # {},
              "suspicious_metadata", "suspicious_metadata", "low")

RuleMatches(f) == ImportRules(f) \cup PackingRules(f) \cup StringRules(f) \cup BinaryRules(f)

\* What the analyzer of a format hands to the rules of what its parser found.
BinaryFacts(c) ==
    [NoFacts EXCEPT !.words = c.words, !.entropies = c.facts.entropies,
                    !.wx = c.facts.wx, !.packed = c.facts.packed,
                    !.metadata = c.facts.metadata]

ApkFacts(c) ==
    [NoFacts EXCEPT !.permissions = c.facts.permissions, !.metadata = c.facts.metadata]

PeFacts(c) ==
    [BinaryFacts(c) EXCEPT !.apis = c.facts.apis, !.sections = c.facts.sections,
                           !.signed = c.facts.signed]

ElfFacts(c) ==
    [BinaryFacts(c) EXCEPT !.apis = c.facts.apis, !.sections = c.facts.sections,
                           !.stripped = c.facts.stripped]

MachOFacts(c) == [BinaryFacts(c) EXCEPT !.signed = c.facts.signed]

FormatFacts(c) ==
    CASE ~c.parsed -> NoFacts
      [] Declared(c) = "apk" -> ApkFacts(c)
      [] Declared(c) \in {"exe", "dll"} -> PeFacts(c)
      [] Declared(c) = "elf" -> ElfFacts(c)
      [] Declared(c) = "mach_o" -> MachOFacts(c)
      [] OTHER -> NoFacts

\* The engine's own look at every file: its words and dangerous permissions.
CommonFacts(c) ==
    [NoFacts EXCEPT !.words = c.words, !.permissions = FormatFacts(c).permissions]

-----------------------------------------------------------------------------
(* Signatures: the file, then every member, then all the members together *)

Scan(atoms) ==
    {[rule |-> g.rule, category |-> g.category, severity |-> g.severity] :
        g \in {x \in Signatures : x.atoms \subseteq atoms}}

SkippedSuffixes ==
    {"png", "jpg", "jpeg", "gif", "webp", "bmp", "ico", "ttf", "otf", "woff", "woff2",
     "mp3", "mp4", "ogg", "wav", "m4a", "webm"}

\* Media and an unreadable or oversized member are passed over; the rest is read.
ReadMembers(c) ==
    FoldLeft(LAMBDA read, m :
                IF \/ Len(read) >= MaxMembers
                   \/ m.suffix \in SkippedSuffixes
                   \/ m.unreadable \/ SizeOf(m) > MaxMemberBytes
                   \/ FoldLeft(LAMBDA n, r : n + SizeOf(r), 0, read) + SizeOf(m)
                        > MaxTotalBytes
                THEN read ELSE Append(read, m),
             <<>>, c.members)

CombinedAtoms(members) ==
    FoldLeft(LAMBDA all, m :
                IF all.bytes >= MaxCombinedBytes THEN all
                ELSE [bytes |-> all.bytes + SizeOf(m),
                      atoms |-> all.atoms \cup Contents[m.of].atoms],
             [bytes |-> 0, atoms |-> {}], members).atoms

SignatureMatches(c) ==
    LET members == ReadMembers(c)
    IN  Scan(c.atoms)
        \cup IF c.magic # "zip" THEN {}
             ELSE (UNION {Scan(Contents[m.of].atoms) : m \in ToSet(members)})
                  \cup Scan(CombinedAtoms(members))

-----------------------------------------------------------------------------
(* The report *)

Failed == [failed |-> TRUE]

ReportOf(h, c, facts, type) ==
    [failed |-> FALSE, sha |-> h, size |-> c.size, type |-> type,
     platform |-> PlatformOf(type),
     yara |-> RuleMatches(facts) \cup RuleMatches(CommonFacts(c)) \cup SignatureMatches(c),
     urls |-> {w \in c.words : Words[w].type = "url"},
     ips |-> {w \in c.words : Words[w].type = "ipv4"},
     keywords |-> {w \in c.words : Words[w].tool},
     explained |-> Explained(c.words),
     permissions |-> IF type = "apk" /\ c.parsed THEN c.facts.requested ELSE {},
     imports |-> IF type \in {"exe", "dll"} /\ c.parsed THEN c.facts.imports ELSE {},
     packing |-> [packed |-> facts.packed, tried |-> FALSE, yara |-> {}]]

Findings(h, suffix) ==
    ReportOf(h, Contents[h], FormatFacts(Contents[h]), FileType(Contents[h], suffix))

\* A file that is analysed on behalf of another one is not unpacked again.
Unpacked(report, suffix) ==
    IF ~report.packing.packed THEN report
    ELSE LET inner == Contents[report.sha].unpacked
         IN  [report EXCEPT
                !.packing.tried = TRUE,
                !.packing.yara = IF inner = "" THEN {} ELSE Findings(inner, suffix).yara]

Largest(members) ==
    members[CHOOSE i \in 1..Len(members) :
                \A j \in 1..Len(members) :
                    \/ SizeOf(members[j]) < SizeOf(members[i])
                    \/ SizeOf(members[j]) = SizeOf(members[i]) /\ i <= j]

\* A bare archive around one sample; the member of a gzip has the file's name.
Unwraps(c) ==
    /\ Declared(c) = "none"
    /\ c.magic \in {"zip", "gzip"}
    /\ c.members # <<>>
    /\ \A m \in ToSet(c.members) : SizeOf(m) <= MaxUnwrapBytes

Analyze(h, suffix) ==
    LET c == Contents[h]
        inner == Largest(c.members)
    IN  IF c.size = 0 THEN Failed
        ELSE IF ~Unwraps(c) THEN Unpacked(Findings(h, suffix), suffix)
        ELSE IF inner.unreadable \/ SizeOf(inner) = 0 THEN Failed
        ELSE Findings(inner.of, IF c.magic = "gzip" THEN suffix
                                ELSE IF inner.suffix = "" THEN "bin" ELSE inner.suffix)

=============================================================================
