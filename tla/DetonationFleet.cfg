\* Two guests, two workers, two submissions of one sample, one attempt each; one
\* cancellation, one guest disabled by an operator, one lease past its timeout.
SPECIFICATION Spec
CONSTANTS
    j1 = j1
    j2 = j2
    j3 = j3
    g1 = g1
    g2 = g2
    w1 = w1
    w2 = w2
    s1 = s1
    s2 = s2
    s3 = s3
    windows = windows
    android = android
    Jobs = {j1, j3}
    Samples = {s1}
    Platforms = {windows}
    NoJob = NoJob
    ShaOf <- MCShaOf
    PlatformOf <- MCPlatformOf
    Urgent = 3
    SubmitPriorities = {1}
    MaxAged = 0
    Guests = {g1, g2}
    GuestPlatform <- MCGuestPlatform
    Holders = {j1, j3}
    NoHolder = NoJob
    MaxFailures = 2
    MaxExpired = 1
    Workers = {w1, w2}
    NoGuest = NoGuest
    MaxAttempts = 1
    MaxCancels = 1
    MaxDisables = 1
SYMMETRY Symmetry
INVARIANTS
    TypeOK
    LeaseExclusive
    CleanDetonation
    IdleIsClean
    QuarantineHolds
    NoLostGuest
PROPERTIES
    ImplementsLease
    OfflineUntilRestored
