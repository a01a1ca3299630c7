\* Two workers compete for one guest under fair scheduling, and a job for another
\* platform, of which there is no guest, stays in the list: neither the races for the
\* guest, nor failing runs, nor that job keep another from its end.
SPECIFICATION FairSpec
CONSTANTS
    j1 = j1
    j2 = j2
    j3 = j3
    g1 = g1
    g2 = g2
    w1 = w1
    w2 = w2
    s1 = s1
    s2 = s2
    s3 = s3
    android = android
    windows = windows
    Jobs = {j1, j2, j3}
    Samples = {s1, s2, s3}
    Platforms = {windows, android}
    NoJob = NoJob
    ShaOf <- ForeignShaOf
    PlatformOf <- ForeignPlatformOf
    Urgent = 3
    SubmitPriorities = {1}
    MaxAged = 0
    Guests = {g1}
    GuestPlatform <- MCGuestPlatform
    Holders = {j1, j2, j3}
    NoHolder = NoJob
    MaxFailures = 2
    MaxExpired = 0
    Workers = {w1, w2}
    NoGuest = NoGuest
    MaxAttempts = 1
    MaxCancels = 0
    MaxDisables = 0
PROPERTIES
    GuestComesBack
    JobSettles
