\* Ten settings: overlapping uploads, writers of one case, refused rows, no
\* database, failed analyses, archives, and the queue with Redis outages.
SPECIFICATION FairSpec
CONSTANTS
    Contents <- MCContents
    Words <- MCWords
    Signatures <- MCSignatures
    Benign <- MCBenign
    ScamWords <- MCScamWords
    Settings <- MCSettings
    NoCase <- NothingFound
INVARIANTS
    TypeOK
    CustodyLinear
    VerdictSound
    CompletedMeansSaved
    QueuedOnce
PROPERTY UploadSettles
\* Every request may be dealt with.
CHECK_DEADLOCK FALSE
