\* Two workers of different releases, one tag: every interleaving.
CONSTANTS
    NumWorkers = 2
    NumTags = 1
    Platform <- TwoReleases
    OSBuild <- RecordedBuilds
    NoList = NoList
SPECIFICATION FairSpec
INVARIANTS SuccessIsComplete ListsAreFresh QuietOnSuccess
PROPERTIES UploadsAreFresh ReleaseSpec Returns FailureIsReported
