\* Two identical hosts and two tags: both push under the same names.
CONSTANTS
    NumWorkers = 2
    NumTags = 2
    Platform <- OneRelease
    OSBuild <- RecordedBuilds
    NoList = NoList
CONSTRAINT BuildsEnd
SPECIFICATION Spec
INVARIANTS IInv
