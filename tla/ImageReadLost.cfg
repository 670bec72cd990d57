\* A session cut short may pass for a success: the image is not in the registry.
CONSTANTS
    NumWorkers = 2
    NumTags = 1
    Platform <- TwoReleases
    OSBuild <- RecordedBuilds
    NoList = NoList
SPECIFICATION Spec
INVARIANTS SuccessIsPushed
