\* Every .dockerignore of up to three lines over a small tree, and every
\* Dockerfile of up to three lines with an empty one.  It stops when the session
\* has returned, with the archive goroutine blocked for ever if Copy failed.
CONSTANTS
    Names <- TreeNames
    Paths <- Tree
    Kind <- TreeKind
    Globs <- TreeGlobs
    BadGlobs <- BadTreeGlobs
    MaxPatterns = 3
    Dockerfiles <- SomeDockerfiles
    StartBufSize = 8
    MaxTokenSize = 16
    Plain <- PlainDockerfile
SPECIFICATION SpecShipping
INVARIANTS ShippingIInv DirectoryBehindAll SuccessIsClosed RecordedIsWhole PanicsAtAnEdge
PROPERTIES SessionEnds
CHECK_DEADLOCK FALSE
