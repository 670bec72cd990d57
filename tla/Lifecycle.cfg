CONSTANTS
    a = a
    b = b
    w1 = w1
    w2 = w2
    Resources = {a, b}
    Workers = {w1, w2}
    Words = {"reg", "a", "b", "app", "tool", "v1", "docker.io", "library", "latest"}
    NoColon = "-"
    DockerHub = "docker.io"
    Library = "library"
    Latest = "latest"
    Setups <- SomeSetups
    MaxVersion = 2
    MaxOps = 3
    Faults = TRUE
    Nothing = Nothing
CONSTRAINT EditsBound
SPECIFICATION Spec
INVARIANTS IInv StoredIsShipped PublishedIsOwn
PROPERTIES PublishesRecorded ForeignLayersPushed
CHECK_DEADLOCK FALSE
