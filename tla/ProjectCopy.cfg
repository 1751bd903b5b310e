\* Two projects, one request at a time.
CONSTANTS
    HandleProjects = {p1, p2}
    LegacyProjects = {}
    FolderIds = {f1}
    NoFolder = NoFolder
    NoMirror = NoMirror
    MaxMirrors = 2
    HandleReqs = {r1}
SPECIFICATION HandlesSpec
INVARIANT OneToOne
CHECK_DEADLOCK FALSE
