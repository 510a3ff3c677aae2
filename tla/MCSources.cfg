\* Every index over eight rows in three parts, six of them to a search.
SPECIFICATION SourcesSpec
CONSTANTS
    Parts <- MCParts
    Stamps <- MCStamps
    Size = 3
    Ceiling = 6
    MaxPage = 2
    NativePage = 4
    Quota = 2
    Walked = {"github", "chain", "quota", "golang", "pypi", "hackage", "opam", "npm", "maven", "crates", "hex", "rubygems", "mined", "packaged"}
    Yields <- MCYields
    Defects <- MCDefects
    Kernel = TRUE
    AtOnce = 2
    MaxPages = 9
    MaxFaults = 2
    MaxStarts = 1
INVARIANTS
    SourcesTypeOK
    EmptyMeansExhausted
PROPERTIES
    NothingIsBoughtTwice
    WalkReachesAll
CHECK_DEADLOCK FALSE
