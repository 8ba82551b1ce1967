SPECIFICATION Spec
CONSTANTS
    a = a
    b = b
    bad = bad
    p1 = p1
    p2 = p2
    NoProc = NoProc
    NoName = NoName
    Absent = Absent
    Procs = {p1, p2}
    Members <- OnePackage
    RootDirs <- Checkout
    PathOrder <- TwoPaths
    Contents <- AllContents
    Unreadable <- OnlyBad
    Source <- TextOf
    Size <- OneSize
    Commits <- History
    InitDisk <- BothFiles
    MaxEdits = 2
    MaxRuns = 3
SYMMETRY Interchangeable
INVARIANTS FtsMirrorsRows BundleComplete MaskedOnlyByRace QuietRunConverges
CHECK_DEADLOCK FALSE
