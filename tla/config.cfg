\* Two remotes, every call with a speed of 0 and a NaN among them, failures, crashes and restarts; a person edits one of them and state.toml.
CONSTANTS
    a = a
    b = b
    k1 = k1
    k2 = k2
    tv = tv
    cal = cal
    Default = Default
    Absent = Absent
    Unset = Unset
    Missing = Missing
    Broken = Broken
    NaN = NaN
    NoName = NoName
    NoJob = NoJob
    Keys = {k1, k2}
    Names = {Default, tv}
    Senses = {0, 2, 4}
    Paths = {cal}
    Alphas = {}
    Unit = 2
    MaxScroll = 3
    MaxSens = 3
    FileOrder <- MCOrder
    Remaps <- MCRemaps
    FirstFiles <- MCFirstFiles
    Ids = {a, b}
    Scrolls = {2, NaN}
    Editable = {b}
    Edits <- MCEdits
    StateEdits <- MCStateEdits
SPECIFICATION MCSpec
INVARIANTS TypeOK MemoryMatchesDisk PipelineFollowsConfig
PROPERTIES OthersUntouched FilesStayParseable
