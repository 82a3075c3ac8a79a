\* One remote, root and a user, each running one command of any kind.
CONSTANTS
    a = a
    k1 = k1
    k2 = k2
    tv = tv
    cal = cal
    root = root
    user = user
    NoKey = NoKey
    NoDevice = NoDevice
    TheOnly = TheOnly
    NoCode = NoCode
    Idle = Idle
    Clients = {root, user}
    Root = {root}
    Programs <- MCPrograms
    Default = Default
    Absent = Absent
    Unset = Unset
    Missing = Missing
    Broken = Broken
    NaN = NaN
    NoName = NoName
    NoJob = NoJob
    Keys = {k1, k2}
    Names = {Default, tv}
    Scrolls = {2}
    Senses = {30}
    Paths = {cal}
    Alphas = {}
    Unit = 2
    MaxScroll = 3
    MaxSens = 30
    FileOrder <- MCOrder
    Remaps <- MCRemaps
    FirstFiles <- MCFirstFiles
    Ids = {a}
    Editable = {}
    Edits = {}
    StateEdits = {}
SPECIFICATION FairBusSpec
INVARIANTS AcknowledgedIsDone RefusedIsUndone OnlyPermitted
PROPERTIES CommandsEnd LoopComesBack
