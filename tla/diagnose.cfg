\* One diagnose command; the daemon and its remote come and go.
CONSTANTS
    Crashed = 139
    a = a
    user = user
    NoDevice = NoDevice
    TheOnly = TheOnly
    NoCode = NoCode
    Idle = Idle
    Clients = {user}
    Root = {}
    Programs = {}
    Default = Default
    Absent = Absent
    Unset = Unset
    Missing = Missing
    Broken = Broken
    NaN = NaN
    NoName = NoName
    NoJob = NoJob
    Keys = {}
    Names = {Default}
    Scrolls = {}
    Senses = {}
    Paths = {}
    Alphas = {}
    Unit = 2
    MaxScroll = 3
    MaxSens = 30
    FileOrder <- MCOrder
    Remaps = {}
    FirstFiles = {}
    Ids = {a}
    Editable = {}
    Edits = {}
    StateEdits = {}
SPECIFICATION DiagSpec
INVARIANT DiagnoseExitsZero
