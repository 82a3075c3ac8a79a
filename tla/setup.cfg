\* One remote, and three events: runs of the wizard, and things others do meanwhile.
CONSTANTS
    dev = dev
    own = own
    unknown = unknown
    etc = etc
    custom = custom
    default_calib = default_calib
    alpha = alpha
    Default = Default
    Absent = Absent
    Unset = Unset
    Missing = Missing
    Broken = Broken
    NaN = NaN
    NoName = NoName
    NoJob = NoJob
    Automatic = Automatic
    NotFinite = NotFinite
    NotGiven = NotGiven
    NoFile = NoFile
    Garbled = Garbled
    Sys = Sys
    Root = Root
    User = User
    Dev = dev
    Ids = {dev}
    Uniqs = {"mac", "none"}
    Nodes = {1, 2}
    OwnPath = own
    UnknownPath = unknown
    EtcPath = etc
    Homes = {Root, User}
    CalibKey = default_calib
    TuningKey = alpha
    StrKeys = {default_calib}
    NumKeys = {alpha}
    KeyOrder <- MCKeyOrder
    Strings = {own, unknown, etc}
    Numbers = {2, 3}
    Defaults <- MCDefaults
    Offered = {Automatic, 3, NotFinite}
    Tunings = {3, NotFinite}
    OutOfRange = {2}
    FirstConfigs <- MCFirstConfigs
    MaxEvents = 3
    Keys = {}
    Names = {Default}
    Scrolls = {}
    Senses = {}
    Paths = {own, custom}
    Alphas = {}
    Unit = 2
    MaxScroll = 3
    MaxSens = 3
    FileOrder <- MCOrder
    Remaps = {}
    FirstFiles = {}
    Editable = {}
    Edits = {}
    StateEdits = {}
SPECIFICATION MCSpec
INVARIANTS ReloadedMeansUsed FinishedMeansInstalled ModuleRunsMode DeviceFileNamesCalibration SavedIsEffective
CHECK_DEADLOCK FALSE
