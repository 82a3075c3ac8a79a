\* A keyboard with three keys, autorepeat, lost events and a table that can fill
\* up; the remote with its wheel, its air mouse, profiles and calibration files.
CONSTANTS
    k1 = k1
    k2 = k2
    k3 = k3
    tv = tv
    alphaLow = alphaLow
    alphaHigh = alphaHigh
    calA = calA
    Default = Default
    Absent = Absent
    Unset = Unset
    Unreadable = Unreadable
    Identity = Identity
    Keys = {k1, k2, k3}
    Names = {Default, tv}
    Scrolls = {1, 3}
    Senses = {15}
    Alphas = {alphaHigh}
    GlobalAlphas = {alphaHigh}
    Paths = {}
    Unit = 2
    Calibs = {calA}
    Configs <- MCAllConfigs
    MaxHeld = 2
    MaxDown = 3
    Notches <- MCNotches
    Repeats = TRUE
SPECIFICATION UseSpec
INVARIANTS TypeOK HeldOnce NoOrphanKey PinsFollowMap NoStuckKey RemoteKeyIsDown LessThanAClickPending
PROPERTIES RemapReleasesAll ImplementsPins NoBackwardScroll CalibrationSurvives
