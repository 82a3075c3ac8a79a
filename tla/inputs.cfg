\* Every set of up to five nodes, calls of up to three arguments, and replies; an
\* input ends when it is complete.
CONSTANTS
    m1 = m1
    m2 = m2
    m3 = m3
    Macs = {m1, m2, m3}
    NoMac = NoMac
    MaxDevs = 5
    MaxArgs = 3
    None = None
SPECIFICATION InputsSpec
CHECK_DEADLOCK FALSE
INVARIANTS CompleteSetsPairByMac IdentitiesDistinct CallsFollowSpec RepliesAreRead
