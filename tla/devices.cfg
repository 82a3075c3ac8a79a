\* One remote on three event numbers, or two on two, and virtual devices that may fail
\* to appear.
CONSTANTS
    r1 = r1
    r2 = r2
    m1 = m1
    m2 = m2
    Macs = {m1, m2}
    NoMac = NoMac
    NoNode = NoNode
    Closed = Closed
    Hw = {r1, r2}
    MacOf <- OneWithoutMac
    Paths = {1, 2, 3}
    Fds <- MCFdsOfTwo
    UinputFails = TRUE
    MaxAttached = 4
SPECIFICATION MCSpec
INVARIANTS TypeOK DescriptorsOwned GrabHasTarget
