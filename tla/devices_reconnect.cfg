\* A remote that comes back at its old event numbers.
CONSTANTS
    r1 = r1
    r2 = r2
    m1 = m1
    m2 = m2
    Macs = {m1, m2}
    NoMac = NoMac
    NoNode = NoNode
    Closed = Closed
    Hw = {r1}
    MacOf <- OneWithoutMac
    Paths = {1, 2}
    Fds <- MCFds
    UinputFails = FALSE
    MaxAttached = 4
SPECIFICATION MCSpec
PROPERTY RescanReopens
