\* One remote on two event numbers, or two remotes that follow each other on one: what
\* the loop and its fallback rescan eventually do.
CONSTANTS
    r1 = r1
    r2 = r2
    m1 = m1
    m2 = m2
    Macs = {m1, m2}
    NoMac = NoMac
    NoNode = NoNode
    Closed = Closed
    Hw = {r1, r2}
    MacOf <- OneWithoutMac
    Paths = {1, 2}
    Fds <- MCFdsOfTwo
    UinputFails = FALSE
    MaxAttached = 4
SPECIFICATION LiveSpec
PROPERTIES AllGoneCleansUp  MistakesEnd
