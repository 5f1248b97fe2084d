SPECIFICATION InFirst
CONSTANTS
    n1 = n1
    n2 = n2
    p1 = p1
    o1 = o1
    None = None
    Nodes = {n1, n2}
    Paths = {p1}
    Nums = {o1}
    Dcs = {}
    Images = {i1}
    SbNum <- OneDisk
    Slots <- AnyHost
    Disturbances = {"attach", "detach", "fail", "restart"}
    OsdDisturbances = {"fail", "restart"}
    MaxDisturb = 2
INVARIANT DaemonWithItsDisk
INVARIANT NoDaemonForgotten
PROPERTY EventuallyServed
