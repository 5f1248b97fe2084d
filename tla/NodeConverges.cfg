SPECIFICATION FairSpec
CONSTANTS
    n1 = n1
    n2 = n2
    p1 = p1
    p2 = p2
    o1 = o1
    o2 = o2
    None = None
    Nodes = {n1, n2}
    Paths = {p1, p2}
    Nums = {o1, o2}
    Dcs = {d1}
    Images = {i1}
    SbNum <- OwnNumbers
    Slots <- HostEach
    Disturbances = {"attach", "detach", "relabel", "fail", "restart"}
    MaxDisturb = 2
INVARIANT KeepsServing
INVARIANT TreeClosed
INVARIANT HostsAttended
INVARIANT NothingForgotten
PROPERTY KeepsPlacement
PROPERTY Lifecycle
PROPERTY EventuallyConverged
PROPERTY EventuallyPlaced
PROPERTY EventuallySettled
