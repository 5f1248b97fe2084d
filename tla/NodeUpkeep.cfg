SPECIFICATION ResyncSpec
CONSTANTS
    n1 = n1
    n2 = n2
    p1 = p1
    p2 = p2
    o1 = o1
    o2 = o2
    None = None
    Nodes = {n1}
    Paths = {p1, p2}
    Nums = {o1, o2}
    Dcs = {d1, d2}
    Images = {i1, i2}
    SbNum <- OwnNumbers
    Slots <- OneHost
    Disturbances = {"image", "create", "delete", "osddelete", "agent", "kube",
                    "http500", "readsb", "restart", "relabel"}
    MaxDisturb = 2
INVARIANT TypeOK
PROPERTY EventuallyConverged
PROPERTY EventuallySettled
