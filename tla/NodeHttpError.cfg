SPECIFICATION Spec
CONSTANTS
    n1 = n1
    n2 = n2
    p1 = p1
    p2 = p2
    o1 = o1
    o2 = o2
    None = None
    Nodes = {n1}
    Paths = {p1, p2}
    Nums = {o1, o2}
    Dcs = {}
    Images = {i1}
    SbNum <- OwnNumbers
    Slots <- OneHost
    Disturbances = {"http500"}
    MaxDisturb = 1
INVARIANT KeepsServing
