SPECIFICATION FairSpec
CONSTANTS
    d1 = d1
    p1 = p1
    p2 = p2
    None = None
    Disks = {d1, nbd0}
    Nbd = {nbd0}
    Parts = {p1, p2}
    DiskOf <- OnOneDisk
    Clients = {c1, c2}
    Disturbances = {"prepare", "plug", "unplug", "wipe", "toolfail", "readsb", "crash"}
    MaxDisturb = 3
INVARIANT AnswerBounded
PROPERTY ClashNeedsOverlap
PROPERTY EventuallyReported
