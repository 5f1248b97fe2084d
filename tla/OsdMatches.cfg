SPECIFICATION FairSpec
CONSTANTS
    Nums = {o1}
    Nodes = {n1, n2}
    Images = {i1, i2}
    None = None
    Disturbances = {"create", "delete", "image", "respec", "stsdelete", "fail", "restart"}
    MaxDisturb = 5
INVARIANT TypeOK
INVARIANT OwnedOnItsHost
INVARIANT NothingForgotten
PROPERTY EventuallyMatches
