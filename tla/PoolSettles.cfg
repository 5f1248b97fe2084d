SPECIFICATION FairSpec
CONSTANTS
    a = a
    b = b
    c1 = c1
    c2 = c2
    None = None
    Names = {a, b}
    Ids = {c1, c2}
    IdsOf <- SharedIds
    Layouts = {l1, l2}
    Disturbances = {"create", "delete", "relayout", "reid", "scdelete", "fail", "restart"}
    MaxDisturb = 2
INVARIANT TypeOK
INVARIANT OfferedIsConfigured
INVARIANT OwnedOffersItsPool
INVARIANT NothingForgotten
PROPERTY KeepsPools
PROPERTY EventuallyOffered
PROPERTY EventuallyLaidOut
