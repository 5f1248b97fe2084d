SPECIFICATION FairSpec
CONSTANTS
    Hosts = {}
    Unschedulable = {}
    Images = {i1, i2}
    Replicas = {1, 2}
    None = None
    Disturbances = {"create", "delete", "edit", "drop", "fail", "restart"}
    MaxDisturb = 2
INVARIANT TypeOK
INVARIANT NothingForgotten
PROPERTY EventuallyDeployed
