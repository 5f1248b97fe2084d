SPECIFICATION ResyncSpec
CONSTANTS
    Hosts = {h1}
    Unschedulable = {}
    Images = {i1}
    Replicas = {1}
    None = None
    Disturbances = {"create", "delete"}
    MaxDisturb = 2
PROPERTY EventuallyNodes
