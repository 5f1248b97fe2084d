SPECIFICATION ResyncSpec
CONSTANTS
    Hosts = {h1, h2}
    Unschedulable = {h2}
    Images = {i1}
    Replicas = {1}
    None = None
    Disturbances = {"evict", "nodedelete", "fail", "restart"}
    MaxDisturb = 2
PROPERTY EventuallyNodes
