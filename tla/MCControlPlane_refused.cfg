SPECIFICATION Spec
CONSTANTS
    z1 = z1
    z2 = z2
    Zones = {z1}
    NameOf <- SoleName
    OwnerOf <- SoleOwner
    Records = {r1}
    Handlers = {h1}
    Replicas = {p1}
    None = None
    MaxRequests = 1
PROPERTY RefusedOnlyIfTaken
