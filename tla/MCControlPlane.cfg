SPECIFICATION Spec
CONSTANTS
    z1 = z1
    z2 = z2
    Zones = {z1, z2}
    NameOf <- OneName
    OwnerOf <- OneUser
    Records = {r1, r2}
    Handlers = {h1, h2}
    Replicas = {p1}
    None = None
    MaxRequests = 2
SYMMETRY Symmetry
INVARIANTS
    OrphansAreLate
    EventsMatchChanges
    Inv
PROPERTIES
    DeletedStaysDeleted
    ImplementsZoneTables
