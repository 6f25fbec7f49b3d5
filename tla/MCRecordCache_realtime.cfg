SPECIFICATION Spec
CONSTANTS
    Zones = {z1}
    Queries = {q1}
    None = None
    Failed = Failed
    MaxVersion = 2
INVARIANT RealTimeUpdates
