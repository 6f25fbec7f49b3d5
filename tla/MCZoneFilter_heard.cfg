SPECIFICATION Spec
CONSTANTS
    Zones = {z1, z2}
    Callbacks = {c1}
    Boot = Boot
    Sub = Sub
    None = None
    Threshold = 2
    MaxChanges = 2
INVARIANT HeardZonesAreFound
