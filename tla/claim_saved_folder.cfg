SPECIFICATION Spec
CONSTANTS
    Folder = {f1, f2}
    Policy = {p, q}
    None = None
    MaxRequests = 3
    MaxBoots = 2
    MaxBusy = 2
INVARIANT OnlySyncedSaved
CONSTRAINT Bounded
SYMMETRY Symmetric
CHECK_DEADLOCK FALSE
