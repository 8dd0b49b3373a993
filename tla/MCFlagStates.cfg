SPECIFICATION Spec
CONSTANTS
    Requests = {r1, r2, r3}
    Schedulers = {s1, s2}
    Envs = {e1, e2}
    Patches <- MCPatches
    Payload <- MCPayload
    None = None
    MaxTime = 1
    MaxCalls = 3
    MaxFaults = 2
INVARIANTS IInv TickExclusive AppliedWasWritten
PROPERTIES OnlyWhatWasAsked
SYMMETRY MCSymmetry
