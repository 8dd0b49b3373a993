SPECIFICATION Spec
CONSTANTS
    Requests = {r1, r2}
    Schedulers = {s1, s2}
    Envs = {e1, e2}
    Patches <- MCPatches
    Payload <- MCPayload
    None = None
    MaxTime = 1
    MaxCalls = 3
    MaxFaults = 0
INVARIANT KillHolds
