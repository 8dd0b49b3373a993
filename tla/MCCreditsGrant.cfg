CONSTANTS
    Callers = {c1}
    Bearers = {b1, b2}
    NoKey = k0
    Keys = {k0, k1}
    Periods = {p1}
    Amounts = {1}
    Packs = {1}
    Units = 1
    None = None
    Seed = 0
    MaxConns = 3
    MaxBought = 0
SPECIFICATION Spec
INVARIANT GrantHonoured
