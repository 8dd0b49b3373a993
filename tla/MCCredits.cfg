CONSTANTS
    Callers = {c1, c2}
    Bearers = {b1, b2}
    NoKey = k0
    Keys = {k0, k1}
    Periods = {p1}
    Amounts = {2}
    Packs = {1}
    Units = 1
    None = None
    Seed = 1
    MaxConns = 3
    MaxBought = 1
SPECIFICATION Spec
INVARIANTS IInv Conserved AnswersTrue
PROPERTIES LedgerSpec CallsReturn
