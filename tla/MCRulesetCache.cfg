CONSTANTS
    Instances = {i1}
    Handlers = {h1, h2}
    Envs = {e1}
    None = None
    MaxFlagWrites = 1
    MaxStateWrites = 2
    MaxSegWrites = 1
    MaxLosses = 1
SPECIFICATION Spec
INVARIANTS IInv  
PROPERTIES TellsForward StaleStateEvicted
