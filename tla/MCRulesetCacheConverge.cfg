CONSTANTS
    Instances = {i1}
    Handlers = {h1}
    Envs = {e1}
    None = None
    MaxFlagWrites = 0
    MaxStateWrites = 2
    MaxSegWrites = 0
    MaxLosses = 0
SPECIFICATION Spec
PROPERTY InstancesConverge
