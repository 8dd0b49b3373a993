CONSTANTS
    Instances = {i1}
    Handlers = {h1}
    Envs = {e1, e2}
    None = None
    MaxFlagWrites = 1
    MaxStateWrites = 1
    MaxSegWrites = 1
    MaxLosses = 0
SPECIFICATION Spec
PROPERTY AnyChangeInvalidates
