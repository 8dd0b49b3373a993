SPECIFICATION Spec
CONSTANTS
    Pollers = {p}
    Streamers = {s}
    Relays = {q}
    Nobody = Nobody
    BufSize = 1
    MaxChanges = 3
    MaxReaders = 1
    Hooks = {h}
    Workers = {w1, w2}
    QueueCap = 1
    MaxRetries = 2
    MaxEvents = 2
    MaxEdits = 2
    BufferSize = 2
    BatchSize = 2
    FlushMax = 2
    MaxEmits = 3
INVARIANTS TypeOK StaleStreamExplained DeliveryConserved EventsConserved
PROPERTIES CatchesUp DeliveriesSettle EventsFlushed
CHECK_DEADLOCK FALSE
