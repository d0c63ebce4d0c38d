SPECIFICATION Spec
CONSTANTS
    t1 = t1
    t2 = t2
    parameter = parameter
    Threads = {t1, t2}
    Pollers = {t1, t2}
    Channels = {parameter}
    NoChannel = NoChannel
    EventCapacity = 2
    Batches <- MCBatches
    NoThread = NoThread
    MaxEvents = 3
    MaxStreams = 2
    MaxIds = 2
PROPERTIES
    DeliveredInOrder
