CONSTANTS
    s1 = s1  s2 = s2  k1 = k1  k2 = k2  m1 = m1  m2 = m2
    NoMsg = NoMsg  NoSink = NoSink
    Sources = {s1}
    Sinks = {k1, k2}
    Msgs = {m1, m2}
    Origin <- OneSource
    KeyOf <- DistinctKeys
    Fixed = TRUE
    Hwm = 1
    KafkaFaults = {}
    Stoppable = {}
    Prepared <- OnlyK1
    Gets = 1  Dels = 1  Recovers = 0
    MaxIssued <- Issued
    MaxRequests = 2
    QueueMax = 1
    Starts1 = 2  Starts2 = 1
    MaxStarts <- Started
SPECIFICATION SafetySpec
INVARIANTS TypeOK DeletedOnRequest ForItsSink PreparedIsReachable
PROPERTIES TransferSpec
CHECK_DEADLOCK FALSE
