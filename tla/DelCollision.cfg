CONSTANTS
    s1 = s1  s2 = s2  k1 = k1  k2 = k2  m1 = m1  m2 = m2
    NoMsg = NoMsg  NoSink = NoSink
    Sources = {s1, s2}
    Sinks = {k1}
    Msgs = {m1, m2}
    Origin <- TwoSources
    KeyOf <- EqualKeys
    Fixed = FALSE
    Hwm = 2
    KafkaFaults = {}
    Stoppable = {}
    Prepared <- AllPrepared
    Gets = 1  Dels = 1  Recovers = 0
    MaxIssued <- Issued
    MaxRequests = 2
    QueueMax = 2
    Starts1 = 1  Starts2 = 1
    MaxStarts <- Started
SPECIFICATION SafetySpec
INVARIANTS DeletedOnRequest
CHECK_DEADLOCK FALSE
