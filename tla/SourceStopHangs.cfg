CONSTANTS
    s1 = s1  k1 = k1  k2 = k2  m1 = m1  m2 = m2
    NoMsg = NoMsg  NoSink = NoSink
    Sources = {s1}
    Sinks = {k1}
    Msgs = {m1, m2}
    Origin <- MCOrigin
    KeyOf <- MCKeyOf
    Fixed = FALSE
    Hwm = 1
    KafkaFaults = {}
    Stoppable = {s1}
    MaxBacklog = 2
SPECIFICATION SourceSpec
PROPERTIES StopReturns
CHECK_DEADLOCK FALSE
