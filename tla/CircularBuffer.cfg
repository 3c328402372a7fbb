CONSTANTS
    Capacities = {1, 2, 3}
    Wrap = 4
    MaxItems = 7
SPECIFICATION BufferSpec
INVARIANTS SlotsApart Conserved DestroysWhatIsLeft
PROPERTIES BoundedSpec ItemsDelivered RoomIsMade
CHECK_DEADLOCK FALSE
