CONSTANTS
    Msg = {m1, m2}
    MaxMessage = 2
    MaxWritten <- BothWrite
    MaxSequence = 4
SPECIFICATION SpecEach
CHECK_DEADLOCK FALSE
INVARIANTS
    ExactlyOnceInOrder SequenceNumbersAreFresh RunOnceInOrder
    SeenAndHeard EntitiesAreFound
PROPERTIES
    PushedAllOrNothing
    ResendsOnlyWhatIsMissing
    FreedOnlyWhenDelivered
    ImplementsReliableChannel
