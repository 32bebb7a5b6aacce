SPECIFICATION Spec
CONSTANTS
    Request = {r1, r2, r3}
    EventType <- MCEventType
    Body <- RaceBodies
    MaxFaults = 1
    MaxDeletes = 1
SYMMETRY Symmetry
INVARIANT OneObjectPerDescription
INVARIANT RowsAreThoseAskedFor
INVARIANT MakerIsShownAll
PROPERTY Implements
