SPECIFICATION Spec
CONSTANTS
    EventType <- MCEventType
    Body <- NoBody
    Summaries <- SomeSummaries
    Keys = {"time-duration", "policy"}
    Optional = {"time-duration"}
    Texts = {"a", "b", ""}
    Timestamps = {1, 2, 3}
    MaxCalls = 3
    MaxPoints = 3
    MaxPosts = 2
    MaxFaults = 2
INVARIANT PayloadAsAsked
INVARIANT ReturnIsStored
INVARIANT PrefixIsStored
INVARIANT CountedOncePerRow
CHECK_DEADLOCK FALSE
