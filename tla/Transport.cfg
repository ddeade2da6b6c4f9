SPECIFICATION Spec
CONSTANTS
    Events <- MCEvents
    InputLimit = 1
    MaxEvents = 2
INVARIANTS EventsInOrder NoInputReturned CancelIsFollowed
PROPERTY CallEnds
