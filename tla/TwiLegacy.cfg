SPECIFICATION Spec
CONSTANTS
    Lengths <- MCLengths
    SizeMax = 7
    Bauds = {"standard", "fast"}
    Paced = TRUE
INVARIANT WireInOrder
INVARIANT WriteDelivered
INVARIANT ReadExact
PROPERTY BusGivenUp
