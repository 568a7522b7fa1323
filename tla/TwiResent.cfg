SPECIFICATION Spec
CONSTANTS
    Lengths <- MCLengths
    SizeMax = 7
    Bauds = {"standard", "fast"}
    Paced = TRUE
INVARIANT NothingBeforeStart
