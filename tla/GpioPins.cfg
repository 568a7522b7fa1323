SPECIFICATION Spec
CONSTANTS
    u1 = u1
    u2 = u2
    u3 = u3
    Users = {u1, u2, u3}
    Pins <- MCPins
    PinOf <- MCPinOf
INVARIANT PinKeepsLevel
INVARIANT OutputDriven
