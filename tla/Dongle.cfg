SPECIFICATION Spec
CONSTANTS
    Main = Main
    Others = {irq}
    Nested = TRUE
    Delays = {0, 1, 2}
    CPU_FREQ_MHZ = 2
    Round = 5
    Leds <- MCLeds
INVARIANT SpinWaits
INVARIANT CounterAsFound
INVARIANT CounterRuns
PROPERTY RaisedFromDefault
