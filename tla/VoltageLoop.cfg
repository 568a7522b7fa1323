SPECIFICATION BootSpec
PROPERTY LedsStart
CHECK_DEADLOCK FALSE
