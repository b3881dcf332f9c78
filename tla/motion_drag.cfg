\* One press of the cord, as far as it goes.
CONSTANTS
    Actuation = 2
    Travel = 3
    Patience = 2
    MaxGestures = 1
SPECIFICATION MotionSpec
INVARIANT OneDragFiresOnce
CHECK_DEADLOCK FALSE
