SPECIFICATION Spec
CONSTANTS
    Listeners = {l1, l2}
    MaxEvents = 2
    MaxPushes = 3
    MaxSubscribes = 2
    MaxBreaks = 1
    Runs = {r1, r2}
    MaxControls = 5
INVARIANTS
    OnceInOrder
    NothingSkipped
PROPERTIES
    CursorCatchesUp
    ControlsTakeEffect
    CancelledIsFinal
CHECK_DEADLOCK FALSE
