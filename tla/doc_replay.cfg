\* A retry that comes after the answer runs the handler again.
SPECIFICATION Spec
CONSTANTS
    Requests = {r1, r2}
    NoResponse = NoResponse
    MaxFaults = 0
INVARIANTS
    ExecutedOnce
CHECK_DEADLOCK FALSE
