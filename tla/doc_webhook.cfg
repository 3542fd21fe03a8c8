\* Two webhooks of one payment overlap.
SPECIFICATION Spec
CONSTANTS
    Payments = {p1}
    Trips = {t1}
    Workers = {w1, w2}
    MaxFaults = 0
INVARIANTS
    CountedOnce
CHECK_DEADLOCK FALSE
