\* Two drivers are offered one trip in the same round and compete for it
\* while one of them may already be driving; requests, timeouts and sweeps
\* interleave at every await.
SPECIFICATION Spec
CONSTANTS
    Trips = {t1}
    Drivers = {d1, d2}
    NoTrip = NoTrip
    NoDriver = NoDriver
    Slots = {s1, s2}
    Calls = {"create", "accept", "advance"}
    MaxDispatchAttempts = 2
    MaxRounds = 2
    LockOutlivesTimeout = FALSE
    MaxAge = 0
    MaxCrashes = 0
SYMMETRY DriverSlotSymmetry
INVARIANTS
    AssignedWasNotified
    FailureSparesAssigned
PROPERTIES
    DriverStays
