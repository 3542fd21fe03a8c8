\* The search for a second trip's driver runs beside the acceptance of the
\* first; no lock expires under a handler and nothing re-arms one.
SPECIFICATION Spec
CONSTANTS
    Trips = {t1, t2}
    Drivers = {d1}
    NoTrip = NoTrip
    NoDriver = NoDriver
    Slots = {s1, s2}
    Calls = {"create", "accept"}
    MaxDispatchAttempts = 1
    MaxRounds = 1
    LockOutlivesTimeout = TRUE
    MaxAge = 0
    MaxCrashes = 0
INVARIANTS
    OneTripPerDriver
