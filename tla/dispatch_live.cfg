\* From the system as a crash may leave pending trips, and from trips that
\* drivers have accepted: every one of them ends or starts, although no user but
\* the driver does anything and although the process may die.
SPECIFICATION LiveSpec
CONSTANTS
    Trips = {t1}
    Drivers = {d1}
    NoTrip = NoTrip
    NoDriver = NoDriver
    Slots = {s1}
    Calls = {"advance"}
    MaxDispatchAttempts = 1
    MaxRounds = 1
    LockOutlivesTimeout = FALSE
    MaxAge = 3
    MaxCrashes = 1
PROPERTIES
    NobodyWaitsForEver
    SettledIsFinal
