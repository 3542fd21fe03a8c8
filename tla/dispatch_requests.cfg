\* Every operation of the interface against one driver's trip.
SPECIFICATION Spec
CONSTANTS
    Trips = {t1}
    Drivers = {d1}
    NoTrip = NoTrip
    NoDriver = NoDriver
    Slots = {s1, s2}
    Calls = {"create", "accept", "decline", "wsDecline", "advance", "cancelByDriver",
             "cancelByClient", "cancelAuto", "pendingRequest"}
    MaxDispatchAttempts = 2
    MaxRounds = 5
    LockOutlivesTimeout = FALSE
    MaxAge = 0
    MaxCrashes = 0
SYMMETRY DriverSlotSymmetry
INVARIANTS
    RoundsInBudget
    StatusMatchesDriver
    LockHasOffer
PROPERTIES
    SettledIsFinal
    ImplementsLedger
