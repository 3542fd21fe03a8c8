\* One trip, two requests at once beside the listeners: with a move of a socket or
\* a failure anywhere; with a payment, confirmation, rating or message from the
\* start; or with three of those once the driver has accepted.
\* Once the trip is over the parties may leave it at that.
SPECIFICATION MCSpec
CONSTANTS
    w1 = w1
    w2 = w2
    Workers = {w1, w2}
    ClientRole = "client"
    MaxListeners = 1
    MaxPushes = 1
    MaxMoves = 1
    MaxAsides = 3
    MaxFaults = 1
SYMMETRY WorkerSymmetry
INVARIANTS
    TypeOK
    WordGetsRound
    TheOtherIsPushed
    LastNewsIsTrue
    MessagesArePushed
    AfterTheFact
CHECK_DEADLOCK FALSE
