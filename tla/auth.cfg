\* Two requests at a time on one account: codes, logins, refreshes and logouts
\* in every order over two seconds.
SPECIFICATION MCSpec
CONSTANTS
    Workers = {w1, w2}
    MaxAttempts = 2
    NoToken = NoToken
    MaxCodes = 2
    MaxSecond = 2
    MaxFaults = 1
SYMMETRY WorkerSymmetry
INVARIANTS
    TypeOK
    NoPenalty
    TriesAreBounded
    ExchangeLeavesHeir
    LinksFollowExchanges
PROPERTIES
    SpentIsFinal
