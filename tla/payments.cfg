\* Two payments and a trip: webhooks, polls, completions and one error, two at
\* a time.  Nobody has to pay or to drive: the system may come to rest.
SPECIFICATION FairSpec
CONSTANTS
    Payments = {p1, p2}
    Trips = {t1}
    Workers = {w1, w2}
    MaxFaults = 1
INVARIANTS
    CountedWasPaid
PROPERTIES
    SucceededStays
    CountingEnds
    CountedInTheEnd
CHECK_DEADLOCK FALSE
