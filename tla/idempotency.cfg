\* Three requests with one key, of which two may fail anywhere.  All are
\* answered in the end, and then nothing is left to do.
SPECIFICATION FairSpec
CONSTANTS
    Requests = {r1, r2, r3}
    NoResponse = NoResponse
    MaxFaults = 2
INVARIANTS
    OneAtATime
    LockedIsBusy
PROPERTIES
    AnsweredInTheEnd
CHECK_DEADLOCK FALSE
