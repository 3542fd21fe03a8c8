\* Two devices connect, close and come back while the driver switches, an
\* administrator decides and one write fails or the process dies.
SPECIFICATION FairSpec
CONSTANTS
    Sockets = {s1, s2}
    Workers = {w1, w2}
    Timers = {x1, x2}
    NoTimer = NoTimer
    MaxFaults = 1
INVARIANTS
    OneTimer
    GraceSpares
PROPERTIES
    PresenceFollows
