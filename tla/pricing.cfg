\* Two requests at a time, quotes and changes, over two zones and a rule, with
\* statements that fail anywhere.  Once the type is withdrawn and nobody has more
\* to change, the system may come to rest.
SPECIFICATION MCSpec
CONSTANTS
    Workers = {w1, w2}
    z1 = z1
    z2 = z2
    r1 = r1
    Zones = {z1, z2}
    Surges <- SomeSurges
    Rules = {r1}
    RuleRows <- SomeRows
    Tariffs <- SomeTariffs
    Off = Off
    Meters <- SomeMeters
    Seconds <- SomeSeconds
    Minutes <- SomeMinutes
    MaxEdits = 1
INVARIANTS
    FreshUnlessOvertaken
    SurgeOfOneZone
    PriceIsNear
PROPERTIES
    ChangesReachPrices
CHECK_DEADLOCK FALSE
