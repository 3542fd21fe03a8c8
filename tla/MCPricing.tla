------------------------------ MODULE MCPricing ------------------------------
(***************************************************************************)
(* An instance of Pricing for TLC: two zones that may overlap, a rule that *)
(* changes between one for a zone and one for an hour, and a tariff.        *)
(***************************************************************************)
EXTENDS Pricing

CONSTANTS z1, z2, r1

SomeSurges == {140}
SomeRows == {
    [applies |-> TRUE, modifier |-> 115, type |-> "zone", zone |-> z2, from |-> 1, to |-> 1],
    [applies |-> TRUE, modifier |-> 133, type |-> "time_range", zone |-> z1,
     from |-> 1, to |-> 2]}
SomeTariffs == {
    [baseFare |-> 500, pricePerKm |-> 201, pricePerMin |-> 33, commissionPercentage |-> 15]}
SomeMeters == [google |-> 5134, estimate |-> 3901]
SomeSeconds == [google |-> 901, estimate |-> 468]
SomeMinutes == 0..2

\* Both zones are active at first, and the rule is there.
MCInit == Init /\ zones = [z \in Zones |-> 140] /\ \A r \in Rules : rules[r] # Off
MCSpec ==
    /\ MCInit /\ [][Next]_vars /\ \A w \in Workers : WF_vars(Step(w))
    /\ WF_vars(CacheExpires)

==============================================================================
