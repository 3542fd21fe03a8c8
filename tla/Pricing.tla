------------------------------ MODULE Pricing ------------------------------
(***************************************************************************)
(* The price of a trip and the caches it comes from: the zones and rules   *)
(* that DynamicPricingService keeps for a minute, the distance that        *)
(* GoogleDistanceProvider keeps in Redis, and the administration that      *)
(* changes what they were loaded from.                                     *)
(*                                                                         *)
(* Prices are whole francs, surges and modifiers hundredths.  Where the    *)
(* pickup is, and at what time, is left open until the price is computed.  *)
(***************************************************************************)
EXTENDS Integers, FiniteSets, Functions

CONSTANTS
    Workers,    \* requests the process serves at once
    Zones,      \* rows of service_zones
    Surges,     \* what surge_multiplier may be
    Rules,      \* rows of pricing_rules
    RuleRows,   \* what an active row may hold: condition and modifier
    Tariffs,    \* what the vehicle type's row may hold
    Off,        \* not there, or not active
    Meters, Seconds,  \* of the trip, by the source of the distance
    Minutes,    \* of the day
    MaxEdits    \* bound: changes of the tables

Sources == {"google", "estimate"}

ASSUME ConstantAssumption ==
    /\ IsFiniteSet(Zones) /\ IsFiniteSet(Rules) /\ Off \notin Zones
    /\ Surges \subseteq Nat /\ Off \notin Surges /\ Off \notin RuleRows /\ Off \notin Tariffs
    /\ RuleRows \subseteq [applies : BOOLEAN, modifier : Nat,
                           type : {"zone", "time_range"}, zone : Zones,
                           from : Minutes, to : Minutes]
    /\ Tariffs \subseteq [baseFare : Nat, pricePerKm : Nat, pricePerMin : Nat,
                          commissionPercentage : Nat]
    /\ Meters \in [Sources -> Nat] /\ Seconds \in [Sources -> Nat]
    /\ Minutes \subseteq Nat /\ MaxEdits \in Nat

\* findMany of the zones has no orderBy: the rows come in any order.
Orders == Bijection(1..Cardinality(Zones), Zones)
ZoneTable == [Zones -> Surges \cup {Off}]
RuleTable == [Rules -> RuleRows \cup {Off}]

VARIABLES
    zones, rules, tariff,  \* the tables
    cache,        \* DynamicPricingService.cache
    distance,     \* the entry of the trip in Redis, by its source
    task,         \* the handler each worker is running
    edits

tables == <<zones, rules, tariff>>
vars == <<tables, cache, distance, task, edits>>

\* overtaken is auxiliary: a change was made that the data may miss, and whose
\* invalidation has already gone by.
NoData == [zones |-> [z \in Zones |-> Off], rules |-> [r \in Rules |-> Off],
           order |-> CHOOSE o \in Orders : TRUE, overtaken |-> FALSE]
Data == [zones : ZoneTable, rules : RuleTable, order : Orders, overtaken : BOOLEAN]

Loading == {"load", "loadZones", "loadRules", "store"}
Task == [pc : {"idle", "distance", "google", "setGoogle", "setEstimate", "surge",
               "answer", "invalidate"} \cup Loading,
         tariff : Tariffs \cup {Off}, source : Sources \cup {"none"},
         data : Data]
Idle == [pc |-> "idle", tariff |-> Off, source |-> "none", data |-> NoData]

TypeOK ==
    /\ zones \in ZoneTable /\ rules \in RuleTable
    /\ tariff \in Tariffs \cup {Off}
    /\ cache \in [state : {"null", "valid", "expired"}, data : Data]
    /\ cache.state = "null" => cache.data = NoData
    /\ distance \in Sources \cup {"none"}
    /\ task \in [Workers -> Task] /\ edits \in 0..MaxEdits

Null == [state |-> "null", data |-> NoData]

Init ==
    /\ zones \in ZoneTable /\ rules \in RuleTable
    /\ tariff \in Tariffs /\ cache = Null
    /\ distance = "none" /\ task = [w \in Workers |-> Idle] /\ edits = 0

Goes(w, k) == task' = [task EXCEPT ![w] = k]
GoesTo(w, pc) == task' = [task EXCEPT ![w].pc = pc]

------------------------------------------------------------------------------
(***************************************************************************)
(* calculatePrice, and the distance.                                       *)
(***************************************************************************)
CalculatePrice(w) ==
    /\ task[w].pc = "idle" /\ tariff # Off
    /\ Goes(w, [Idle EXCEPT !.pc = "distance", !.tariff = tariff])
    /\ UNCHANGED <<tables, cache, distance, edits>>

GetDistanceMatrix(w) ==
    /\ task[w].pc = "distance"
    /\ Goes(w, IF distance = "none" THEN [task[w] EXCEPT !.pc = "google"]
               ELSE [task[w] EXCEPT !.pc = "surge", !.source = distance])
    /\ UNCHANGED <<tables, cache, distance, edits>>

CallGoogleApi(w) ==
    /\ task[w].pc = "google"
    /\ GoesTo(w, "setGoogle") \/ GoesTo(w, "setEstimate")
    /\ UNCHANGED <<tables, cache, distance, edits>>

\* setex; when it fails after an answer of Google, the estimate is taken instead.
SetDistance(w) ==
    \/ /\ \/ task[w].pc = "setGoogle" /\ distance' = "google"
          \/ task[w].pc = "setEstimate" /\ distance' = "estimate"
       /\ Goes(w, [task[w] EXCEPT !.pc = "surge", !.source = distance'])
       /\ UNCHANGED <<tables, cache, edits>>
    \/ /\ task[w].pc = "setGoogle"
       /\ GoesTo(w, "setEstimate")
       /\ UNCHANGED <<tables, cache, distance, edits>>

------------------------------------------------------------------------------
(***************************************************************************)
(* getSurgeMultiplier: loadData, with two queries at once.                 *)
(***************************************************************************)
LoadData(w) ==
    /\ task[w].pc = "surge"
    /\ Goes(w, IF cache.state = "valid"
               THEN [task[w] EXCEPT !.pc = "answer", !.data = cache.data]
               ELSE [task[w] EXCEPT !.pc = "load"])
    /\ UNCHANGED <<tables, cache, distance, edits>>

FindZones(w) ==
    /\ task[w].pc \in {"load", "loadZones"}
    /\ \E o \in Orders :
           Goes(w, [task[w] EXCEPT !.data.zones = zones, !.data.order = o,
                        !.pc = IF @ = "load" THEN "loadRules" ELSE "store"])
    /\ UNCHANGED <<tables, cache, distance, edits>>

FindRules(w) ==
    /\ task[w].pc \in {"load", "loadRules"}
    /\ Goes(w, [task[w] EXCEPT !.data.rules = rules,
                    !.pc = IF @ = "load" THEN "loadZones" ELSE "store"])
    /\ UNCHANGED <<tables, cache, distance, edits>>

StoreCache(w) ==
    /\ task[w].pc = "store"
    /\ cache' = [state |-> "valid", data |-> task[w].data]
    /\ GoesTo(w, "answer")
    /\ UNCHANGED <<tables, distance, edits>>

\* Math.round of n/d.  In the code's doubles the exact half may go down as well.
Rounded(n, d) == (2 * n + d) \div (2 * d)

\* The first zone, in the order of the rows, that the pickup is in.
ContainingZones(data, pickupIn) ==
    LET In == {i \in DOMAIN data.order : data.order[i] \in pickupIn
                                         /\ data.zones[data.order[i]] # Off}
    IN  {data.order[i] : i \in {j \in In : \A k \in In : j <= k}}

InRangeClosed(rule, minute) == minute >= rule.from /\ minute <= rule.to
InRange(rule, minute) == minute >= rule.from /\ minute < rule.to
IsConditionMatched(rule, containing, minute) ==
    \/ rule.type = "zone" /\ rule.zone \in containing
    \/ rule.type = "time_range" /\ InRange(rule, minute)

MatchedRules(data, containing, minute) ==
    {r \in Rules : data.rules[r] # Off /\ data.rules[r].applies
                   /\ IsConditionMatched(data.rules[r], containing, minute)}

\* A product of hundredths, and what it is a product of hundredths of.
Product(f, S) == FoldFunctionOnSet(LAMBDA x, y : x * y, 1, f, S)
Unit(S) == Product([x \in S |-> 100], S)

SurgeMultiplier(data, pickupIn, minute) ==
    LET containing == ContainingZones(data, pickupIn)
        matched == MatchedRules(data, containing, minute)
        product == Product([z \in containing |-> data.zones[z]], containing)
                   * Product([r \in matched |-> data.rules[r].modifier], matched)
    IN  Rounded(product * 100, Unit(containing) * Unit(matched))

\* BaseFareRule, SurgeMultiplierRule and the commission.
BaseTotal(t, source) ==
    Rounded(3000 * t.baseFare + 3 * Meters[source] * t.pricePerKm
            + 50 * Seconds[source] * t.pricePerMin, 3000)
TotalTruncated(t, source, surge) == (BaseTotal(t, source) * surge) \div 100
Total(t, source, surge) ==
    IF surge = 100 THEN BaseTotal(t, source)
    ELSE Rounded(BaseTotal(t, source) * surge, 100)
Commission(t, total) == Rounded(total * t.commissionPercentage, 100)

Answer(w) ==
    /\ task[w].pc = "answer"
    /\ Goes(w, Idle)
    /\ UNCHANGED <<tables, cache, distance, edits>>

------------------------------------------------------------------------------
(***************************************************************************)
(* The administration.                                                     *)
(***************************************************************************)
Edits == edits < MaxEdits /\ edits' = edits + 1

EditZone(w) ==
    /\ task[w].pc = "idle" /\ Edits
    /\ \E z \in Zones, s \in Surges \cup {Off} : zones' = [zones EXCEPT ![z] = s]
    /\ GoesTo(w, "invalidate")
    /\ UNCHANGED <<rules, tariff, cache, distance>>

EditRule(w) ==
    /\ task[w].pc = "idle" /\ Edits
    /\ \E r \in Rules, row \in RuleRows \cup {Off} : rules' = [rules EXCEPT ![r] = row]
    /\ GoesTo(w, "invalidate")
    /\ UNCHANGED <<zones, tariff, cache, distance>>

\* The loads that are going on have read before, or may have.
Overtaken == [w \in Workers |->
    IF task[w].pc \in Loading THEN [task[w] EXCEPT !.data.overtaken = TRUE] ELSE task[w]]

Keep(c) == c
Drop(c) == Null
InvalidateCache(w) ==
    /\ task[w].pc = "invalidate"
    /\ cache' = Drop(cache)
    /\ task' = [Overtaken EXCEPT ![w] = Idle]
    /\ UNCHANGED <<tables, distance, edits>>

\* VehicleTypesService.update and deactivate
EditTariff ==
    /\ Edits
    /\ tariff' \in Tariffs \cup {Off}
    /\ UNCHANGED <<zones, rules, cache, distance, task>>

------------------------------------------------------------------------------
(***************************************************************************)
(* Time and failures.                                                      *)
(***************************************************************************)
NeverDue == FALSE
Due == cache.state = "valid"
CacheExpires ==
    /\ Due
    /\ cache' = [cache EXCEPT !.state = "expired"]
    /\ UNCHANGED <<tables, distance, task, edits>>

DistanceExpires ==
    /\ distance # "none"
    /\ distance' = "none"
    /\ UNCHANGED <<tables, cache, task, edits>>

\* A statement fails and the handler with it.  When the answer to a change is
\* lost, the change is made and nothing is invalidated.
Fail(w) ==
    /\ task[w].pc \notin {"idle", "answer"}
    /\ IF task[w].pc = "invalidate"
       THEN /\ task' = [Overtaken EXCEPT ![w] = Idle]
            /\ cache' = [cache EXCEPT !.data.overtaken = cache.state # "null"]
       ELSE Goes(w, Idle) /\ UNCHANGED cache
    /\ UNCHANGED <<tables, distance, edits>>

Step(w) ==
    \/ GetDistanceMatrix(w) \/ CallGoogleApi(w) \/ SetDistance(w)
    \/ LoadData(w) \/ FindZones(w) \/ FindRules(w) \/ StoreCache(w) \/ Answer(w)
    \/ InvalidateCache(w)

Next ==
    \/ \E w \in Workers : \/ CalculatePrice(w) \/ EditZone(w)
                          \/ EditRule(w) \/ Step(w) \/ Fail(w)
    \/ EditTariff \/ CacheExpires \/ DistanceExpires

Spec == Init /\ [][Next]_vars

\* Node runs every handler that can go on, and a minute goes by.
FairSpec == Spec /\ (\A w \in Workers : WF_vars(Step(w))) /\ WF_vars(CacheExpires)

------------------------------------------------------------------------------
(***************************************************************************)
(* Properties.                                                             *)
(***************************************************************************)

\* What prices are computed from is what the tables hold, as soon as the changes
\* that were made are answered, unless a load was going on across the answer or
\* the answer was lost (dynamic-pricing.service.ts, 24-58).
FreshUnlessOvertaken ==
    /\ cache.state # "null"
    /\ ~cache.data.overtaken
    /\ \A w \in Workers : task[w].pc # "invalidate"
    => cache.data.zones = zones /\ cache.data.rules = rules

\* Whatever overlaps and fails, a change is in every price in the end
\* (dynamic-pricing.service.ts, 20-25).
ChangesReachPrices ==
    <>[](cache.state = "valid" => cache.data.zones = zones /\ cache.data.rules = rules)

\* The surge is that of one of the zones the pickup is in, times the modifiers
\* of the rules for that zone and for the time, and of no others.  Where zones
\* overlap, the one is chosen by the order of the rows, with its rules
\* (dynamic-pricing.service.ts, 67-81 and 108).
SurgeOf(row, z, minute) ==
    IF \/ row = Off
       \/ ~row.applies
       \/ row.type = "zone" /\ row.zone # z
       \/ row.type = "time_range" /\ minute \notin row.from..(row.to - 1)
    THEN 100 ELSE row.modifier
SurgeOfOneZone ==
    \A w \in Workers : task[w].pc = "answer" =>
        \A pickupIn \in SUBSET Zones, minute \in Minutes :
            LET data == task[w].data
                active == {z \in pickupIn : data.zones[z] # Off}
                surge == SurgeMultiplier(data, pickupIn, minute)
                Modified(z) == Product(
                    [r \in Rules |-> SurgeOf(data.rules[r], z, minute)], Rules)
                Exactly(s, z) == Rounded(s * Modified(z) * 100, 100 * Unit(Rules))
            IN  IF active = {} THEN surge = Exactly(100, Off)
                ELSE \E z \in active : surge = Exactly(data.zones[z], z)

\* The total is rounded before the surge and after it, and the commission once
\* more: still the price is within half a franc, times the surge, and half a
\* franc of what it would be without rounding, and the commission within half a
\* franc of its part of the price (base-fare.rule.ts, 27; surge-multiplier.rule.ts,
\* 24; pricing-engine.service.ts, 47).
Magnitude(x) == IF x < 0 THEN -x ELSE x
PriceIsNear ==
    \A w \in Workers : task[w].pc = "answer" =>
        \A pickupIn \in SUBSET Zones, minute \in Minutes :
            LET t == task[w].tariff
                m == Meters[task[w].source]
                s == Seconds[task[w].source]
                surge == SurgeMultiplier(task[w].data, pickupIn, minute)
                total == Total(t, task[w].source, surge)
                exact == surge * (3000 * t.baseFare + 3 * m * t.pricePerKm
                                  + 50 * s * t.pricePerMin)
            IN  /\ Magnitude(300000 * total - exact) <= 1500 * surge + 150000
                /\ Magnitude(100 * Commission(t, total) - total * t.commissionPercentage) <= 50

==============================================================================
