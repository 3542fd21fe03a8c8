---------------------------- MODULE PricingProofs ----------------------------
(***************************************************************************)
(* Pricing, for any number of requests, zones, rules and changes: the data *)
(* that prices come from is what the tables hold, but for what a load      *)
(* missed; the surge is that of one zone and of the rules that match, in   *)
(* whatever order they come; and the roundings of a price do not add up.   *)
(***************************************************************************)
EXTENDS Pricing, Induction

Invalidating == \E w \in Workers : task[w].pc = "invalidate"

\* What a load has read so far is still there, unless a change is about to be
\* invalidated, or was while the load went on.
LoadsFresh ==
    \A w \in Workers : task[w].pc \in Loading /\ ~task[w].data.overtaken =>
        \/ Invalidating
        \/ /\ task[w].pc \in {"loadRules", "store"} => task[w].data.zones = zones
           /\ task[w].pc \in {"loadZones", "store"} => task[w].data.rules = rules

IInv == TypeOK /\ LoadsFresh /\ FreshUnlessOvertaken

\* Worker w goes on to task k, and the others keep theirs.
Moved(w, k) ==
    /\ task' \in [Workers -> Task]
    /\ task'[w] = k
    /\ \A v \in Workers \ {w} : task'[v] = task[v]

------------------------------------------------------------------------------
LEMMA Assumed ==
  /\ IsFiniteSet(Zones) /\ MaxEdits \in Nat
  BY ConstantAssumption DEF ConstantAssumption

LEMMA SomeOrder == NoData.order \in Orders
  <1>1. Orders # {}
    BY Assumed, FS_CardinalityType DEF Orders, ExistsBijection
  <1>. QED
    BY <1>1 DEF NoData

LEMMA NoDataType == NoData \in Data /\ NoData.overtaken = FALSE
  BY SomeOrder DEF NoData, Data, ZoneTable, RuleTable

LEMMA IdleType == Idle \in Task /\ Idle.pc = "idle"
  BY NoDataType DEF Idle, Task

LEMMA GoesMoves ==
  ASSUME TypeOK, NEW w \in Workers, NEW k \in Task, Goes(w, k)
  PROVE  Moved(w, k)
  BY DEF TypeOK, Goes, Moved

Places == {"idle", "distance", "google", "setGoogle", "setEstimate", "surge",
           "answer", "invalidate"} \cup Loading

LEMMA GoesToMoves ==
  ASSUME TypeOK, NEW w \in Workers, NEW pc \in Places, GoesTo(w, pc)
  PROVE  Moved(w, [task[w] EXCEPT !.pc = pc])
  <1>1. [task[w] EXCEPT !.pc = pc] \in Task
    BY DEF TypeOK, Task, Places
  <1>. QED
    BY <1>1, GoesMoves DEF Goes, GoesTo

\* A step that changes neither the tables nor the cache, and by which no load
\* gets on: the worker was not about to invalidate, and is not after it.
LEMMA QuietStep ==
  ASSUME IInv, NEW w \in Workers, NEW k \in Task, Moved(w, k),
         UNCHANGED <<tables, cache, edits>>,
         distance' \in Sources \cup {"none"},
         task[w].pc # "invalidate",
         k.pc \notin {"loadZones", "loadRules", "store"}
  PROVE  IInv'
  <1>1. TypeOK'
    BY DEF IInv, TypeOK, Moved, tables
  <1>2. Invalidating => Invalidating'
    BY DEF Invalidating, Moved
  <1>3. LoadsFresh'
    BY <1>2 DEF IInv, LoadsFresh, Moved, tables
  <1>4. FreshUnlessOvertaken'
    BY <1>2 DEF IInv, FreshUnlessOvertaken, Invalidating, Moved, tables
  <1>. QED
    BY <1>1, <1>3, <1>4 DEF IInv

------------------------------------------------------------------------------
(***************************************************************************)
(* The quote.                                                              *)
(***************************************************************************)
LEMMA CalculatePriceKept ==
  ASSUME IInv, NEW w \in Workers, CalculatePrice(w)
  PROVE  IInv'
  <1>. DEFINE k == [Idle EXCEPT !.pc = "distance", !.tariff = tariff]
  <1>1. k \in Task /\ k.pc = "distance"
    BY IdleType DEF Idle, Task, IInv, TypeOK
  <1>2. Moved(w, k)
    BY <1>1, GoesMoves DEF CalculatePrice, IInv
  <1>. QED
    BY <1>1, <1>2, QuietStep DEF CalculatePrice, IInv, TypeOK

LEMMA GetDistanceMatrixKept ==
  ASSUME IInv, NEW w \in Workers, GetDistanceMatrix(w)
  PROVE  IInv'
  <1>. DEFINE k == IF distance = "none" THEN [task[w] EXCEPT !.pc = "google"]
                   ELSE [task[w] EXCEPT !.pc = "surge", !.source = distance]
  <1>1. k \in Task /\ k.pc \in {"google", "surge"}
    BY DEF Task, IInv, TypeOK
  <1>2. Moved(w, k)
    BY <1>1, GoesMoves DEF GetDistanceMatrix, IInv
  <1>. QED
    BY <1>1, <1>2, QuietStep DEF GetDistanceMatrix, IInv, TypeOK

LEMMA CallGoogleApiKept ==
  ASSUME IInv, NEW w \in Workers, CallGoogleApi(w)
  PROVE  IInv'
  <1>1. PICK pc \in {"setGoogle", "setEstimate"} : GoesTo(w, pc)
    BY DEF CallGoogleApi
  <1>2. Moved(w, [task[w] EXCEPT !.pc = pc])
    BY <1>1, GoesToMoves DEF IInv, Places
  <1>3. /\ [task[w] EXCEPT !.pc = pc] \in Task
        /\ [task[w] EXCEPT !.pc = pc].pc \in {"setGoogle", "setEstimate"}
    BY DEF Task, IInv, TypeOK
  <1>. QED
    BY <1>2, <1>3, QuietStep DEF CallGoogleApi, IInv, TypeOK

LEMMA SetDistanceKept ==
  ASSUME IInv, NEW w \in Workers, SetDistance(w)
  PROVE  IInv'
  <1>1. CASE task[w].pc = "setGoogle" /\ GoesTo(w, "setEstimate")
             /\ UNCHANGED <<tables, cache, distance, edits>>
    <2>1. Moved(w, [task[w] EXCEPT !.pc = "setEstimate"])
      BY <1>1, GoesToMoves DEF IInv, Places
    <2>2. /\ [task[w] EXCEPT !.pc = "setEstimate"] \in Task
          /\ [task[w] EXCEPT !.pc = "setEstimate"].pc = "setEstimate"
      BY DEF Task, IInv, TypeOK
    <2>. QED
      BY <1>1, <2>1, <2>2, QuietStep DEF IInv, TypeOK
  <1>2. CASE ~(task[w].pc = "setGoogle" /\ GoesTo(w, "setEstimate")
               /\ UNCHANGED <<tables, cache, distance, edits>>)
    <2>. DEFINE k == [task[w] EXCEPT !.pc = "surge", !.source = distance']
    <2>1. /\ distance' \in Sources /\ task[w].pc \in {"setGoogle", "setEstimate"}
          /\ Goes(w, k) /\ UNCHANGED <<tables, cache, edits>>
      BY <1>2 DEF SetDistance, Sources
    <2>2. k \in Task /\ k.pc = "surge"
      BY <2>1 DEF Task, IInv, TypeOK
    <2>3. Moved(w, k)
      BY <2>1, <2>2, GoesMoves DEF IInv
    <2>. QED
      BY <2>1, <2>2, <2>3, QuietStep
  <1>. QED
    BY <1>1, <1>2

LEMMA LoadDataKept ==
  ASSUME IInv, NEW w \in Workers, LoadData(w)
  PROVE  IInv'
  <1>. DEFINE k == IF cache.state = "valid"
                   THEN [task[w] EXCEPT !.pc = "answer", !.data = cache.data]
                   ELSE [task[w] EXCEPT !.pc = "load"]
  <1>1. k \in Task /\ k.pc \in {"answer", "load"}
    BY DEF Task, IInv, TypeOK, Loading
  <1>2. Moved(w, k)
    BY <1>1, GoesMoves DEF LoadData, IInv
  <1>. QED
    BY <1>1, <1>2, QuietStep DEF LoadData, IInv, TypeOK

LEMMA AnswerKept ==
  ASSUME IInv, NEW w \in Workers, Answer(w)
  PROVE  IInv'
  <1>1. Moved(w, Idle)
    BY IdleType, GoesMoves DEF Answer, IInv
  <1>. QED
    BY <1>1, IdleType, QuietStep DEF Answer, IInv, TypeOK

------------------------------------------------------------------------------
(***************************************************************************)
(* The load.                                                               *)
(***************************************************************************)
\* A step of a load: it has read what the tables hold, or what it held before.
LEMMA LoadStep ==
  ASSUME IInv, NEW w \in Workers, NEW k \in Task, Moved(w, k),
         UNCHANGED <<tables, cache, distance, edits>>,
         task[w].pc \in Loading,
         k.data.overtaken = task[w].data.overtaken,
         k.pc \in {"loadRules", "store"} =>
             \/ k.data.zones = zones
             \/ task[w].pc \in {"loadRules", "store"} /\ k.data.zones = task[w].data.zones,
         k.pc \in {"loadZones", "store"} =>
             \/ k.data.rules = rules
             \/ task[w].pc \in {"loadZones", "store"} /\ k.data.rules = task[w].data.rules
  PROVE  IInv'
  <1>1. TypeOK'
    BY DEF IInv, TypeOK, Moved, tables
  <1>2. Invalidating => Invalidating'
    BY DEF Invalidating, Moved, Loading
  <1>3. LoadsFresh'
    <2>. SUFFICES ASSUME NEW v \in Workers, task'[v].pc \in Loading,
                         ~task'[v].data.overtaken, ~Invalidating'
                  PROVE  /\ task'[v].pc \in {"loadRules", "store"}
                                => task'[v].data.zones = zones
                         /\ task'[v].pc \in {"loadZones", "store"}
                                => task'[v].data.rules = rules
      BY DEF LoadsFresh, tables
    <2>1. CASE v = w
      BY <2>1, <1>2 DEF IInv, LoadsFresh, Moved
    <2>2. CASE v # w
      BY <2>2, <1>2 DEF IInv, LoadsFresh, Moved
    <2>. QED
      BY <2>1, <2>2
  <1>4. FreshUnlessOvertaken'
    BY <1>2 DEF IInv, FreshUnlessOvertaken, Invalidating, Moved, tables
  <1>. QED
    BY <1>1, <1>3, <1>4 DEF IInv

LEMMA FindZonesKept ==
  ASSUME IInv, NEW w \in Workers, FindZones(w)
  PROVE  IInv'
  <1>1. PICK o \in Orders :
           Goes(w, [task[w] EXCEPT !.data.zones = zones, !.data.order = o,
                        !.pc = IF @ = "load" THEN "loadRules" ELSE "store"])
    BY DEF FindZones
  <1>. DEFINE k == [task[w] EXCEPT !.data.zones = zones, !.data.order = o,
                        !.pc = IF @ = "load" THEN "loadRules" ELSE "store"]
  <1>2. task[w] \in Task /\ task[w].data \in Data /\ zones \in ZoneTable
    BY DEF IInv, TypeOK, Task
  <1>3. /\ k.data = [task[w].data EXCEPT !.zones = zones, !.order = o]
        /\ k.pc = IF task[w].pc = "load" THEN "loadRules" ELSE "store"
        /\ k.tariff = task[w].tariff /\ k.source = task[w].source
    BY <1>2 DEF Task
  <1>4. k.data \in Data /\ k.data.zones = zones /\ k.data.rules = task[w].data.rules
        /\ k.data.overtaken = task[w].data.overtaken
    <2>. HIDE DEF k
    <2>1. k.data = [zones |-> zones, rules |-> task[w].data.rules, order |-> o,
                    overtaken |-> task[w].data.overtaken]
      BY <1>2, <1>3 DEF Data
    <2>. QED
      BY <1>2, <2>1 DEF Data
  <1>5. k \in Task
    BY <1>2, <1>3, <1>4 DEF Task, Loading
  <1>6. Moved(w, k)
    BY <1>1, <1>5, GoesMoves DEF IInv
  <1>. HIDE DEF k
  <1>. QED
    BY <1>3, <1>4, <1>5, <1>6, LoadStep DEF FindZones, Loading

LEMMA FindRulesKept ==
  ASSUME IInv, NEW w \in Workers, FindRules(w)
  PROVE  IInv'
  <1>. DEFINE k == [task[w] EXCEPT !.data.rules = rules,
                        !.pc = IF @ = "load" THEN "loadZones" ELSE "store"]
  <1>2. task[w] \in Task /\ task[w].data \in Data /\ rules \in RuleTable
    BY DEF IInv, TypeOK, Task
  <1>3. /\ k.data = [task[w].data EXCEPT !.rules = rules]
        /\ k.pc = IF task[w].pc = "load" THEN "loadZones" ELSE "store"
        /\ k.tariff = task[w].tariff /\ k.source = task[w].source
    BY <1>2 DEF Task
  <1>4. k.data \in Data /\ k.data.rules = rules /\ k.data.zones = task[w].data.zones
        /\ k.data.overtaken = task[w].data.overtaken
    BY <1>2, <1>3 DEF Data
  <1>5. k \in Task
    BY <1>2, <1>3, <1>4 DEF Task, Loading
  <1>6. Moved(w, k)
    BY <1>5, GoesMoves DEF IInv, FindRules
  <1>. HIDE DEF k
  <1>. QED
    BY <1>3, <1>4, <1>5, <1>6, LoadStep DEF FindRules, Loading

\* What is stored was fresh, or is marked as overtaken.
LEMMA StoreCacheKept ==
  ASSUME IInv, NEW w \in Workers, StoreCache(w)
  PROVE  IInv'
  <1>. DEFINE k == [task[w] EXCEPT !.pc = "answer"]
  <1>1. Moved(w, k)
    BY GoesToMoves DEF IInv, StoreCache, Places
  <1>2. task[w] \in Task /\ k.pc = "answer"
    BY DEF IInv, TypeOK, Task
  <1>3. TypeOK'
    BY <1>1, <1>2 DEF IInv, TypeOK, Moved, StoreCache, Task, tables
  <1>4. Invalidating <=> Invalidating'
    BY <1>1, <1>2 DEF Invalidating, Moved, StoreCache
  <1>5. LoadsFresh'
    BY <1>1, <1>2, <1>4 DEF IInv, LoadsFresh, Moved, StoreCache, tables, Loading
  <1>6. FreshUnlessOvertaken'
    BY <1>4 DEF IInv, FreshUnlessOvertaken, Invalidating, LoadsFresh, StoreCache,
                tables, Loading
  <1>. QED
    BY <1>3, <1>5, <1>6 DEF IInv

------------------------------------------------------------------------------
(***************************************************************************)
(* The administration, time and failures.                                  *)
(***************************************************************************)
\* A change of the zones or the rules, which its worker is to invalidate.
LEMMA EditStep ==
  ASSUME IInv, NEW w \in Workers, GoesTo(w, "invalidate"), task[w].pc = "idle", Edits,
         zones' \in ZoneTable, rules' \in RuleTable, UNCHANGED <<tariff, cache, distance>>
  PROVE  IInv'
  <1>1. Moved(w, [task[w] EXCEPT !.pc = "invalidate"])
    BY GoesToMoves DEF IInv, Places
  <1>2. task'[w].pc = "invalidate"
    BY <1>1 DEF Moved, IInv, TypeOK, Task
  <1>3. edits' \in 0..MaxEdits
    BY Assumed DEF Edits, IInv, TypeOK
  <1>4. TypeOK'
    BY <1>1, <1>3 DEF IInv, TypeOK, Moved
  <1>5. LoadsFresh'
    BY <1>2 DEF LoadsFresh, Invalidating
  <1>6. FreshUnlessOvertaken'
    BY <1>2 DEF FreshUnlessOvertaken
  <1>. QED
    BY <1>4, <1>5, <1>6 DEF IInv

LEMMA EditZoneKept ==
  ASSUME IInv, NEW w \in Workers, EditZone(w)
  PROVE  IInv'
  <1>1. zones' \in ZoneTable /\ rules' \in RuleTable
    BY DEF EditZone, IInv, TypeOK, ZoneTable
  <1>. QED
    BY <1>1, EditStep DEF EditZone

LEMMA EditRuleKept ==
  ASSUME IInv, NEW w \in Workers, EditRule(w)
  PROVE  IInv'
  <1>1. zones' \in ZoneTable /\ rules' \in RuleTable
    BY DEF EditRule, IInv, TypeOK, RuleTable
  <1>. QED
    BY <1>1, EditStep DEF EditRule

\* The loads are marked, and w is done.
Marked(w) ==
    /\ task' \in [Workers -> Task]
    /\ task'[w] = Idle
    /\ \A v \in Workers \ {w} :
           /\ task'[v].pc = task[v].pc
           /\ task'[v].tariff = task[v].tariff /\ task'[v].source = task[v].source
           /\ task[v].pc \in Loading => task'[v].data.overtaken

LEMMA OvertakenMarks ==
  ASSUME TypeOK, NEW w \in Workers, task' = [Overtaken EXCEPT ![w] = Idle]
  PROVE  Marked(w)
  <1>1. ASSUME NEW v \in Workers
        PROVE  /\ Overtaken[v] \in Task /\ Overtaken[v].pc = task[v].pc
               /\ Overtaken[v].tariff = task[v].tariff
               /\ Overtaken[v].source = task[v].source
               /\ task[v].pc \in Loading => Overtaken[v].data.overtaken
    <2>1. task[v] \in Task /\ task[v].data \in Data
      BY DEF TypeOK, Task
    <2>2. CASE task[v].pc \in Loading
      <3>. DEFINE k == [task[v] EXCEPT !.data.overtaken = TRUE]
      <3>1. /\ k.data = [task[v].data EXCEPT !.overtaken = TRUE]
            /\ k.pc = task[v].pc /\ k.tariff = task[v].tariff /\ k.source = task[v].source
        BY <2>1 DEF Task
      <3>. HIDE DEF k
      <3>2. k.data \in Data /\ k.data.overtaken
        <4>1. k.data = [zones |-> task[v].data.zones, rules |-> task[v].data.rules,
                        order |-> task[v].data.order, overtaken |-> TRUE]
          BY <2>1, <3>1 DEF Data
        <4>. QED
          BY <2>1, <4>1 DEF Data
      <3>3. k \in Task
        BY <2>1, <3>1, <3>2 DEF Task, k
      <3>4. Overtaken[v] = k
        BY <2>2 DEF Overtaken, k
      <3>. QED
        BY <3>1, <3>2, <3>3, <3>4
    <2>3. CASE task[v].pc \notin Loading
      BY <2>1, <2>3 DEF Overtaken
    <2>. QED
      BY <2>2, <2>3
  <1>2. Overtaken \in [Workers -> Task]
    BY <1>1 DEF Overtaken
  <1>. QED
    BY <1>1, <1>2, IdleType DEF Marked

\* Once the loads are marked, only the cache has to be shown fresh.
LEMMA MarkedStep ==
  ASSUME IInv, NEW w \in Workers, Marked(w), UNCHANGED <<tables, distance, edits>>,
         cache' \in [state : {"null", "valid", "expired"}, data : Data],
         cache'.state = "null" => cache'.data = NoData,
         cache'.state = "null" \/ cache'.data.overtaken
  PROVE  IInv'
  <1>1. TypeOK'
    BY DEF IInv, TypeOK, Marked, tables
  <1>2. LoadsFresh'
    BY IdleType DEF LoadsFresh, Marked, Loading
  <1>3. FreshUnlessOvertaken'
    BY DEF FreshUnlessOvertaken
  <1>. QED
    BY <1>1, <1>2, <1>3 DEF IInv

LEMMA InvalidateCacheKept ==
  ASSUME IInv, NEW w \in Workers, InvalidateCache(w)
  PROVE  IInv'
  <1>1. /\ cache' \in [state : {"null", "valid", "expired"}, data : Data]
        /\ cache'.state = "null" /\ cache'.data = NoData
    BY NoDataType DEF InvalidateCache, Drop, Null
  <1>. QED
    BY <1>1, OvertakenMarks, MarkedStep DEF InvalidateCache, IInv

LEMMA FailKept ==
  ASSUME IInv, NEW w \in Workers, Fail(w)
  PROVE  IInv'
  <1>1. CASE task[w].pc = "invalidate"
    <2>1. Marked(w)
      BY <1>1, OvertakenMarks DEF Fail, IInv
    <2>2. cache.data \in Data /\ cache.state \in {"null", "valid", "expired"}
      BY DEF IInv, TypeOK
    <2>. DEFINE o == cache.state # "null"
    <2>6. o \in BOOLEAN
      OBVIOUS
    <2>. HIDE DEF o
    <2>3. /\ cache'.state = cache.state
          /\ cache'.data = [cache.data EXCEPT !.overtaken = o]
          /\ cache' \in [state : {"null", "valid", "expired"}, data : Data]
      <3>1. cache' = [cache EXCEPT !.data.overtaken = o]
        BY <1>1 DEF Fail, o
      <3>2. /\ cache' = [state |-> cache.state, data |-> [cache.data EXCEPT !.overtaken = o]]
        BY <3>1 DEF IInv, TypeOK
      <3>3. [cache.data EXCEPT !.overtaken = o]
               = [zones |-> cache.data.zones, rules |-> cache.data.rules,
                  order |-> cache.data.order, overtaken |-> o]
        BY <2>2 DEF Data
      <3>4. [cache.data EXCEPT !.overtaken = o] \in Data
        BY <2>2, <2>6, <3>3 DEF Data
      <3>. QED
        BY <2>2, <3>2, <3>4
    <2>4. cache'.data.overtaken = (cache.state # "null")
      BY <2>2, <2>3 DEF Data, o
    <2>5. cache.state = "null" => cache'.data = NoData
      BY <2>2, <2>3, NoDataType DEF IInv, TypeOK, Data, o
    <2>. QED
      BY <2>1, <2>3, <2>4, <2>5, MarkedStep DEF Fail
  <1>2. CASE task[w].pc # "invalidate"
    <2>1. Moved(w, Idle)
      BY <1>2, IdleType, GoesMoves DEF Fail, IInv
    <2>. QED
      BY <1>2, <2>1, IdleType, QuietStep DEF Fail, IInv, TypeOK
  <1>. QED
    BY <1>1, <1>2

\* A tariff is read by each quote, and is no part of the cache; data that have
\* expired are as fresh as before.
LEMMA OutsideKept ==
  ASSUME IInv, EditTariff \/ CacheExpires \/ DistanceExpires \/ UNCHANGED vars
  PROVE  IInv'
  <1>1. CASE EditTariff
    <2>1. TypeOK'
      BY <1>1, Assumed DEF EditTariff, Edits, IInv, TypeOK
    <2>. QED
      BY <1>1, <2>1
      DEF EditTariff, IInv, LoadsFresh, Invalidating, FreshUnlessOvertaken
  <1>2. CASE CacheExpires
    <2>1. cache'.state = "expired" /\ cache'.data = cache.data /\ cache.state = "valid"
      BY <1>2 DEF CacheExpires, Due, IInv, TypeOK
    <2>2. TypeOK'
      BY <1>2, <2>1 DEF CacheExpires, IInv, TypeOK, tables
    <2>. QED
      BY <1>2, <2>1, <2>2
      DEF CacheExpires, IInv, LoadsFresh, Invalidating, FreshUnlessOvertaken, tables
  <1>3. CASE DistanceExpires
    BY <1>3 DEF DistanceExpires, IInv, TypeOK, LoadsFresh, Invalidating,
                FreshUnlessOvertaken, tables
  <1>4. CASE UNCHANGED vars
    BY <1>4 DEF vars, IInv, TypeOK, LoadsFresh, Invalidating,
                FreshUnlessOvertaken, tables
  <1>. QED
    BY <1>1, <1>2, <1>3, <1>4

------------------------------------------------------------------------------
(***************************************************************************)
(* The arithmetic.                                                         *)
(***************************************************************************)
\* To round is to go half a unit up or down at most.
LEMMA RoundedTo3000 ==
  ASSUME NEW n \in Nat
  PROVE  /\ Rounded(n, 3000) \in Nat
         /\ -1500 <= 3000 * Rounded(n, 3000) - n
         /\ 3000 * Rounded(n, 3000) - n <= 1500
  BY DEF Rounded

LEMMA RoundedTo100 ==
  ASSUME NEW n \in Nat
  PROVE  /\ Rounded(n, 100) \in Nat
         /\ -50 <= 100 * Rounded(n, 100) - n
         /\ 100 * Rounded(n, 100) - n <= 50
  BY DEF Rounded

\* A common factor may be left out.
LEMMA CancelLess ==
  ASSUME NEW b \in Nat \ {0}, NEW x \in Nat, NEW y \in Nat
  PROVE  /\ b * x <= b * y => x <= y
         /\ b * x < b * y => x < y
  <1>1. CASE y < x
    <2>1. x - y - 1 \in Nat /\ b * (x - y - 1) \in Nat
      BY <1>1, ProductOfTwo
    <2>2. b * x = b * y + b + b * (x - y - 1)
      OBVIOUS
    <2>3. b * x \in Nat /\ b * y \in Nat
      BY ProductOfTwo
    <2>. QED
      BY <1>1, <2>1, <2>2, <2>3
  <1>2. CASE x = y
    BY <1>2, ProductOfTwo
  <1>. QED
    BY <1>1, <1>2

\* A fraction is rounded as any other that is equal to it.
LEMMA RoundedAlike ==
  ASSUME NEW a \in Nat, NEW b \in Nat \ {0}, NEW c \in Nat, NEW d \in Nat \ {0},
         a * d = c * b
  PROVE  Rounded(a, b) = Rounded(c, d)
  <1>. DEFINE q == (2 * a + b) \div (2 * b)
  <1>1. q \in Nat /\ 2 * b * q <= 2 * a + b /\ 2 * a + b < 2 * b * (q + 1)
    OBVIOUS
  <1>. HIDE DEF q
  <1>. DEFINE l == 2 * b * q
              m == 2 * a + b
              r == 2 * b * (q + 1)
              low == 2 * d * q
              mid == 2 * c + d
              top == 2 * d * (q + 1)
  <1>2. d * l = b * low /\ d * r = b * top
    BY <1>1
  <1>3. d * m = b * mid
    BY <1>1
  <1>4. l \in Nat /\ m \in Nat /\ r \in Nat /\ low \in Nat /\ mid \in Nat /\ top \in Nat
    BY <1>1, ProductOfTwo
  <1>5. d * l <= d * m /\ d * m < d * r
    <2>1. l <= m /\ m < r
      BY <1>1
    <2>. HIDE DEF l, m, r
    <2>2. d * (m - l) \in Nat /\ d * (r - m - 1) \in Nat
      BY <1>4, <2>1, ProductOfTwo
    <2>3. d * m = d * l + d * (m - l) /\ d * r = d * m + d + d * (r - m - 1)
      BY <1>4
    <2>4. d * l \in Nat /\ d * m \in Nat
      BY <1>4, ProductOfTwo
    <2>. QED
      BY <2>2, <2>3, <2>4
  <1>. HIDE DEF l, m, r
  <1>6. low <= mid /\ mid < top
    <2>. HIDE DEF low, mid, top
    <2>. QED
      BY <1>2, <1>3, <1>4, <1>5, CancelLess
  <1>7. (2 * c + d) \div (2 * d) = q
    <2>1. 2 * d \in Nat \ {0}
      OBVIOUS
    <2>. QED
      BY <1>1, <1>4, <1>6, <2>1, Quotient DEF low, mid, top
  <1>. QED
    BY <1>7 DEF Rounded, q

\* A surge multiplies the error of what it is applied to.
LEMMA ErrorGrows ==
  ASSUME NEW s \in Nat, NEW x \in Int, -1500 <= x, x <= 1500
  PROVE  -(1500 * s) <= s * x /\ s * x <= 1500 * s
  <1>1. s * (1500 - x) >= 0 /\ s * (x + 1500) >= 0
    <2>1. 1500 - x \in Nat /\ x + 1500 \in Nat
      OBVIOUS
    <2>2. s * (1500 - x) \in Nat /\ s * (x + 1500) \in Nat
      BY <2>1, ProductOfTwo
    <2>. QED
      BY <2>2
  <1>2. /\ s * (1500 - x) = 1500 * s - s * x
        /\ s * (x + 1500) = s * x + 1500 * s
    OBVIOUS
  <1>3. s * x \in Int /\ 1500 * s \in Int
    OBVIOUS
  <1>. QED
    BY <1>1, <1>2, <1>3

\* The price before it is rounded, in hundredths of 1/3000 of a franc.
Exact(t, source, surge) ==
    surge * (3000 * t.baseFare + 3 * Meters[source] * t.pricePerKm
             + 50 * Seconds[source] * t.pricePerMin)

\* For every tariff, trip and surge, the price is within half a franc, times the
\* surge, and half a franc of the exact one, and the commission within half a
\* franc of its part (base-fare.rule.ts, 27; surge-multiplier.rule.ts, 24;
\* pricing-engine.service.ts, 47).
THEOREM RoundingIsNear ==
  ASSUME NEW t \in Tariffs, NEW source \in Sources, NEW surge \in Nat
  PROVE  LET total == Total(t, source, surge)
         IN  /\ Magnitude(300000 * total - Exact(t, source, surge)) <= 1500 * surge + 150000
             /\ Magnitude(100 * Commission(t, total) - total * t.commissionPercentage) <= 50
  <1>. DEFINE total == Total(t, source, surge)
              base == BaseTotal(t, source)
              whole == 3000 * t.baseFare + 3 * Meters[source] * t.pricePerKm
                       + 50 * Seconds[source] * t.pricePerMin
  <1>1. /\ t.baseFare \in Nat /\ t.pricePerKm \in Nat /\ t.pricePerMin \in Nat
        /\ t.commissionPercentage \in Nat
        /\ Meters[source] \in Nat /\ Seconds[source] \in Nat
    BY ConstantAssumption DEF ConstantAssumption
  <1>2. whole \in Nat
    <2>1. /\ 3000 * t.baseFare \in Nat
          /\ 3 * Meters[source] \in Nat /\ 50 * Seconds[source] \in Nat
      BY <1>1, ProductOfTwo
    <2>2. /\ 3 * Meters[source] * t.pricePerKm \in Nat
          /\ 50 * Seconds[source] * t.pricePerMin \in Nat
      BY <1>1, <2>1, ProductOfTwo
    <2>. QED
      BY <2>1, <2>2
  <1>3. base = Rounded(whole, 3000)
    BY DEF BaseTotal
  <1>. HIDE DEF whole, base
  <1>4. base \in Nat /\ -1500 <= 3000 * base - whole /\ 3000 * base - whole <= 1500
    BY <1>2, <1>3, RoundedTo3000
  <1>5. /\ total \in Nat
        /\ -50 <= 100 * total - base * surge /\ 100 * total - base * surge <= 50
    <2>1. CASE surge = 100
      BY <2>1, <1>4 DEF Total, base
    <2>2. CASE surge # 100
      <3>1. base * surge \in Nat
        BY <1>4, ProductOfTwo
      <3>2. total = Rounded(base * surge, 100)
        BY <2>2 DEF Total, base
      <3>. QED
        BY <3>1, <3>2, RoundedTo100
    <2>. QED
      BY <2>1, <2>2
  <1>. HIDE DEF total
  <1>6. Exact(t, source, surge) = surge * whole
    BY DEF Exact, whole
  <1>7. Magnitude(300000 * total - surge * whole) <= 1500 * surge + 150000
    <2>. DEFINE x == 3000 * base - whole
                y == 100 * total - base * surge
    <2>1. x \in Int /\ -1500 <= x /\ x <= 1500
      BY <1>2, <1>4
    <2>2. y \in Int /\ -50 <= y /\ y <= 50
      BY <1>4, <1>5
    <2>3. 300000 * total - surge * whole = 3000 * y + surge * x
      BY <1>2, <1>4, <1>5
    <2>. HIDE DEF x, y
    <2>4. -(1500 * surge) <= surge * x /\ surge * x <= 1500 * surge
      BY <2>1, ErrorGrows
    <2>5. surge * x \in Int
      BY <2>1
    <2>. QED
      BY <2>2, <2>3, <2>4, <2>5 DEF Magnitude
  <1>8. Magnitude(100 * Commission(t, total) - total * t.commissionPercentage) <= 50
    <2>. DEFINE n == total * t.commissionPercentage
                c == Commission(t, total)
    <2>1. n \in Nat
      BY <1>1, <1>5, ProductOfTwo
    <2>2. c = Rounded(n, 100)
      BY DEF Commission
    <2>. HIDE DEF n, c
    <2>3. c \in Nat /\ -50 <= 100 * c - n /\ 100 * c - n <= 50
      BY <2>1, <2>2, RoundedTo100
    <2>4. Magnitude(100 * c - n) <= 50
      BY <2>1, <2>3 DEF Magnitude
    <2>. QED
      BY <2>4 DEF n, c
  <1>. QED
    BY <1>6, <1>7, <1>8 DEF total

------------------------------------------------------------------------------
(***************************************************************************)
(* Products, which a fold computes by taking out one factor after another. *)
(***************************************************************************)
\* A function of naturals, as far as S goes.
Natural(f, S) == \A x \in S : f[x] \in Nat

\* The recursion that a product is, over the subsets of S.
First(T) == CHOOSE x \in T : TRUE
Multiplies(g, f, S) ==
    g = [T \in SUBSET S |-> IF T = {} THEN 1 ELSE f[First(T)] * g[T \ {First(T)}]]
Iter(f, S) == CHOOSE g : Multiplies(g, f, S)

LEMMA ProductIter ==
  ASSUME NEW f, NEW S
  PROVE  Product(f, S) = Iter(f, S)[S]
  BY DEF Product, Iter, Multiplies, First, FoldFunctionOnSet, MapThenFoldSet

Unfolds(h, f, S) ==
    /\ \A T \in SUBSET S : h[T] \in Nat
    /\ h[{}] = 1
    /\ \A T \in SUBSET S : T # {} => h[T] = f[First(T)] * h[T \ {First(T)}]

\* There is such a recursion, so that it is the one chosen.
LEMMA IterMultiplies ==
  ASSUME NEW S, IsFiniteSet(S), NEW f, Natural(f, S)
  PROVE  Unfolds(Iter(f, S), f, S)
  <1>. DEFINE rest == [T \in SUBSET S |-> T \ {First(T)}]
              factor(T) == IF T = {} THEN 1 ELSE f[First(T)]
              step == [p \in (SUBSET S) \X Nat |-> factor(p[1]) * p[2]]
  <1>1. \A T \in SUBSET S : T # {} => First(T) \in T /\ f[First(T)] \in Nat
    BY DEF First, Natural
  <1>2. TakesOneOut(rest, S)
    BY <1>1 DEF TakesOneOut
  <1>3. step \in SubsetSteps(S, Nat)
    <2>1. \A T \in SUBSET S : factor(T) \in Nat
      BY <1>1
    <2>. HIDE DEF factor
    <2>2. \A p \in (SUBSET S) \X Nat : factor(p[1]) * p[2] \in Nat
      BY <2>1
    <2>. QED
      BY <2>2 DEF SubsetSteps
  <1>4. \A T \in SUBSET S : \A n \in Nat : T # {} => step[<<T, n>>] = f[First(T)] * n
    OBVIOUS
  <1>5. \A T \in SUBSET S : rest[T] = T \ {First(T)} /\ rest[T] \in SUBSET S
    OBVIOUS
  <1>. HIDE DEF rest, step
  <1>6. PICK g : IsSubsetRecursion(g, S, Nat, 1, rest, step)
    BY <1>2, <1>3, SubsetRecursion
  <1>7. Multiplies(g, f, S)
    <2>1. g \in [SUBSET S -> Nat] /\ g[{}] = 1
      BY <1>6 DEF IsSubsetRecursion
    <2>2. ASSUME NEW T \in SUBSET S, T # {} PROVE g[T] = f[First(T)] * g[T \ {First(T)}]
      <3>1. g[T] = step[<<T, g[rest[T]]>>] /\ g[rest[T]] \in Nat
        BY <1>5, <1>6, <2>1, <2>2 DEF IsSubsetRecursion
      <3>. QED
        BY <1>4, <1>5, <2>2, <3>1
    <2>. QED
      BY <2>1, <2>2 DEF Multiplies
  <1>8. Multiplies(Iter(f, S), f, S)
    BY <1>7 DEF Iter
  <1>. DEFINE h == Iter(f, S)
  <1>9. /\ DOMAIN h = SUBSET S
        /\ h[{}] = 1
        /\ \A T \in SUBSET S : T # {} => h[T] = f[First(T)] * h[T \ {First(T)}]
        /\ h = [T \in SUBSET S |-> h[T]]
    BY <1>8 DEF Multiplies
  <1>. HIDE DEF h
  <1>10. \A T \in SUBSET S : h[T] \in Nat
    <2>. DEFINE F == {T \in SUBSET S : h[T] \in Nat}
    <2>1. {} \in F
      BY <1>9
    <2>2. ASSUME NEW T \in SUBSET S, T # {}, \A x \in T : T \ {x} \in F
          PROVE  T \in F
      <3>. DEFINE x == First(T)
      <3>1. x \in T /\ f[x] \in Nat /\ h[T] = f[x] * h[T \ {x}]
        BY <1>1, <1>9, <2>2
      <3>2. h[T \ {x}] \in Nat
        BY <2>2, <3>1
      <3>. HIDE DEF x
      <3>. QED
        BY <3>1, <3>2
    <2>. HIDE DEF F
    <2>3. SUBSET S \subseteq F
      BY <2>1, <2>2, SubsetInduction
    <2>. QED
      BY <2>3 DEF F
  <1>. QED
    BY <1>9, <1>10 DEF h, Unfolds

\* The recursion over a set and the one over a subset compute the same.
LEMMA IterAgrees ==
  ASSUME NEW S, IsFiniteSet(S), NEW f, Natural(f, S), NEW T \in SUBSET S,
         NEW g, \A x \in T : g[x] = f[x]
  PROVE  Iter(f, S)[T] = Product(g, T)
  <1>1. IsFiniteSet(T) /\ Natural(g, T)
    BY FS_Subset DEF Natural
  <1>. DEFINE h == Iter(f, S)
              k == Iter(g, T)
              F == {U \in SUBSET T : h[U] = k[U]}
  <1>5. Unfolds(h, f, S) /\ Unfolds(k, g, T)
    BY <1>1, IterMultiplies
  <1>. HIDE DEF h, k
  <1>2. {} \in F
    BY <1>5 DEF Unfolds
  <1>3. ASSUME NEW U \in SUBSET T, U # {}, \A x \in U : U \ {x} \in F
        PROVE  U \in F
    <2>1. First(U) \in U /\ U \in SUBSET S
      BY <1>3 DEF First
    <2>2. h[U] = f[First(U)] * h[U \ {First(U)}]
      BY <1>3, <1>5, <2>1 DEF Unfolds
    <2>3. k[U] = g[First(U)] * k[U \ {First(U)}]
      BY <1>3, <1>5 DEF Unfolds
    <2>. QED
      BY <1>3, <2>1, <2>2, <2>3
  <1>. HIDE DEF F
  <1>4. SUBSET T \subseteq F
    BY <1>1, <1>2, <1>3, SubsetInduction
  <1>. QED
    BY <1>4, ProductIter DEF F, h, k

\* A product is that of the factors, in whatever order they are taken.
LEMMA ProductOfNone ==
  ASSUME NEW f
  PROVE  Product(f, {}) = 1
  BY ProductIter, IterMultiplies, FS_EmptySet DEF Natural, Unfolds

LEMMA ProductType ==
  ASSUME NEW S, IsFiniteSet(S), NEW f, Natural(f, S)
  PROVE  Product(f, S) \in Nat
  <1>1. Unfolds(Iter(f, S), f, S)
    BY IterMultiplies
  <1>. QED
    BY <1>1, ProductIter DEF Unfolds

LEMMA SameProduct ==
  ASSUME NEW S, IsFiniteSet(S), NEW f, Natural(f, S), NEW g, \A x \in S : g[x] = f[x]
  PROVE  Product(g, S) = Product(f, S)
  BY IterAgrees, ProductIter

LEMMA OneFactor ==
  ASSUME NEW S, IsFiniteSet(S), NEW f, Natural(f, S), NEW x \in S
  PROVE  Product(f, S) = f[x] * Product(f, S \ {x})
  <1>. DEFINE P(T) == Product(f, T)
              F == {T \in SUBSET S : \A y \in T : P(T) = f[y] * P(T \ {y})}
  <1>1. \A T \in SUBSET S : P(T) \in Nat /\ IsFiniteSet(T) /\ P(T) = Iter(f, S)[T]
    BY IterAgrees, ProductType, FS_Subset DEF Natural
  <1>2. \A T \in SUBSET S : T # {} => First(T) \in T /\ P(T) = f[First(T)] * P(T \ {First(T)})
    <2>1. Unfolds(Iter(f, S), f, S)
      BY IterMultiplies
    <2>2. \A T \in SUBSET S : T # {} => First(T) \in T
      BY DEF First
    <2>. QED
      BY <1>1, <2>1, <2>2 DEF Unfolds
  <1>. HIDE DEF P
  <1>3. {} \in F
    OBVIOUS
  <1>4. ASSUME NEW T \in SUBSET S, T # {}, \A y \in T : T \ {y} \in F, NEW y \in T
        PROVE  P(T) = f[y] * P(T \ {y})
    <2>. DEFINE z == First(T)
    <2>1. z \in T /\ P(T) = f[z] * P(T \ {z})
      BY <1>2, <1>4
    <2>. HIDE DEF z
    <2>2. CASE y = z
      BY <2>1, <2>2
    <2>3. CASE y # z
      <3>. DEFINE U == (T \ {y}) \ {z}
      <3>1. U = (T \ {z}) \ {y} /\ U \in SUBSET S
        OBVIOUS
      <3>2. P(T \ {z}) = f[y] * P(U)
        BY <1>4, <2>1, <2>3, <3>1
      <3>3. P(T \ {y}) = f[z] * P(U)
        BY <1>4, <2>1, <2>3
      <3>4. f[y] \in Nat /\ f[z] \in Nat /\ P(U) \in Nat
        BY <1>1, <2>1, <3>1 DEF Natural
      <3>. HIDE DEF U
      <3>. QED
        BY <2>1, <3>2, <3>3, <3>4
    <2>. QED
      BY <2>2, <2>3
  <1>5. \A T \in SUBSET S : T # {} /\ (\A y \in T : T \ {y} \in F) => T \in F
    BY <1>4
  <1>. HIDE DEF F
  <1>6. SUBSET S \subseteq F
    BY <1>3, <1>5, SubsetInduction
  <1>. QED
    BY <1>6 DEF F, P

\* A unit is 100 for each element.
LEMMA UnitFactors ==
  ASSUME NEW S, IsFiniteSet(S)
  PROVE  /\ Unit(S) \in Nat
         /\ S = {} => Unit(S) = 1
         /\ \A x \in S : Unit(S) = 100 * Unit(S \ {x})
  <1>. DEFINE f == [x \in S |-> 100]
  <1>1. Natural(f, S)
    BY DEF Natural
  <1>2. \A x \in S : Product(f, S \ {x}) = Unit(S \ {x})
    <2>. TAKE x \in S
    <2>. DEFINE T == S \ {x}
                g == [y \in T |-> 100]
    <2>1. IsFiniteSet(T) /\ Natural(g, T) /\ \A y \in T : f[y] = g[y]
      BY FS_Subset DEF Natural
    <2>. HIDE DEF f, g, T
    <2>2. Product(f, T) = Product(g, T)
      BY <2>1, SameProduct
    <2>. QED
      BY <2>2 DEF Unit, g, T
  <1>3. \A x \in S : f[x] = 100
    OBVIOUS
  <1>4. Unit(S) = Product(f, S)
    BY DEF Unit
  <1>. HIDE DEF f
  <1>. QED
    <2>1. Unit(S) \in Nat
      BY <1>1, <1>4, ProductType
    <2>2. S = {} => Unit(S) = 1
      BY <1>4, ProductOfNone
    <2>3. ASSUME NEW x \in S PROVE Unit(S) = 100 * Unit(S \ {x})
      <3>1. Product(f, S) = f[x] * Product(f, S \ {x})
        BY <1>1, OneFactor
      <3>. QED
        BY <1>2, <1>3, <1>4, <3>1
    <2>. QED
      BY <2>1, <2>2, <2>3

LEMMA UnitPositive ==
  ASSUME NEW S, IsFiniteSet(S)
  PROVE  Unit(S) \in Nat \ {0}
  <1>. DEFINE F == {T \in SUBSET S : Unit(T) \in Nat \ {0}}
  <1>1. \A T \in SUBSET S : IsFiniteSet(T)
    BY FS_Subset
  <1>2. {} \in F
    BY <1>1, UnitFactors
  <1>3. ASSUME NEW T \in SUBSET S, T # {}, \A x \in T : T \ {x} \in F PROVE T \in F
    <2>1. PICK x \in T : TRUE
      BY <1>3
    <2>2. Unit(T) = 100 * Unit(T \ {x})
      BY <1>1, UnitFactors
    <2>. QED
      BY <1>3, <2>2
  <1>. HIDE DEF F
  <1>4. SUBSET S \subseteq F
    BY <1>2, <1>3, SubsetInduction
  <1>. QED
    BY <1>4 DEF F

\* Factors of one, in hundredths, may be left out of a product of hundredths.
LEMMA OnesLeftOut ==
  ASSUME NEW S, IsFiniteSet(S), NEW f, Natural(f, S), NEW M \in SUBSET S,
         \A x \in S \ M : f[x] = 100
  PROVE  Product(f, S) * Unit(M) = Product(f, M) * Unit(S)
  <1>. DEFINE P(T) == Product(f, T)
              F == {T \in SUBSET S : P(T) * Unit(T \cap M) = P(T \cap M) * Unit(T)}
  <1>1. \A T \in SUBSET S : IsFiniteSet(T) /\ Natural(f, T) /\ P(T) \in Nat /\ Unit(T) \in Nat
    BY ProductType, UnitFactors, FS_Subset DEF Natural
  <1>2. \A T \in SUBSET S : \A x \in T :
            f[x] \in Nat /\ P(T) = f[x] * P(T \ {x}) /\ Unit(T) = 100 * Unit(T \ {x})
    <2>. TAKE T \in SUBSET S
    <2>. TAKE x \in T
    <2>1. IsFiniteSet(T) /\ Natural(f, T)
      BY <1>1
    <2>2. Product(f, T) = f[x] * Product(f, T \ {x})
      BY <2>1, OneFactor
    <2>3. Unit(T) = 100 * Unit(T \ {x})
      BY <2>1, UnitFactors
    <2>. QED
      BY <2>2, <2>3 DEF Natural
  <1>. HIDE DEF P
  <1>3. {} \in F
    OBVIOUS
  <1>4. ASSUME NEW T \in SUBSET S, T # {}, \A x \in T : T \ {x} \in F PROVE T \in F
    <2>1. PICK x \in T : TRUE
      BY <1>4
    <2>. DEFINE U == T \ {x}
                p == P(U)
                u == Unit(U)
                q == P(U \cap M)
                v == Unit(U \cap M)
    <2>2. p * v = q * u
      BY <1>4
    <2>3. P(T) = f[x] * p /\ Unit(T) = 100 * u /\ f[x] \in Nat
      BY <1>2
    <2>4. p \in Nat /\ u \in Nat /\ q \in Nat /\ v \in Nat
      BY <1>1
    <2>5. CASE x \in M
      <3>1. U \cap M = (T \cap M) \ {x} /\ x \in T \cap M /\ T \cap M \in SUBSET S
        BY <2>5
      <3>2. P(T \cap M) = f[x] * q /\ Unit(T \cap M) = 100 * v
        BY <1>2, <3>1
      <3>. HIDE DEF U, p, u, q, v
      <3>3. (f[x] * p) * (100 * v) = (100 * f[x]) * (p * v)
        BY <2>3, <2>4
      <3>4. (f[x] * q) * (100 * u) = (100 * f[x]) * (q * u)
        BY <2>3, <2>4
      <3>. QED
        BY <2>2, <2>3, <3>2, <3>3, <3>4
    <2>6. CASE x \notin M
      <3>1. U \cap M = T \cap M /\ f[x] = 100
        BY <2>6
      <3>2. P(T \cap M) = q /\ Unit(T \cap M) = v
        BY <3>1
      <3>. HIDE DEF U, p, u, q, v
      <3>3. (100 * p) * v = 100 * (p * v) /\ q * (100 * u) = 100 * (q * u)
        BY <2>4
      <3>. QED
        BY <2>2, <2>3, <3>1, <3>2, <3>3
    <2>. QED
      BY <2>5, <2>6
  <1>. HIDE DEF F
  <1>5. SUBSET S \subseteq F
    BY <1>3, <1>4, SubsetInduction
  <1>6. S \in F /\ S \cap M = M
    BY <1>5
  <1>. QED
    BY <1>6 DEF F, P

------------------------------------------------------------------------------
(***************************************************************************)
(* The surge.                                                              *)
(***************************************************************************)
\* The zone that counts is one that is active and has the pickup in it, if there is one.
LEMMA OneZone ==
  ASSUME NEW data \in Data, NEW pickupIn \in SUBSET Zones
  PROVE  LET active == {z \in pickupIn : data.zones[z] # Off}
         IN  IF active = {} THEN ContainingZones(data, pickupIn) = {}
             ELSE \E z \in active : ContainingZones(data, pickupIn) = {z}
  <1>. DEFINE n == Cardinality(Zones)
              order == data.order
              active == {z \in pickupIn : data.zones[z] # Off}
              In == {i \in DOMAIN order : order[i] \in pickupIn /\ data.zones[order[i]] # Off}
  <1>1. /\ n \in Nat /\ order \in [1..n -> Zones]
        /\ \A z \in Zones : \E i \in 1..n : order[i] = z
    BY ConstantAssumption, FS_CardinalityType
    DEF ConstantAssumption, Data, Orders, Bijection, Injection, Surjection
  <1>2. ContainingZones(data, pickupIn) = {order[i] : i \in {j \in In : \A k \in In : j <= k}}
    BY DEF ContainingZones
  <1>3. In = {i \in 1..n : order[i] \in active}
    BY <1>1
  <1>4. active \subseteq Zones
    OBVIOUS
  <1>. HIDE DEF active, n, order, In
  <1>5. CASE active = {}
    BY <1>2, <1>3, <1>5 DEF active
  <1>6. CASE active # {}
    <2>1. In # {} /\ In \subseteq Nat
      BY <1>1, <1>3, <1>4, <1>6
    <2>2. PICK i \in In : \A k \in In : i <= k
      BY <2>1, LeastNumber
    <2>3. {j \in In : \A k \in In : j <= k} = {i}
      <3>1. \A j \in In : j <= i /\ i <= j => j = i
        BY <2>1
      <3>. QED
        BY <2>2, <3>1
    <2>4. ContainingZones(data, pickupIn) = {order[i]} /\ order[i] \in active
      BY <1>2, <1>3, <2>2, <2>3
    <2>. QED
      BY <1>6, <2>4 DEF active
  <1>. QED
    BY <1>5, <1>6

\* What the rules make of a surge of s in the zone z, of a pickup in that zone.
SurgeIn(data, s, z, minute) ==
    Rounded(s * Product([r \in Rules |-> SurgeOf(data.rules[r], z, minute)], Rules) * 100,
            100 * Unit(Rules))

LEMMA SurgeExact ==
  ASSUME NEW data \in Data, NEW pickupIn \in SUBSET Zones, NEW minute \in Minutes,
         NEW s \in Nat, NEW z,
         LET containing == ContainingZones(data, pickupIn)
         IN  \/ containing = {} /\ z = Off /\ s = 100
             \/ containing = {z} /\ z \in Zones /\ s = data.zones[z]
  PROVE  /\ SurgeMultiplier(data, pickupIn, minute) = SurgeIn(data, s, z, minute)
         /\ SurgeMultiplier(data, pickupIn, minute) \in Nat
  <1>. DEFINE C == ContainingZones(data, pickupIn)
              M == MatchedRules(data, C, minute)
              f == [r \in Rules |-> SurgeOf(data.rules[r], z, minute)]
              g == [r \in M |-> data.rules[r].modifier]
              h == [x \in C |-> data.zones[x]]
              P == Product(f, Rules)
              U == Unit(Rules)
              p == Product(g, M)
              u == Unit(M)
              c == Product(h, C)
              d == Unit(C)
  <1>1. IsFiniteSet(Rules) /\ M \in SUBSET Rules /\ IsFiniteSet(M)
    BY ConstantAssumption, FS_Subset DEF ConstantAssumption, MatchedRules
  <1>2. ASSUME NEW r \in Rules, data.rules[r] # Off
        PROVE  LET row == data.rules[r]
               IN  /\ row.modifier \in Nat /\ row.applies \in BOOLEAN
                   /\ row.type \in {"zone", "time_range"}
                   /\ row.zone \in Zones /\ row.from \in Nat /\ row.to \in Nat
    BY <1>2, ConstantAssumption DEF ConstantAssumption, Data, RuleTable
  <1>3. \A x \in Zones : x \in C <=> x = z
    BY ConstantAssumption DEF ConstantAssumption
  <1>4. \A r \in M : f[r] = g[r] /\ g[r] \in Nat
    <2>. TAKE r \in M
    <2>1. /\ r \in Rules /\ data.rules[r] # Off /\ data.rules[r].applies
          /\ IsConditionMatched(data.rules[r], C, minute)
      BY DEF MatchedRules
    <2>2. minute \in Nat
      BY ConstantAssumption DEF ConstantAssumption
    <2>. HIDE DEF C, M
    <2>3. ~(data.rules[r].type = "zone" /\ data.rules[r].zone # z)
      BY <1>2, <1>3, <2>1 DEF IsConditionMatched
    <2>4. ~(data.rules[r].type = "time_range"
            /\ minute \notin data.rules[r].from..(data.rules[r].to - 1))
      BY <1>2, <2>1, <2>2 DEF IsConditionMatched, InRange
    <2>. QED
      BY <1>2, <2>1, <2>3, <2>4 DEF SurgeOf
  <1>5. \A r \in Rules \ M : f[r] = 100
    <2>. TAKE r \in Rules \ M
    <2>1. \/ data.rules[r] = Off \/ ~data.rules[r].applies
          \/ ~IsConditionMatched(data.rules[r], C, minute)
      BY DEF MatchedRules
    <2>2. minute \in Nat
      BY ConstantAssumption DEF ConstantAssumption
    <2>. HIDE DEF C, M
    <2>3. CASE data.rules[r] # Off /\ ~IsConditionMatched(data.rules[r], C, minute)
      <3>1. CASE data.rules[r].type = "zone"
        BY <1>2, <1>3, <2>3, <3>1 DEF IsConditionMatched, SurgeOf
      <3>2. CASE data.rules[r].type = "time_range"
        BY <1>2, <2>2, <2>3, <3>2 DEF IsConditionMatched, SurgeOf, InRange
      <3>. QED
        BY <1>2, <2>3, <3>1, <3>2
    <2>. QED
      BY <2>1, <2>3 DEF SurgeOf
  <1>6. Natural(f, Rules) /\ Natural(f, M) /\ Natural(g, M)
    <2>. HIDE DEF f, g, M
    <2>. QED
      BY <1>1, <1>4, <1>5 DEF Natural
  <1>7. SurgeMultiplier(data, pickupIn, minute) = Rounded(c * p * 100, d * u)
    BY DEF SurgeMultiplier
  <1>8. SurgeIn(data, s, z, minute) = Rounded(s * P * 100, 100 * U)
    BY DEF SurgeIn
  <1>9. P * u = p * U
    <2>. HIDE DEF f, g, M
    <2>1. Product(f, M) = Product(g, M)
      BY <1>1, <1>4, <1>6, SameProduct
    <2>. QED
      BY <1>1, <1>5, <1>6, <2>1, OnesLeftOut
  <1>10. P \in Nat /\ p \in Nat /\ u \in Nat \ {0} /\ U \in Nat \ {0}
    <2>. HIDE DEF f, g, M
    <2>. QED
      BY <1>1, <1>6, ProductType, UnitPositive
  <1>11. c \in Nat /\ d \in Nat \ {0} /\ ((c = s /\ d = 100) \/ (c = 1 /\ d = 1 /\ s = 100))
    <2>1. CASE C = {} /\ s = 100
      <3>1. c = 1
        BY <2>1, ProductOfNone
      <3>2. d = 1
        BY <2>1, UnitFactors, FS_EmptySet
      <3>. QED
        BY <2>1, <3>1, <3>2
    <2>2. CASE C = {z} /\ z \in Zones /\ s = data.zones[z]
      <3>1. IsFiniteSet({z}) /\ {z} \ {z} = {} /\ IsFiniteSet({})
        BY FS_Singleton, FS_EmptySet
      <3>2. d = 100
        <4>1. Unit({z}) = 100 * Unit({z} \ {z}) /\ Unit({}) = 1
          BY <3>1, UnitFactors
        <4>. QED
          BY <2>2, <3>1, <4>1
      <3>3. h[z] = s /\ Natural(h, {z})
        BY <2>2 DEF Natural
      <3>. HIDE DEF h
      <3>4. Product(h, {z}) = h[z] * Product(h, {z} \ {z}) /\ Product(h, {}) = 1
        BY <3>1, <3>3, OneFactor, ProductOfNone
      <3>5. c = s
        BY <2>2, <3>1, <3>3, <3>4
      <3>. QED
        BY <3>2, <3>5
    <2>. QED
      BY <2>1, <2>2
  <1>. HIDE DEF C, M, f, g, h, P, U, p, u, c, d
  <1>12. /\ c * p * 100 \in Nat /\ d * u \in Nat \ {0}
         /\ s * P * 100 \in Nat /\ 100 * U \in Nat \ {0}
    <2>1. c * p \in Nat /\ s * P \in Nat
      BY <1>10, <1>11, ProductOfTwo
    <2>2. d * u \in Nat \ {0}
      BY <1>10, <1>11
    <2>. QED
      BY <1>10, <2>1, <2>2
  <1>13. (c * p * 100) * (100 * U) = (s * P * 100) * (d * u)
    <2>1. (c * p * 100) * (100 * U) = 10000 * c * (p * U)
      BY <1>10, <1>11
    <2>2. (s * P * 100) * (d * u) = 100 * s * d * (P * u)
      BY <1>10, <1>11
    <2>3. 100 * s * d = 10000 * c
      BY <1>11
    <2>. QED
      BY <1>9, <2>1, <2>2, <2>3
  <1>14. Rounded(c * p * 100, d * u) = Rounded(s * P * 100, 100 * U)
    BY <1>12, <1>13, RoundedAlike
  <1>15. Rounded(c * p * 100, d * u) \in Nat
    <2>1. \A n \in Nat, m \in Nat \ {0} : Rounded(n, m) \in Nat
      BY DEF Rounded
    <2>. QED
      BY <1>12, <2>1
  <1>. QED
    BY <1>7, <1>8, <1>14, <1>15

------------------------------------------------------------------------------
(***************************************************************************)
(* What a quote has by the time it is answered.                            *)
(***************************************************************************)
\* A quote has a tariff, and a distance once it is past that.
Quoted(k) ==
    /\ k.pc \notin {"idle", "invalidate"} => k.tariff \in Tariffs
    /\ k.pc \in {"surge", "answer"} \cup Loading => k.source \in Sources
QuotesOK == \A w \in Workers : Quoted(task[w])

LEMMA QuoteMoves ==
  ASSUME QuotesOK, NEW w \in Workers, NEW k \in Task, Moved(w, k), Quoted(k)
  PROVE  QuotesOK'
  BY DEF QuotesOK, Moved

LEMMA IdleQuoted == Quoted(Idle)
  BY IdleType DEF Quoted, Loading

\* The next place of a quote that keeps its tariff, and its source unless it
\* had none.
LEMMA QuoteGoesOn ==
  ASSUME TypeOK, QuotesOK, NEW w \in Workers, NEW k \in Task, Moved(w, k),
         task[w].pc \notin {"idle", "invalidate"}, k.tariff = task[w].tariff,
         \/ k.pc \notin {"surge", "answer"} \cup Loading
         \/ k.source \in Sources
         \/ task[w].pc \in {"surge", "answer"} \cup Loading /\ k.source = task[w].source
  PROVE  QuotesOK'
  <1>1. Quoted(task[w])
    BY DEF QuotesOK
  <1>2. Quoted(k)
    BY <1>1 DEF Quoted
  <1>. QED
    BY <1>2, QuoteMoves

LEMMA MarkedQuoted ==
  ASSUME TypeOK, QuotesOK, NEW w \in Workers, Marked(w)
  PROVE  QuotesOK'
  BY IdleQuoted DEF QuotesOK, Marked, Quoted

LEMMA StepQuoted ==
  ASSUME TypeOK, QuotesOK, NEW w \in Workers, Step(w)
  PROVE  QuotesOK'
  <1>0. task[w] \in Task
    BY DEF TypeOK
  <1>1. CASE GetDistanceMatrix(w)
    <2>. DEFINE k == IF distance = "none" THEN [task[w] EXCEPT !.pc = "google"]
                     ELSE [task[w] EXCEPT !.pc = "surge", !.source = distance]
    <2>1. /\ k \in Task /\ k.tariff = task[w].tariff
          /\ k.pc \notin {"surge", "answer"} \cup Loading \/ k.source \in Sources
      BY <1>0 DEF Task, TypeOK, Loading
    <2>2. Moved(w, k)
      BY <1>1, <2>1, GoesMoves DEF GetDistanceMatrix
    <2>. HIDE DEF k
    <2>. QED
      BY <1>1, <2>1, <2>2, QuoteGoesOn DEF GetDistanceMatrix
  <1>2. ASSUME NEW pc \in Places, GoesTo(w, pc), task[w].pc \notin {"idle", "invalidate"},
               \/ pc \in {"setGoogle", "setEstimate"}
               \/ task[w].pc \in Loading /\ pc = "answer"
        PROVE  QuotesOK'
    <2>. DEFINE k == [task[w] EXCEPT !.pc = pc]
    <2>1. /\ k \in Task /\ k.tariff = task[w].tariff /\ k.source = task[w].source
          /\ k.pc = pc
      BY <1>0, <1>2 DEF Task, Places
    <2>2. Moved(w, k)
      BY <1>2, GoesToMoves
    <2>. HIDE DEF k
    <2>. QED
      BY <1>2, <2>1, <2>2, QuoteGoesOn DEF Loading
  <1>3. CASE CallGoogleApi(w)
    BY <1>2, <1>3 DEF CallGoogleApi, Places
  <1>4. CASE SetDistance(w)
    <2>1. CASE GoesTo(w, "setEstimate") /\ task[w].pc = "setGoogle"
      BY <1>2, <2>1 DEF Places
    <2>2. CASE ~(GoesTo(w, "setEstimate") /\ task[w].pc = "setGoogle")
      <3>. DEFINE k == [task[w] EXCEPT !.pc = "surge", !.source = distance']
      <3>1. /\ distance' \in Sources /\ Goes(w, k)
            /\ task[w].pc \in {"setGoogle", "setEstimate"}
        BY <1>4, <2>2 DEF SetDistance, Sources
      <3>2. k \in Task /\ k.tariff = task[w].tariff /\ k.source \in Sources
        BY <1>0, <3>1 DEF Task
      <3>3. Moved(w, k)
        BY <3>1, <3>2, GoesMoves
      <3>. HIDE DEF k
      <3>. QED
        BY <3>1, <3>2, <3>3, QuoteGoesOn
    <2>. QED
      BY <2>1, <2>2
  <1>5. CASE LoadData(w)
    <2>. DEFINE k == IF cache.state = "valid"
                     THEN [task[w] EXCEPT !.pc = "answer", !.data = cache.data]
                     ELSE [task[w] EXCEPT !.pc = "load"]
    <2>1. k \in Task /\ k.tariff = task[w].tariff /\ k.source = task[w].source
      BY <1>0 DEF Task, TypeOK, Loading
    <2>2. Moved(w, k)
      BY <1>5, <2>1, GoesMoves DEF LoadData
    <2>. HIDE DEF k
    <2>. QED
      BY <1>5, <2>1, <2>2, QuoteGoesOn DEF LoadData
  <1>6. CASE FindZones(w)
    <2>1. PICK o \in Orders :
             Goes(w, [task[w] EXCEPT !.data.zones = zones, !.data.order = o,
                          !.pc = IF @ = "load" THEN "loadRules" ELSE "store"])
      BY <1>6 DEF FindZones
    <2>. DEFINE k == [task[w] EXCEPT !.data.zones = zones, !.data.order = o,
                          !.pc = IF @ = "load" THEN "loadRules" ELSE "store"]
    <2>2. /\ k.data = [task[w].data EXCEPT !.zones = zones, !.order = o]
          /\ k.pc = IF task[w].pc = "load" THEN "loadRules" ELSE "store"
          /\ k.tariff = task[w].tariff /\ k.source = task[w].source
      BY <1>0 DEF Task
    <2>3. k.data \in Data
      <3>1. k.data = [zones |-> zones, rules |-> task[w].data.rules, order |-> o,
                      overtaken |-> task[w].data.overtaken]
        BY <1>0, <2>2 DEF Data, Task
      <3>. QED
        BY <1>0, <3>1 DEF Data, Task, TypeOK
    <2>4. k \in Task
      BY <1>0, <2>2, <2>3 DEF Task, Loading
    <2>5. Moved(w, k)
      BY <2>1, <2>4, GoesMoves
    <2>. HIDE DEF k
    <2>. QED
      BY <1>6, <2>2, <2>4, <2>5, QuoteGoesOn DEF FindZones, Loading
  <1>7. CASE FindRules(w)
    <2>. DEFINE k == [task[w] EXCEPT !.data.rules = rules,
                          !.pc = IF @ = "load" THEN "loadZones" ELSE "store"]
    <2>2. /\ k.data = [task[w].data EXCEPT !.rules = rules]
          /\ k.pc = IF task[w].pc = "load" THEN "loadZones" ELSE "store"
          /\ k.tariff = task[w].tariff /\ k.source = task[w].source
      BY <1>0 DEF Task
    <2>3. k.data \in Data
      BY <1>0, <2>2 DEF Data, Task, TypeOK
    <2>4. k \in Task
      BY <1>0, <2>2, <2>3 DEF Task, Loading
    <2>5. Moved(w, k)
      BY <1>7, <2>4, GoesMoves DEF FindRules
    <2>. HIDE DEF k
    <2>. QED
      BY <1>7, <2>2, <2>4, <2>5, QuoteGoesOn DEF FindRules, Loading
  <1>8. CASE StoreCache(w)
    BY <1>2, <1>8 DEF StoreCache, Places, Loading
  <1>9. CASE Answer(w)
    BY <1>9, IdleType, IdleQuoted, GoesMoves, QuoteMoves DEF Answer
  <1>10. CASE InvalidateCache(w)
    BY <1>10, OvertakenMarks, MarkedQuoted DEF InvalidateCache
  <1>. QED
    BY <1>1, <1>3, <1>4, <1>5, <1>6, <1>7, <1>8, <1>9, <1>10 DEF Step

LEMMA QuotesKept ==
  ASSUME TypeOK, QuotesOK, [Next]_vars
  PROVE  QuotesOK'
  <1>1. ASSUME NEW w \in Workers, CalculatePrice(w) PROVE QuotesOK'
    <2>. DEFINE k == [Idle EXCEPT !.pc = "distance", !.tariff = tariff]
    <2>1. k \in Task /\ Quoted(k)
      BY <1>1, IdleType DEF Idle, Task, TypeOK, CalculatePrice, Quoted, Loading
    <2>2. Moved(w, k)
      BY <1>1, <2>1, GoesMoves DEF CalculatePrice
    <2>. HIDE DEF k
    <2>. QED
      BY <2>1, <2>2, QuoteMoves
  <1>2. ASSUME NEW w \in Workers, GoesTo(w, "invalidate") PROVE QuotesOK'
    <2>. DEFINE k == [task[w] EXCEPT !.pc = "invalidate"]
    <2>1. k \in Task /\ k.pc = "invalidate"
      BY DEF Task, TypeOK
    <2>2. Moved(w, k)
      BY <1>2, GoesToMoves DEF Places
    <2>3. Quoted(k)
      BY <2>1 DEF Quoted, Loading
    <2>. HIDE DEF k
    <2>. QED
      BY <2>1, <2>2, <2>3, QuoteMoves
  <1>3. ASSUME NEW w \in Workers, EditZone(w) \/ EditRule(w) PROVE QuotesOK'
    BY <1>2, <1>3 DEF EditZone, EditRule
  <1>4. ASSUME NEW w \in Workers, Fail(w) PROVE QuotesOK'
    <2>1. CASE task[w].pc = "invalidate"
      BY <1>4, <2>1, OvertakenMarks, MarkedQuoted DEF Fail
    <2>2. CASE task[w].pc # "invalidate"
      BY <1>4, <2>2, IdleType, IdleQuoted, GoesMoves, QuoteMoves DEF Fail
    <2>. QED
      BY <2>1, <2>2
  <1>5. CASE EditTariff \/ CacheExpires \/ DistanceExpires \/ UNCHANGED vars
    BY <1>5 DEF EditTariff, CacheExpires, DistanceExpires, vars, QuotesOK
  <1>. QED
    BY <1>1, <1>3, <1>4, <1>5, StepQuoted DEF Next

------------------------------------------------------------------------------
(***************************************************************************)
(* The theorems.                                                           *)
(***************************************************************************)
LEMMA InitInv == Init => IInv
  <1>. SUFFICES ASSUME Init PROVE IInv
    OBVIOUS
  <1>1. cache \in [state : {"null", "valid", "expired"}, data : Data]
        /\ cache.state = "null" /\ cache.data = NoData
    BY NoDataType DEF Init, Null
  <1>2. task \in [Workers -> Task] /\ \A w \in Workers : task[w].pc = "idle"
    BY IdleType DEF Init
  <1>3. TypeOK
    BY <1>1, <1>2, Assumed DEF Init, TypeOK
  <1>4. LoadsFresh /\ FreshUnlessOvertaken
    BY <1>1, <1>2 DEF LoadsFresh, FreshUnlessOvertaken, Loading
  <1>. QED
    BY <1>3, <1>4 DEF IInv

LEMMA NextKept ==
  ASSUME IInv, [Next]_vars
  PROVE  IInv'
  <1>1. ASSUME NEW w \in Workers, Step(w) PROVE IInv'
    BY <1>1, GetDistanceMatrixKept, CallGoogleApiKept, SetDistanceKept, LoadDataKept,
       FindZonesKept, FindRulesKept, StoreCacheKept, AnswerKept, InvalidateCacheKept
    DEF Step
  <1>. QED
    BY <1>1, CalculatePriceKept, EditZoneKept, EditRuleKept, FailKept, OutsideKept DEF Next

\* The inductive invariant holds whatever quotes, changes and failures do.
THEOREM Invariance == Spec => []IInv
  <1>1. IInv /\ [Next]_vars => IInv'
    BY NextKept
  <1>. QED
    BY <1>1, InitInv, PTL DEF Spec

\* Every variable keeps its type: a cache without data holds none.
THEOREM TypeCorrect == Spec => []TypeOK
  <1>1. IInv => TypeOK
    BY DEF IInv
  <1>. QED
    BY <1>1, Invariance, PTL

\* Prices come from what the tables hold, but for what a load missed
\* (dynamic-pricing.service.ts, 24-58).
THEOREM CacheIsFresh == Spec => []FreshUnlessOvertaken
  <1>1. IInv => FreshUnlessOvertaken
    BY DEF IInv
  <1>. QED
    BY <1>1, Invariance, PTL

\* A quote that is to be answered has a tariff, a distance and data.
LEMMA AnswerHas ==
  ASSUME IInv, QuotesOK, NEW w \in Workers, task[w].pc = "answer"
  PROVE  task[w].tariff \in Tariffs /\ task[w].source \in Sources /\ task[w].data \in Data
  <1>1. task[w] \in Task
    BY DEF IInv, TypeOK
  <1>. QED
    BY <1>1 DEF QuotesOK, Quoted, Task

\* Every quote has what it needs by the time it is answered.
THEOREM QuotesInvariance == Spec => []QuotesOK
  <1>1. Init => QuotesOK
    BY IdleQuoted DEF Init, QuotesOK
  <1>2. TypeOK /\ QuotesOK /\ [Next]_vars => QuotesOK'
    BY QuotesKept
  <1>. QED
    BY <1>1, <1>2, TypeCorrect, PTL DEF Spec

\* For any number of zones and rules, whatever their order, the surge is that of
\* one of the active zones the pickup is in, times the modifiers of the rules
\* for it and for the time (dynamic-pricing.service.ts, 67-81 and 108).
THEOREM SurgeIsOfOneZone == Spec => []SurgeOfOneZone
  <1>1. IInv /\ QuotesOK => SurgeOfOneZone
    <2>. SUFFICES ASSUME IInv, QuotesOK, NEW w \in Workers, task[w].pc = "answer",
                         NEW pickupIn \in SUBSET Zones, NEW minute \in Minutes
                  PROVE  LET data == task[w].data
                             active == {z \in pickupIn : data.zones[z] # Off}
                             surge == SurgeMultiplier(data, pickupIn, minute)
                         IN  IF active = {} THEN surge = SurgeIn(data, 100, Off, minute)
                             ELSE \E z \in active :
                                      surge = SurgeIn(data, data.zones[z], z, minute)
      BY DEF SurgeOfOneZone, SurgeIn
    <2>. DEFINE data == task[w].data
                active == {z \in pickupIn : data.zones[z] # Off}
    <2>1. data \in Data
      BY AnswerHas
    <2>. HIDE DEF data
    <2>2. CASE active = {}
      <3>1. ContainingZones(data, pickupIn) = {}
        BY <2>1, <2>2, OneZone
      <3>2. SurgeMultiplier(data, pickupIn, minute) = SurgeIn(data, 100, Off, minute)
        BY <2>1, <3>1, SurgeExact
      <3>. QED
        BY <2>2, <3>2 DEF data
    <2>3. CASE active # {}
      <3>1. PICK z \in active : ContainingZones(data, pickupIn) = {z}
        BY <2>1, <2>3, OneZone
      <3>2. z \in Zones /\ data.zones[z] \in Nat
        BY <2>1, ConstantAssumption DEF Data, ZoneTable, ConstantAssumption
      <3>3. SurgeMultiplier(data, pickupIn, minute) = SurgeIn(data, data.zones[z], z, minute)
        BY <2>1, <3>1, <3>2, SurgeExact
      <3>. QED
        BY <2>3, <3>3 DEF data
    <2>. QED
      BY <2>2, <2>3
  <1>. QED
    BY <1>1, Invariance, QuotesInvariance, PTL

\* A surge is a natural number of hundredths.
LEMMA SurgeType ==
  ASSUME NEW data \in Data, NEW pickupIn \in SUBSET Zones, NEW minute \in Minutes
  PROVE  SurgeMultiplier(data, pickupIn, minute) \in Nat
  <1>. DEFINE active == {z \in pickupIn : data.zones[z] # Off}
  <1>1. CASE active = {}
    <2>1. ContainingZones(data, pickupIn) = {}
      BY <1>1, OneZone
    <2>. QED
      BY <2>1, SurgeExact
  <1>2. CASE active # {}
    <2>1. PICK z \in active : ContainingZones(data, pickupIn) = {z}
      BY <1>2, OneZone
    <2>2. z \in Zones /\ data.zones[z] \in Nat
      BY ConstantAssumption DEF Data, ZoneTable, ConstantAssumption
    <2>. QED
      BY <2>1, <2>2, SurgeExact
  <1>. QED
    BY <1>1, <1>2

\* Every price that is answered is as near the exact one as its two roundings
\* allow, and the commission as near its part of the price (base-fare.rule.ts,
\* 27; surge-multiplier.rule.ts, 24; pricing-engine.service.ts, 47).
THEOREM PricesAreNear == Spec => []PriceIsNear
  <1>1. IInv /\ QuotesOK => PriceIsNear
    <2>. SUFFICES ASSUME IInv, QuotesOK, NEW w \in Workers, task[w].pc = "answer",
                         NEW pickupIn \in SUBSET Zones, NEW minute \in Minutes
                  PROVE  LET t == task[w].tariff
                             source == task[w].source
                             surge == SurgeMultiplier(task[w].data, pickupIn, minute)
                             total == Total(t, source, surge)
                         IN  /\ Magnitude(300000 * total - Exact(t, source, surge))
                                    <= 1500 * surge + 150000
                             /\ Magnitude(100 * Commission(t, total)
                                          - total * t.commissionPercentage) <= 50
      BY DEF PriceIsNear, Exact
    <2>1. /\ task[w].tariff \in Tariffs /\ task[w].source \in Sources
          /\ SurgeMultiplier(task[w].data, pickupIn, minute) \in Nat
      BY AnswerHas, SurgeType
    <2>. QED
      BY <2>1, RoundingIsNear
  <1>. QED
    BY <1>1, Invariance, QuotesInvariance, PTL
==============================================================================
