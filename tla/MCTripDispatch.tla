--------------------------- MODULE MCTripDispatch ---------------------------
(***************************************************************************)
(* TripDispatch for TLC: the symmetry of drivers and of request slots, and *)
(* the system as a crash may leave it.                                     *)
(***************************************************************************)
EXTENDS TripDispatch, TLC

DriverSlotSymmetry == Permutations(Drivers) \cup Permutations(Slots)

\* The trips whose offer may be the latest a driver got.
Offers(d) == IF \A t \in Trips : attempt[t][d] = "none" THEN {NoTrip}
             ELSE {t \in Trips : attempt[t][d] # "none"}

\* The process has just started again.  Every trip is still pending, at any
\* age; what PostgreSQL and Redis hold of its dispatch is arbitrary, since the
\* crash may have come between any two steps and Redis may have lost its data.
RestartInit ==
    /\ status = [t \in Trips |-> "pending"]
    /\ driver = [t \in Trips |-> NoDriver]
    /\ reason = [t \in Trips |-> "none"]
    /\ attempt \in [Trips -> [Drivers -> AttemptStatus]]
    /\ age \in [Trips -> 0..MaxAge]
    /\ idle = [t \in Trips |-> FALSE]
    /\ newest \in [Drivers -> Trips \cup {NoTrip}]
    /\ \A d \in Drivers : newest[d] \in Offers(d)
    /\ lock \in [Drivers -> Trips \cup {NoTrip}]
    /\ timer \in [Trips -> [Drivers -> {"none", "delayed"}]]
    /\ rounds \in [Trips -> 0..MaxRounds]
    /\ task = [w \in Workers |-> IF w = "boot"
                                 THEN [Idle EXCEPT !.op = "run", !.pc = "boot"]
                                 ELSE Idle]
    /\ events = {}
    /\ crashes = MaxCrashes

\* Every trip has been accepted, at some time, by a driver it was offered to,
\* and its client may just have asked to cancel it.
EngagedInit ==
    /\ status \in [Trips -> {"accepted", "driver_arriving"}]
    /\ driver \in [Trips -> Drivers]
    /\ reason = [t \in Trips |-> "none"]
    /\ attempt \in [Trips -> [Drivers -> AttemptStatus \ {"none"}]]
    /\ age = [t \in Trips |-> 0]
    /\ idle = [t \in Trips |-> FALSE]
    /\ newest \in [Drivers -> Trips \cup {NoTrip}]
    /\ \A d \in Drivers : newest[d] \in Offers(d)
    /\ lock \in [Drivers -> Trips \cup {NoTrip}]
    /\ timer \in [Trips -> [Drivers -> {"none", "delayed"}]]
    /\ rounds = [t \in Trips |-> 0]
    /\ \E s \in Slots :
          task \in {[w \in Workers |-> Idle]} \cup
             {[[w \in Workers |-> Idle] EXCEPT ![s] =
                 Start("cancel", "releaseFind", t, NoDriver, "cancelled_by_client")] :
              t \in Trips}
    /\ events = {}
    /\ crashes = 0

LiveSpec == (RestartInit \/ EngagedInit) /\ [][Next]_vars /\ Fairness

=============================================================================
