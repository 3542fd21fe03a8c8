------------------------------ MODULE TripLedger ------------------------------
(***************************************************************************)
(* What the service promises about a trip's row, whoever writes it: one    *)
(* page that TripDispatch implements.                                      *)
(*                                                                         *)
(* A request looks at the row, forms an intent that the row allows, and    *)
(* may commit it at any later moment, or give it up.  The commit does not  *)
(* look again.  So a status may be written that the current one does not   *)
(* allow, but none that no earlier one allowed; and the only writes that   *)
(* need no intent are the creation and the conditional give-up of a trip   *)
(* that is still pending.                                                  *)
(***************************************************************************)
EXTENDS TripLifecycle

CONSTANTS
    Trips, Drivers,
    NoDriver              \* null

VARIABLES
    status,    \* trips.status
    driver,    \* trips.driver_id
    offered,   \* the drivers the trip was ever offered to
    intents    \* the transitions [to, driver] requested and neither committed
               \* nor given up

ledger == <<status, driver, offered, intents>>

\* What a reader of the row may decide to write: a successor in TRANSITIONS, or
\* the cancellation of a trip whose driver does not move.
Allows(s, to) ==
    \/ canTransition(s, to)
    \/ s \in {"accepted", "driver_arriving"} /\ to = "cancelled_auto"

LedgerInit ==
    /\ status = [t \in Trips |-> "absent"]
    /\ driver = [t \in Trips |-> NoDriver]
    /\ offered = [t \in Trips |-> {}]
    /\ intents = [t \in Trips |-> {}]

\* The trip is created.
Open(t) ==
    /\ status[t] = "absent"
    /\ status'[t] = "pending"
    /\ UNCHANGED driver[t]
    /\ intents'[t] \subseteq intents[t]

\* Requests look at the trip, or go away; the row stays.
Look(t) ==
    /\ UNCHANGED <<status[t], driver[t]>>
    /\ \A i \in intents'[t] \ intents[t] : Allows(status[t], i.to)

\* A request writes what it decided.  An acceptance names a driver who was
\* offered the trip; what only the trip's driver does needs one to be there.
Commit(t, i) ==
    /\ status'[t] = i.to
    /\ \/ i.to = "accepted" /\ i.driver \in offered[t] /\ driver'[t] = i.driver
       \/ i.to # "accepted" /\ UNCHANGED driver[t]
    /\ i.to \in {"driver_arriving", "in_progress", "completed", "cancelled_by_driver"}
          => driver[t] # NoDriver
    /\ intents'[t] \subseteq intents[t]

\* Dispatch gives up, unless somebody was faster.
GiveUp(t) ==
    /\ status[t] = "pending"
    /\ status'[t] = "cancelled_auto"
    /\ UNCHANGED driver[t]
    /\ intents'[t] \subseteq intents[t]

TripStep(t) ==
    /\ offered[t] \subseteq offered'[t]
    /\ \/ Look(t) \/ Open(t) \/ GiveUp(t)
       \/ \E i \in intents[t] : Commit(t, i)

LedgerNext == \A t \in Trips : TripStep(t)

LedgerSpec == LedgerInit /\ [][LedgerNext]_ledger

==============================================================================
