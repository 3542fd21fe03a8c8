---------------------------- MODULE TripLifecycle ----------------------------
(***************************************************************************)
(* The status machine of a trip: the table TRANSITIONS and canTransition   *)
(* of trips/interfaces/trip-lifecycle.interface.ts.  The table is all that *)
(* TripsService consults before it changes a status; nothing in the        *)
(* database enforces it.                                                   *)
(***************************************************************************)

\* The rows of the table, keyed by the current status.
TRANSITIONS ==
    [ pending             |-> {"accepted", "cancelled_by_client",
                               "cancelled_by_driver", "cancelled_auto"},
      accepted            |-> {"driver_arriving", "cancelled_by_client",
                               "cancelled_by_driver"},
      driver_arriving     |-> {"in_progress", "cancelled_by_client",
                               "cancelled_by_driver"},
      in_progress         |-> {"completed"},
      completed           |-> {},
      cancelled_by_client |-> {},
      cancelled_by_driver |-> {},
      cancelled_auto      |-> {} ]

TripStatus == {"pending", "accepted", "driver_arriving", "in_progress",
               "completed", "cancelled_by_client", "cancelled_by_driver",
               "cancelled_auto"}

canTransitionUnchecked(from, to) == from \in TripStatus /\ from # to
canTransition(from, to) == from \in TripStatus /\ to \in TRANSITIONS[from]

\* The statuses without a successor.
Terminal == {"completed", "cancelled_by_client", "cancelled_by_driver",
             "cancelled_auto"}

\* The statuses in which a driver is engaged on the trip.
Engaged == {"accepted", "driver_arriving", "in_progress"}

==============================================================================
