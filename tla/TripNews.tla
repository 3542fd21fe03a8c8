------------------------------ MODULE TripNews ------------------------------
(***************************************************************************)
(* What the client and the driver of a trip are told of it, while they     *)
(* move it on, confirm, rate and write to each other: TripsService         *)
(* with the rooms of the WebSocket gateway, ChatService, and the pushes of *)
(* NotificationHandler.                                                    *)
(*                                                                         *)
(* One trip and its two parties.  The dispatch (module TripDispatch) is    *)
(* left open: it lets the driver accept, gives up, or finds the trip stale *)
(* when it likes.  Two listeners of one event count as one.  The dashboard *)
(* hears what the client's user room hears and is left out.  The service   *)
(* is the delivery, the one that the client confirms.                      *)
(***************************************************************************)
EXTENDS TripLifecycle, Naturals, FiniteSets

CONSTANTS
    Workers,     \* requests and messages the process serves at once
    ClientRole,  \* the role of the user who ordered: a driver may
    MaxListeners, \* bound: listeners of the dispatch, and the sweep, at once
    MaxPushes,   \* bound: pushes that are on their way
    MaxMoves,    \* bound: how often sockets come, join and go
    MaxAsides,   \* bound: payments, confirmations, ratings and messages
    MaxFaults    \* bound: statements that fail, and crashes

ASSUME ConstantAssumption ==
    /\ IsFiniteSet(Workers) /\ ClientRole \in {"client", "driver"}
    /\ MaxListeners \in Nat \ {0} /\ MaxPushes \in Nat \ {0}
    /\ MaxMoves \in Nat /\ MaxAsides \in Nat /\ MaxFaults \in Nat

Parties == {"client", "driver"}
Other(u) == IF u = "client" THEN "driver" ELSE "client"

VARIABLES
    status,     \* trips.status
    driven,     \* trips.driver_id is set
    confirmed,  \* how often delivery_confirmed_at was set
    rated,      \* who has a row in trip_ratings
    paid,       \* payment_received_at is set
    conn,       \* the rooms of each party's socket: its "own", and the "trip"
    task,       \* the handler each worker is running
    listeners,  \* those of DriverAssigned and DispatchFailed, and the stale sweep
    pushes,     \* listeners of the other events; two alike are one
    moves, asides, faults,
    \* Auxiliary: what the parties know, and have to be told.
    been,       \* which of these the trip has been: in_progress, completed
    last,       \* the last status that each party's socket received
    behind,     \* who was connected when the status changed, and was not told
    outside,    \* who was outside of the trip's room when the service changed it
    owed,       \* who is to get a push for the status
    unread,     \* who is to get a push for a message
    alone       \* the last handler that tells of a status overlapped no other

trip == <<status, driven, confirmed, rated, paid>>
bounds == <<moves, asides, faults>>
news == <<been, last, behind, outside, owed, unread, alone>>
vars == <<trip, conn, task, listeners, pushes, bounds, news>>

Idle == [pc |-> "idle"]
At(pc, u) == [pc |-> pc, by |-> u]
Write(s, u) == [pc |-> "write", by |-> u, to |-> s]
Moving == {"write", "announce"}
Task == {Idle} \cup [pc : {"confirm", "findRating", "createRating", "chat", "payment"},
                     by : Parties]
        \cup [pc : Moving, by : Parties, to : TripStatus]
Push == [kind : Engaged \cup {"completed"}, to : {"client"}]
        \cup [kind : {"cancelled"}, by : Parties]
        \cup [kind : {"message"}, role : Parties]

TypeOK ==
    /\ status \in TripStatus /\ driven \in BOOLEAN /\ (status \in Engaged => driven)
    /\ confirmed \in Nat /\ rated \subseteq Parties /\ paid \in BOOLEAN
    /\ conn \in [Parties -> SUBSET {"own", "trip"}]
    /\ task \in [Workers -> Task]
    /\ listeners \subseteq {"assign", "tell", "fail", "failTell", "stale", "staleTell"}
    /\ pushes \subseteq Push /\ Cardinality(pushes) <= MaxPushes
    /\ moves \in 0..MaxMoves /\ asides \in 0..MaxAsides /\ faults \in 0..MaxFaults
    /\ been \subseteq {"in_progress", "completed"}
    /\ last \in [Parties -> TripStatus \cup {"none"}]
    /\ behind \subseteq Parties /\ outside \subseteq Parties /\ owed \in Parties \cup {"none"}
    /\ unread \subseteq Parties /\ alone \in BOOLEAN

Init ==
    /\ status = "pending" /\ driven = FALSE
    /\ confirmed = 0 /\ rated = {} /\ paid = FALSE
    /\ conn \in [Parties -> SUBSET {"own", "trip"}] /\ task = [w \in Workers |-> Idle]
    /\ listeners = {} /\ pushes = {}
    /\ moves \in 0..MaxMoves /\ asides \in 0..MaxAsides /\ faults \in 0..MaxFaults
    /\ been = {} /\ last = [p \in Parties |-> "none"]
    /\ behind = {} /\ outside = {} /\ owed = "none" /\ unread = {} /\ alone = FALSE

Becomes(w, k) == task' = [task EXCEPT ![w] = k]
Ends(w) == Becomes(w, Idle)

\* A handler is under way that will tell of a status.
Telling == listeners # {} \/ \E w \in Workers : task[w].pc \in Moving

------------------------------------------------------------------------------
(***************************************************************************)
(* Sockets and rooms.                                                      *)
(***************************************************************************)
Moves == moves < MaxMoves /\ moves' = moves + 1
Joins(p, room) ==
    /\ Moves /\ conn' = [conn EXCEPT ![p] = @ \cup {room}]
    /\ UNCHANGED <<trip, task, listeners, pushes, asides, faults, news>>

\* handleConnection of the client; of the driver, once looked up, or driver:join_room.
JoinOwnRoom(p) == "own" \notin conn[p] /\ Joins(p, "own")

\* trip:join
TripJoin(p) == "trip" \notin conn[p] /\ Joins(p, "trip")

LeaveAllRooms(p) ==
    /\ conn[p] # {} /\ Moves
    /\ conn' = [conn EXCEPT ![p] = {}]
    /\ last' = [last EXCEPT ![p] = "none"]
    /\ behind' = behind \ {p} /\ outside' = outside \ {p}
    /\ UNCHANGED <<trip, task, listeners, pushes, asides, faults, been, owed, unread, alone>>

InTripRoom == {p \in Parties : "trip" \in conn[p]}
Room(p) == IF "own" \in conn[p] THEN {p} ELSE {}

\* emitToTrip, emitToUser, and emitToDriver of a trip with or without a driver.
TripRoomOnly(withDriver) == InTripRoom
Audience(withDriver) ==
    InTripRoom \cup Room("client") \cup (IF withDriver THEN Room("driver") ELSE {})

\* A status is emitted to the sockets in some rooms.
Emit(s, audience) ==
    /\ last' = [p \in Parties |-> IF p \in audience THEN s ELSE last[p]]
    /\ behind' = IF s = status THEN behind \ audience ELSE behind

\* A status is written: those who are connected are to be told, some of whom the
\* service leaves out, and one is to get a push.
Concerned(withDriver) ==
    {p \in Parties : conn[p] # {} /\ (p = "client" \/ withDriver)}
Changes(s, audience, leftOut, push) ==
    /\ status' = s
    /\ been' = been \cup ({s} \cap {"in_progress", "completed"})
    /\ IF s = status
       THEN UNCHANGED <<behind, outside, owed>>
       ELSE behind' = audience /\ outside' = leftOut /\ owed' = push

\* The service cancels by itself, and will tell the trip's room only.
ServiceCancels ==
    Changes("cancelled_auto", Concerned(driven), Concerned(driven) \ InTripRoom, "none")

------------------------------------------------------------------------------
(***************************************************************************)
(* updateStatus and completeTrip: read and check; write; read again, emit  *)
(* and broadcast.                                                          *)
(***************************************************************************)
\* Who may: the driver once assigned, or the client, or (cancelled_auto) anyone.
MayMove(u, s) ==
    \/ s = "cancelled_by_client" /\ u = "client"
    \/ s = "cancelled_auto"
    \/ s \in Engaged \cup {"completed", "cancelled_by_driver"} /\ u = "driver"
       /\ (s # "accepted" => driven)

Begins(w, k) ==
    /\ task[w] = Idle
    /\ Becomes(w, k)
    /\ alone' = ~Telling
    /\ UNCHANGED <<trip, conn, pushes, bounds, been, last, behind, outside, owed, unread>>

UpdateStatus(w, u, s) ==
    /\ canTransition(status, s) /\ MayMove(u, s) /\ s # "accepted"
    /\ Begins(w, Write(s, u))
    /\ UNCHANGED listeners

\* handleDriverAccept emits DriverAssigned, unless the lock is not the trip's.
Accept(w) ==
    /\ canTransition(status, "accepted")
    /\ Begins(w, Write("accepted", "driver"))
    /\ listeners' \in {listeners, listeners \cup {"assign"}}
    /\ Cardinality(listeners') <= MaxListeners

\* completeTrip writes the payment as well.
CompleteTrip(w) == UpdateStatus(w, "driver", "completed")

\* Whom the events tell by a push: of a cancellation, the one who did not cancel.
PushTarget(s, u, withDriver) ==
    CASE s \in {"driver_arriving", "in_progress", "completed"} -> "client"
      [] s \in {"cancelled_by_client", "cancelled_by_driver", "cancelled_auto"} ->
             IF u = "driver" THEN "client" ELSE IF withDriver THEN "driver" ELSE "none"
      [] OTHER -> "none"

AssignedBefore(s) == driven
Assigned(s) == driven \/ s = "accepted"
WriteStatus(w) ==
    LET s == task[w].to IN
    /\ task[w].pc = "write"
    /\ driven' = Assigned(s)
    /\ paid' \in IF s = "completed" THEN {paid, TRUE} ELSE {paid}
    /\ Changes(s, Concerned(driven'), {}, PushTarget(s, task[w].by, driven))
    /\ Becomes(w, [task[w] EXCEPT !.pc = "announce"])
    /\ UNCHANGED <<confirmed, rated, conn, listeners, pushes, bounds, last, unread, alone>>

\* emitStatusEvent goes by what is read again, broadcastStatusEvent by what was asked.
EventOf(s, u) ==
    CASE s \in {"driver_arriving", "in_progress", "completed"} -> {[kind |-> s, to |-> "client"]}
      [] s \in {"cancelled_by_client", "cancelled_by_driver", "cancelled_auto"} ->
             {[kind |-> "cancelled", by |-> u]}
      [] OTHER -> {}
EventEmitted(w) == EventOf(status, task[w].by)

AnnounceStatus(w) ==
    /\ task[w].pc = "announce"
    /\ pushes' = pushes \cup EventEmitted(w) /\ Cardinality(pushes') <= MaxPushes
    /\ Emit(task[w].to, Audience(driven))
    /\ Ends(w)
    /\ UNCHANGED <<trip, conn, listeners, bounds, been, outside, owed, unread, alone>>

------------------------------------------------------------------------------
(***************************************************************************)
(* handleDriverAssigned and handleDispatchFailed.                          *)
(***************************************************************************)
AssignDriver ==
    /\ "assign" \in listeners
    /\ Changes("accepted", Concerned(FALSE), {}, "client")
    /\ driven' = TRUE
    /\ listeners' = (listeners \ {"assign"}) \cup {"tell"}
    /\ UNCHANGED <<confirmed, rated, paid, conn, task, pushes, bounds, last, unread, alone>>

\* After the position and the distance, of which an error is ignored.
TellAccepted ==
    /\ "tell" \in listeners
    /\ Emit("accepted", InTripRoom \cup Room("client"))
    /\ pushes' = pushes \cup {[kind |-> "accepted", to |-> "client"]}
    /\ Cardinality(pushes') <= MaxPushes
    /\ listeners' = listeners \ {"tell"}
    /\ UNCHANGED <<trip, conn, task, bounds, been, outside, owed, unread, alone>>

\* The dispatch gives up a trip that it has just seen pending.
DispatchFailed ==
    /\ status = "pending" /\ listeners \cap {"fail", "failTell"} = {}
    /\ listeners' = listeners \cup {"fail"} /\ alone' = ~Telling
    /\ Cardinality(listeners') <= MaxListeners
    /\ UNCHANGED <<trip, conn, task, pushes, bounds, been, last, behind, outside, owed, unread>>

UpdateStatusIfPending ==
    /\ "fail" \in listeners
    /\ IF status = "pending" THEN ServiceCancels
       ELSE UNCHANGED <<status, been, behind, outside, owed>>
    /\ listeners' = (listeners \ {"fail"}) \cup {"failTell"}
    /\ UNCHANGED <<driven, confirmed, rated, paid, conn, task, pushes, bounds, last,
                   unread, alone>>

\* Whether the trip was pending or not, and to the trip's room only.
TellFailed ==
    /\ "failTell" \in listeners
    /\ Emit("cancelled_auto", InTripRoom)
    /\ listeners' = listeners \ {"failTell"}
    /\ UNCHANGED <<trip, conn, task, pushes, bounds, been, outside, owed, unread, alone>>

------------------------------------------------------------------------------
(***************************************************************************)
(* sweepStaleAssigned: reads that the trip is stale; cancels it whatever   *)
(* it has become; tells the trip's room, and pushes to nobody.             *)
(***************************************************************************)
\* One sweep at a time.  How long the trip has not moved is left open.
FindStale ==
    /\ status \in {"accepted", "driver_arriving"} /\ listeners \cap {"stale", "staleTell"} = {}
    /\ listeners' = listeners \cup {"stale"} /\ alone' = ~Telling
    /\ Cardinality(listeners') <= MaxListeners
    /\ UNCHANGED <<trip, conn, task, pushes, bounds, been, last, behind, outside, owed, unread>>

CancelStale ==
    /\ "stale" \in listeners
    /\ ServiceCancels
    /\ listeners' = (listeners \ {"stale"}) \cup {"staleTell"}
    /\ UNCHANGED <<driven, confirmed, rated, paid, conn, task, pushes, bounds, last,
                   unread, alone>>

\* After releaseLocksForTrip.
TellStale ==
    /\ "staleTell" \in listeners
    /\ Emit("cancelled_auto", InTripRoom)
    /\ listeners' = listeners \ {"staleTell"}
    /\ UNCHANGED <<trip, conn, task, pushes, bounds, been, outside, owed, unread, alone>>

------------------------------------------------------------------------------
(***************************************************************************)
(* Payment, confirmation, rating and chat: read and check, then write.     *)
(***************************************************************************)
Starts(w, k) ==
    /\ task[w] = Idle
    /\ Becomes(w, k)
    /\ asides < MaxAsides /\ asides' = asides + 1
    /\ UNCHANGED <<trip, conn, listeners, pushes, moves, faults, news>>

\* By REST or by delivery:client_confirmed.
ConfirmableAgain == status = "completed"
Confirmable == status = "completed" /\ confirmed = 0
ConfirmDelivery(w) ==
    /\ Confirmable
    /\ Starts(w, At("confirm", "client"))

WriteConfirmed(w) ==
    /\ task[w].pc = "confirm"
    /\ confirmed' = confirmed + 1
    /\ Ends(w)
    /\ UNCHANGED <<status, driven, rated, paid, conn, listeners, pushes, bounds, news>>

\* confirmPaymentReceived
Payable == status = "in_progress"
ConfirmPaymentReceived(w) ==
    /\ Payable
    /\ Starts(w, At("payment", "driver"))

MarkPaymentReceived(w) ==
    /\ task[w].pc = "payment"
    /\ paid' = TRUE
    /\ Ends(w)
    /\ UNCHANGED <<status, driven, confirmed, rated, conn, listeners, pushes, bounds, news>>

\* By the role: as a driver, the one who ordered is not the trip's.
RateTrip(w, u) ==
    /\ status = "completed"
    /\ IF u = "driver" THEN driven ELSE ClientRole = "client"
    /\ Starts(w, At("findRating", u))

FindRating(w) ==
    /\ task[w].pc = "findRating"
    /\ Becomes(w, IF task[w].by \in rated THEN Idle ELSE [task[w] EXCEPT !.pc = "createRating"])
    /\ UNCHANGED <<trip, conn, listeners, pushes, bounds, news>>

\* The index refuses a second one.
CreateRating(w) ==
    /\ task[w].pc = "createRating"
    /\ rated' = rated \cup {task[w].by}
    /\ Ends(w)
    /\ UNCHANGED <<status, driven, confirmed, paid, conn, listeners, pushes, bounds, news>>

\* assertParticipant
Participant(u) == u = "driver" => driven
SendMessage(w, u) ==
    /\ Participant(u)
    /\ Starts(w, At("chat", u))

SenderSwapped(u) == Other(u)
SenderRole(u) == IF u = "client" THEN ClientRole ELSE "driver"
CreateMessage(w) ==
    LET u == task[w].by IN
    /\ task[w].pc = "chat"
    /\ pushes' = pushes \cup {[kind |-> "message", role |-> SenderRole(u)]}
    /\ Cardinality(pushes') <= MaxPushes
    /\ unread' = unread \cup (IF u = "client" /\ ~driven THEN {} ELSE {Other(u)})
    /\ Ends(w)
    /\ UNCHANGED <<trip, conn, listeners, bounds, been, last, behind, outside, owed, alone>>

------------------------------------------------------------------------------
(***************************************************************************)
(* Pushes: the listener reads the trip, then the devices, and sends.       *)
(***************************************************************************)
TargetIsSender(x) ==
    IF x.kind = "cancelled" THEN x.by ELSE "client"
Target(x) ==
    CASE x.kind = "cancelled" ->
             IF x.by = "driver" THEN "client" ELSE IF driven THEN "driver" ELSE "none"
      [] x.kind = "message" ->
             IF x.role = "driver" THEN "client" ELSE IF driven THEN "driver" ELSE "none"
      [] OTHER -> x.to

\* A push of one kind stands for the statuses that are pushed as that kind.
TellsOf(x, s) ==
    \/ x.kind = s
    \/ x.kind = "cancelled" /\ s \in {"cancelled_by_client", "cancelled_by_driver",
                                      "cancelled_auto"}

SendToUser(x) ==
    /\ x \in pushes /\ pushes' = pushes \ {x}
    /\ owed' = IF TellsOf(x, status) /\ Target(x) = owed THEN "none" ELSE owed
    /\ unread' = IF x.kind = "message" THEN unread \ {Target(x)} ELSE unread
    /\ UNCHANGED <<trip, conn, task, listeners, bounds, been, last, behind, outside, alone>>

------------------------------------------------------------------------------
(***************************************************************************)
(* Failures.  Nothing of what a failed handler had to tell is kept.        *)
(***************************************************************************)
Faulty == faults < MaxFaults /\ faults' = faults + 1
Forgiven ==
    /\ behind' = {} /\ owed' = "none" /\ unread' = {} /\ alone' = FALSE
    /\ UNCHANGED <<been, last, outside>>

Fail ==
    /\ \/ /\ \E w \in Workers : task[w] # Idle /\ Ends(w)
          /\ UNCHANGED <<listeners, pushes>>
       \/ /\ \E l \in listeners : listeners' = listeners \ {l}
          /\ UNCHANGED <<task, pushes>>
       \/ /\ \E x \in pushes : pushes' = pushes \ {x}
          /\ UNCHANGED <<task, listeners>>
    /\ Faulty /\ Forgiven
    /\ UNCHANGED <<trip, conn, moves, asides>>

Crash ==
    /\ Faulty
    /\ conn' = [p \in Parties |-> {}] /\ task' = [w \in Workers |-> Idle]
    /\ listeners' = {} /\ pushes' = {}
    /\ last' = [p \in Parties |-> "none"]
    /\ behind' = {} /\ outside' = {} /\ owed' = "none" /\ unread' = {} /\ alone' = FALSE
    /\ UNCHANGED <<trip, been, moves, asides>>

------------------------------------------------------------------------------
Call(w) ==
    \/ \E u \in Parties : \/ \E s \in TripStatus : UpdateStatus(w, u, s)
                          \/ RateTrip(w, u) \/ SendMessage(w, u)
    \/ Accept(w) \/ CompleteTrip(w)
    \/ ConfirmDelivery(w) \/ ConfirmPaymentReceived(w)

Step(w) ==
    \/ WriteStatus(w) \/ AnnounceStatus(w)
    \/ WriteConfirmed(w) \/ MarkPaymentReceived(w)
    \/ FindRating(w) \/ CreateRating(w) \/ CreateMessage(w)

Listen ==
    \/ AssignDriver \/ TellAccepted \/ UpdateStatusIfPending \/ TellFailed
    \/ CancelStale \/ TellStale
    \/ \E x \in pushes : SendToUser(x)

Socket == \E p \in Parties : JoinOwnRoom(p) \/ TripJoin(p) \/ LeaveAllRooms(p)

Next ==
    \/ \E w \in Workers : Call(w) \/ Step(w)
    \/ DispatchFailed \/ FindStale \/ Listen \/ Socket \/ Fail \/ Crash

Spec == Init /\ [][Next]_vars

------------------------------------------------------------------------------
(***************************************************************************)
(* Properties.                                                             *)
(***************************************************************************)

\* Whoever was connected when a request changed the status is told of it, by the
\* room of the account when not by the trip's (trips.service.ts, 289-296 and
\* 393-400).  When the service cancels by itself (trips.service.ts, 231, and
\* dispatch-recovery.service.ts, 113), only those in the trip's room are.
WordGetsRound == ~Telling => behind \subseteq outside

\* The party that has to be told of a status by a push is, also when a handler
\* that overlaps the change speaks for it (trips.service.ts, 214 and 307-338;
\* notification.handler.ts, 52-108).  The service's own cancellations push to
\* nobody, nor does an acceptance that found its lock gone (dispatch.service.ts,
\* 258-261).
TheOtherIsPushed == ~Telling /\ pushes = {} => owed = "none"

\* A party that hears in the end of another status than the trip has, heard of
\* two changes that overlapped (trips.service.ts, 214-215), or was outside of the
\* trip's room when the service cancelled by itself.
LastNewsIsTrue ==
    ~Telling /\ alone => \A p \in Parties : last[p] \in {"none", status} \/ p \in outside

\* A message is pushed to the one who did not write it, if a client ordered
\* (notification.handler.ts, 130-145).
MessagesArePushed ==
    ClientRole = "client" /\ pushes = {} => unread = {}

\* Nobody confirms or rates what was not completed, or pays for what was not
\* begun, and a delivery is confirmed again only by calls that overlapped
\* (trips.service.ts, 456-460, 520-527 and 558-563).
AfterTheFact ==
    /\ rated # {} \/ confirmed > 0 => "completed" \in been
    /\ paid => "in_progress" \in been
    /\ confirmed <= Cardinality(Workers)

==============================================================================
