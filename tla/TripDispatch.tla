----------------------------- MODULE TripDispatch -----------------------------
(***************************************************************************)
(* The life of trips from creation to a terminal status: TripsService,     *)
(* TripRepository, DispatchService, the BullMQ timeout queue and           *)
(* DispatchRecoveryService, which share the tables `trips` and             *)
(* `dispatch_attempts` and the Redis keys of dispatch.constants.ts.        *)
(*                                                                         *)
(* Node runs one handler until its next `await`; every other handler may   *)
(* run before it resumes.  A handler in progress is a record in `task`,    *)
(* held by a worker, and one action is what it does between two awaits.    *)
(* Awaits that only touch the pair's timeout job are joined to the lock    *)
(* operation next to them (see README, "Granularity").                     *)
(***************************************************************************)
EXTENDS TripLifecycle, Naturals, FiniteSets

CONSTANTS
    Trips,                \* trip ids
    Drivers,              \* driver ids: validated, online, in radius or not
    NoTrip, NoDriver,     \* null
    Slots,                \* how many requests, events and jobs run at once
    Calls,                \* the operations users may invoke
    MaxDispatchAttempts,  \* ServiceDispatchConfig.maxDispatchAttempts
    LockOutlivesTimeout,  \* lockTtlSeconds > dispatchTimeoutMs, and jobs on time
    MaxRounds,            \* bound: how far the rounds of a trip are counted
    MaxAge,               \* bound: how old a trip may grow, in Age levels
    MaxCrashes            \* bound: how often the process may die

\* The operations of the REST and WebSocket interfaces that reach a trip.
CallNames == {"create", "accept", "decline", "wsDecline", "advance",
              "cancelByDriver", "cancelByClient", "cancelAuto",
              "pendingRequest"}

ASSUME ConstantAssumption ==
    /\ NoTrip \notin Trips
    /\ NoDriver \notin Drivers
    /\ {"boot", "sweep", "stale"} \cap Slots = {}
    /\ Calls \subseteq CallNames
    /\ MaxDispatchAttempts \in Nat \ {0}
    /\ LockOutlivesTimeout \in BOOLEAN
    /\ MaxRounds \in Nat /\ MaxRounds >= MaxDispatchAttempts
    /\ MaxAge \in 0..3
    /\ MaxCrashes \in Nat

VARIABLES
    \* PostgreSQL
    status,    \* trips.status, "absent" before the insert
    driver,    \* trips.driver_id
    reason,    \* trips.cancel_reason
    attempt,   \* dispatch_attempts.status per trip and driver
    \* time since trips.created_at and trips.updated_at, order of notified_at
    age,       \* 0: < 90 s, 1: < 2 min, 2: < 25 min, 3: older
    idle,      \* no update for STALE_ASSIGNED_MS
    newest,    \* the trip of each driver's latest notified_at
    \* Redis
    lock,      \* telima:driver:dispatch:{driver} -> trip
    timer,     \* the job telima:dispatch:timeout_job:{trip}:{driver} names
    rounds,    \* telima:dispatch:rounds:{trip}
    \* the process
    task,      \* the handler each worker is running
    events,    \* domain events emitted, their listener not yet past its await
    crashes    \* how often the process has died

db    == <<status, driver, reason, attempt>>
time  == <<age, idle, newest>>
redis == <<lock, timer, rounds>>
vars  == <<status, driver, reason, attempt, age, idle, newest, lock, timer,
           rounds, task, events, crashes>>

AttemptStatus == {"none", "driver_notified", "driver_accepted",
                  "driver_declined", "timed_out"}
Reasons == {"none", "dispatch_failed", "driver_unresponsive", "request"}

\* A job is delayed until its time, then active while the processor runs it.
TimerState == {"none", "delayed", "active"}

\* The sweeps of DispatchRecoveryService run beside the request handlers.
Workers == Slots \cup {"boot", "sweep", "stale"}

EventSet == [type : {"created", "failed", "assigned"},
             trip : Trips, driver : Drivers \cup {NoDriver}]

Created(t)     == [type |-> "created",  trip |-> t, driver |-> NoDriver]
Failed(t)      == [type |-> "failed",   trip |-> t, driver |-> NoDriver]
Assigned(t, d) == [type |-> "assigned", trip |-> t, driver |-> d]

Ops == {"none", "create", "dispatch", "timeout", "decline", "accept", "move",
        "cancel", "rearm", "run", "stale"}
Pcs == {"idle", "details", "rounds", "find", "lock", "upsert", "arm",
        "expire", "freeExpired", "check", "count", "budget",
        "decline", "freeDeclined",
        "hasAttempt", "hasLock", "mark", "cancelOwn", "others", "freeOther",
        "write", "releaseFind", "release",
        "rearmCheck", "rearmMark", "rearmLock", "boot", "next"}

\* A handler in progress: what it runs, where it is, and its local variables.
Task == [op : Ops, pc : Pcs, trip : Trips \cup {NoTrip},
         driver : Drivers \cup {NoDriver},
         to : TripStatus,          \* dto.status
         todo : SUBSET Drivers,    \* what is left of the loop's list
         any : BOOLEAN,            \* notified.length > 0
         queue : SUBSET Trips]     \* what is left of the sweep's list

Idle == [op |-> "none", pc |-> "idle", trip |-> NoTrip, driver |-> NoDriver,
         to |-> "pending", todo |-> {}, any |-> FALSE, queue |-> {}]

Start(op, pc, t, d, to) ==
    [Idle EXCEPT !.op = op, !.pc = pc, !.trip = t, !.driver = d, !.to = to]

TypeOK ==
    /\ status \in [Trips -> TripStatus \cup {"absent"}]
    /\ driver \in [Trips -> Drivers \cup {NoDriver}]
    /\ reason \in [Trips -> Reasons]
    /\ attempt \in [Trips -> [Drivers -> AttemptStatus]]
    /\ age \in [Trips -> 0..3]
    /\ idle \in [Trips -> BOOLEAN]
    /\ newest \in [Drivers -> Trips \cup {NoTrip}]
    /\ lock \in [Drivers -> Trips \cup {NoTrip}]
    /\ timer \in [Trips -> [Drivers -> TimerState]]
    /\ rounds \in [Trips -> 0..MaxRounds]
    /\ task \in [Workers -> Task]
    /\ events \subseteq EventSet
    /\ crashes \in 0..MaxCrashes

Init ==
    /\ status = [t \in Trips |-> "absent"]
    /\ driver = [t \in Trips |-> NoDriver]
    /\ reason = [t \in Trips |-> "none"]
    /\ attempt = [t \in Trips |-> [d \in Drivers |-> "none"]]
    /\ age = [t \in Trips |-> 0]
    /\ idle = [t \in Trips |-> FALSE]
    /\ newest = [d \in Drivers |-> NoTrip]
    /\ lock = [d \in Drivers |-> NoTrip]
    /\ timer = [t \in Trips |-> [d \in Drivers |-> "none"]]
    /\ rounds = [t \in Trips |-> 0]
    /\ task = [w \in Workers |-> Idle]
    /\ events = {}
    /\ crashes = 0

------------------------------------------------------------------------------
(***************************************************************************)
(* Helpers.                                                                *)
(***************************************************************************)
At(w, pc)   == task[w].pc = pc
Becomes(w, k) == task' = [task EXCEPT ![w] = k]
Goto(w, pc) == Becomes(w, [task[w] EXCEPT !.pc = pc])

\* A handler that returns, or throws.  The loops of the recovery service go on
\* with their next trip in both cases: each trip has its own try/catch.
Return(w) ==
    Becomes(w, IF task[w].op \in {"run", "stale"}
               THEN [task[w] EXCEPT !.pc = "next"] ELSE Idle)

\* hasActiveDispatchAttempt
HasActiveAttemptUnchecked(t, d) == TRUE
HasActiveAttempt(t, d) == attempt[t][d] = "driver_notified"

NotifiedDrivers(t) == {d \in Drivers : attempt[t][d] = "driver_notified"}

\* updateMany({tripId, driverId, status: 'driver_notified'}, new)
Respond(t, d, new) ==
    attempt' = [attempt EXCEPT ![t][d] =
                    IF @ = "driver_notified" THEN new ELSE @]

\* cancelTimeoutJob: job.remove() of BullMQ throws on a job that a worker holds.
JobIsHeld(t, d) == timer[t][d] = "active"

\* emitDispatchFailed: forget the rounds, emit DispatchFailed.
EmitDispatchFailed(t) ==
    /\ rounds' = [rounds EXCEPT ![t] = 0]
    /\ events' = events \cup {Failed(t)}

\* findNearbyDrivers leaves out a driver engaged on a trip created in the last
\* 25 minutes; position and radius decide among the others.
Free(d) == \A t \in Trips :
              ~(driver[t] = d /\ status[t] \in Engaged /\ age[t] < 3)

------------------------------------------------------------------------------
(***************************************************************************)
(* Creation: the insert, then the detail rows, then TripCreated.  A detail *)
(* row that cannot be written fails the request and leaves the trip.       *)
(***************************************************************************)
CreateTrip(w, t) ==
    /\ "create" \in Calls
    /\ At(w, "idle")
    /\ status[t] = "absent"
    /\ status' = [status EXCEPT ![t] = "pending"]
    /\ Becomes(w, Start("create", "details", t, NoDriver, "pending"))
    /\ UNCHANGED <<driver, reason, attempt, time, redis, events, crashes>>

CreateDetails(w) ==
    /\ At(w, "details")
    /\ \/ events' = events \cup {Created(task[w].trip)}
       \/ UNCHANGED events
    /\ Return(w)
    /\ UNCHANGED <<db, time, redis, crashes>>

\* TripCreatedHandler.handleTripCreated
HandleTripCreated(w, t) ==
    /\ At(w, "idle")
    /\ Created(t) \in events
    /\ events' = events \ {Created(t)}
    /\ Becomes(w, Start("dispatch", "rounds", t, NoDriver, "pending"))
    /\ UNCHANGED <<db, time, redis, crashes>>

------------------------------------------------------------------------------
(***************************************************************************)
(* attemptDispatch.  Nothing here reads the trip's status.                 *)
(***************************************************************************)

\* INCR, counted as far as MaxRounds.
OneMoreRound(n) == IF n < MaxRounds THEN n + 1 ELSE n

CountRound(w) ==
    LET t == task[w].trip IN
    /\ At(w, "rounds")
    /\ rounds' = [rounds EXCEPT ![t] = OneMoreRound(@)]
    /\ Becomes(w, [task[w] EXCEPT !.pc = "find", !.todo = {}, !.any = FALSE])
    /\ UNCHANGED <<db, time, lock, timer, events, crashes>>

FindNearbyDrivers(w) ==
    LET t == task[w].trip IN
    /\ At(w, "find")
    /\ \E candidates \in SUBSET {d \in Drivers : Free(d)} :
          \/ /\ candidates = {}
             /\ EmitDispatchFailed(t)
             /\ Return(w)
          \/ /\ Cardinality(candidates) \in 1..MaxDispatchAttempts
             /\ Becomes(w, [task[w] EXCEPT !.pc = "lock", !.todo = candidates])
             /\ UNCHANGED <<rounds, events>>
    /\ UNCHANGED <<db, time, lock, timer, crashes>>

\* SET lock trip EX ttl NX for the next candidate
AcquireLock(w) ==
    LET t == task[w].trip IN
    /\ At(w, "lock")
    /\ \E d \in task[w].todo :
          \/ /\ lock[d] = NoTrip
             /\ lock' = [lock EXCEPT ![d] = t]
             /\ Becomes(w, [task[w] EXCEPT !.pc = "upsert", !.driver = d,
                                           !.todo = @ \ {d}])
          \/ /\ lock[d] # NoTrip
             /\ Becomes(w, [task[w] EXCEPT !.todo = @ \ {d}])
             /\ UNCHANGED lock
    /\ UNCHANGED <<db, time, timer, rounds, events, crashes>>

\* The row is created when it is missing, and notified again when it is not.
UpsertedUpdateOnly(old) == IF old = "none" THEN "none" ELSE "driver_notified"
Upserted(old) == "driver_notified"

UpsertAttempt(w) ==
    /\ At(w, "upsert")
    /\ attempt' = [attempt EXCEPT ![task[w].trip][task[w].driver] = Upserted(@)]
    /\ newest' = [newest EXCEPT ![task[w].driver] = task[w].trip]
    /\ Goto(w, "arm")
    /\ UNCHANGED <<status, driver, reason, age, idle, redis, events, crashes>>

\* cancelTimeoutJob, scheduleDispatchTimeout, set the job's key
ArmTimeout(w) ==
    LET t == task[w].trip  d == task[w].driver IN
    /\ At(w, "arm")
    /\ \/ /\ JobIsHeld(t, d)
          /\ Return(w)
          /\ UNCHANGED timer
       \/ /\ ~JobIsHeld(t, d)
          /\ timer' = [timer EXCEPT ![t][d] = "delayed"]
          /\ Becomes(w, [task[w] EXCEPT !.pc = "lock", !.any = TRUE])
    /\ UNCHANGED <<db, time, lock, rounds, events, crashes>>

EndDispatch(w) ==
    /\ At(w, "lock")
    /\ task[w].todo = {}
    /\ \/ /\ task[w].any
          /\ UNCHANGED <<rounds, events>>
       \/ /\ ~task[w].any
          /\ EmitDispatchFailed(task[w].trip)
    /\ Return(w)
    /\ UNCHANGED <<db, time, lock, timer, crashes>>

------------------------------------------------------------------------------
(***************************************************************************)
(* The end of an attempt: handleDriverTimeout, run by the BullMQ worker    *)
(* one job at a time, handleDriverDeclineAndRetry and, at the end of both, *)
(* checkAndRetryDispatch.                                                  *)
(***************************************************************************)
FireTimeout(w, t, d) ==
    /\ At(w, "idle")
    /\ \A v \in Slots : task[v].op # "timeout"
    /\ timer[t][d] = "delayed"
    /\ timer' = [timer EXCEPT ![t][d] = "active"]
    /\ Becomes(w, Start("timeout", "expire", t, d, "pending"))
    /\ UNCHANGED <<db, time, lock, rounds, events, crashes>>

ExpireAttempt(w) ==
    /\ At(w, "expire")
    /\ Respond(task[w].trip, task[w].driver, "timed_out")
    /\ Goto(w, "freeExpired")
    /\ UNCHANGED <<status, driver, reason, time, redis, events, crashes>>

\* del lock, del the job's key
FreeExpired(w) ==
    LET t == task[w].trip  d == task[w].driver IN
    /\ At(w, "freeExpired")
    /\ lock' = [lock EXCEPT ![d] = NoTrip]
    /\ timer' = [timer EXCEPT ![t][d] = "none"]
    /\ Goto(w, "check")
    /\ UNCHANGED <<db, time, rounds, events, crashes>>

\* declineTrip checks for an active attempt, the WebSocket handler does not.
DeclineTrip(w, t, d) ==
    /\ At(w, "idle")
    /\ status[t] # "absent"
    /\ \/ "decline" \in Calls /\ HasActiveAttempt(t, d)
       \/ "wsDecline" \in Calls
    /\ Becomes(w, Start("decline", "decline", t, d, "pending"))
    /\ UNCHANGED <<db, time, redis, events, crashes>>

MarkDeclined(w) ==
    /\ At(w, "decline")
    /\ Respond(task[w].trip, task[w].driver, "driver_declined")
    /\ Goto(w, "freeDeclined")
    /\ UNCHANGED <<status, driver, reason, time, redis, events, crashes>>

\* del lock, cancelTimeoutJob
FreeDeclined(w) ==
    LET t == task[w].trip  d == task[w].driver IN
    /\ At(w, "freeDeclined")
    /\ lock' = [lock EXCEPT ![d] = NoTrip]
    /\ \/ JobIsHeld(t, d) /\ Return(w) /\ UNCHANGED timer
       \/ /\ ~JobIsHeld(t, d)
          /\ timer' = [timer EXCEPT ![t][d] = "none"]
          /\ Goto(w, "check")
    /\ UNCHANGED <<db, time, rounds, events, crashes>>

CheckPending(w) ==
    /\ At(w, "check")
    /\ \/ status[task[w].trip] = "pending" /\ Goto(w, "count")
       \/ status[task[w].trip] # "pending" /\ Return(w)
    /\ UNCHANGED <<db, time, redis, events, crashes>>

CountRemaining(w) ==
    /\ At(w, "count")
    /\ \/ NotifiedDrivers(task[w].trip) = {} /\ Goto(w, "budget")
       \/ NotifiedDrivers(task[w].trip) # {} /\ Return(w)
    /\ UNCHANGED <<db, time, redis, events, crashes>>

\* roundsSoFar >= maxDispatchAttempts
BudgetSpentOneLater(n) == n > MaxDispatchAttempts
BudgetSpent(n) == n >= MaxDispatchAttempts

RetryOrGiveUp(w) ==
    LET t == task[w].trip IN
    /\ At(w, "budget")
    /\ \/ /\ BudgetSpent(rounds[t])
          /\ EmitDispatchFailed(t)
          /\ Return(w)
       \/ /\ ~BudgetSpent(rounds[t])
          /\ Goto(w, "rounds")
          /\ UNCHANGED <<rounds, events>>
    /\ UNCHANGED <<db, time, lock, timer, crashes>>

------------------------------------------------------------------------------
(***************************************************************************)
(* updateStatus(accepted) and handleDriverAccept.  A lock that names       *)
(* another trip, or none, makes handleDriverAccept return early; the       *)
(* caller goes on and writes the status all the same.                      *)
(***************************************************************************)
AcceptTrip(w, t, d) ==
    /\ "accept" \in Calls
    /\ At(w, "idle")
    /\ canTransition(status[t], "accepted")
    /\ Becomes(w, Start("accept", "hasAttempt", t, d, "accepted"))
    /\ UNCHANGED <<db, time, redis, events, crashes>>

HasActiveDispatchAttempt(w) ==
    /\ At(w, "hasAttempt")
    /\ \/ HasActiveAttempt(task[w].trip, task[w].driver) /\ Goto(w, "hasLock")
       \/ ~HasActiveAttempt(task[w].trip, task[w].driver) /\ Return(w)
    /\ UNCHANGED <<db, time, redis, events, crashes>>

ReadLock(w) ==
    /\ At(w, "hasLock")
    /\ \/ lock[task[w].driver] = task[w].trip /\ Goto(w, "mark")
       \/ lock[task[w].driver] # task[w].trip /\ Goto(w, "write")
    /\ UNCHANGED <<db, time, redis, events, crashes>>

MarkAccepted(w) ==
    /\ At(w, "mark")
    /\ Respond(task[w].trip, task[w].driver, "driver_accepted")
    /\ Goto(w, "cancelOwn")
    /\ UNCHANGED <<status, driver, reason, time, redis, events, crashes>>

CancelOwnTimeout(w) ==
    LET t == task[w].trip  d == task[w].driver IN
    /\ At(w, "cancelOwn")
    /\ \/ JobIsHeld(t, d) /\ Return(w) /\ UNCHANGED timer
       \/ /\ ~JobIsHeld(t, d)
          /\ timer' = [timer EXCEPT ![t][d] = "none"]
          /\ Goto(w, "others")
    /\ UNCHANGED <<db, time, lock, rounds, events, crashes>>

FindOtherLocks(w) ==
    /\ At(w, "others")
    /\ Becomes(w, [task[w] EXCEPT !.pc = "freeOther",
                   !.todo = NotifiedDrivers(task[w].trip) \ {task[w].driver}])
    /\ UNCHANGED <<db, time, redis, events, crashes>>

\* One turn of the loop: del lock, cancelTimeoutJob, decline the attempt.
FreeOtherLock(w) ==
    LET t == task[w].trip IN
    /\ At(w, "freeOther")
    /\ \E e \in task[w].todo :
          /\ lock' = [lock EXCEPT ![e] = NoTrip]
          /\ \/ JobIsHeld(t, e) /\ Return(w) /\ UNCHANGED <<timer, attempt>>
             \/ /\ ~JobIsHeld(t, e)
                /\ timer' = [timer EXCEPT ![t][e] = "none"]
                /\ Respond(t, e, "driver_declined")
                /\ Becomes(w, [task[w] EXCEPT !.todo = @ \ {e}])
    /\ UNCHANGED <<status, driver, reason, time, rounds, events, crashes>>

\* del own lock, del rounds, emit DriverAssigned
EmitDriverAssigned(w) ==
    LET t == task[w].trip  d == task[w].driver IN
    /\ At(w, "freeOther")
    /\ task[w].todo = {}
    /\ lock' = [lock EXCEPT ![d] = NoTrip]
    /\ rounds' = [rounds EXCEPT ![t] = 0]
    /\ events' = events \cup {Assigned(t, d)}
    /\ Goto(w, "write")
    /\ UNCHANGED <<db, time, timer, crashes>>

\* TripEventHandler.handleDriverAssigned: assignDriver, unconditionally.
HandleDriverAssigned(t, d) ==
    /\ Assigned(t, d) \in events
    /\ events' = events \ {Assigned(t, d)}
    /\ status' = [status EXCEPT ![t] = "accepted"]
    /\ driver' = [driver EXCEPT ![t] = d]
    /\ idle' = [idle EXCEPT ![t] = FALSE]
    /\ UNCHANGED <<reason, attempt, age, newest, redis, task, crashes>>

\* TripEventHandler.handleDispatchFailed: updateStatusIfPending, whose WHERE
\* clause is StillPending.
StillPendingUnchecked(t) == TRUE
StillPending(t) == status[t] = "pending"

HandleDispatchFailed(t) ==
    /\ Failed(t) \in events
    /\ events' = events \ {Failed(t)}
    /\ \/ /\ StillPending(t)
          /\ status' = [status EXCEPT ![t] = "cancelled_auto"]
          /\ reason' = [reason EXCEPT ![t] = "dispatch_failed"]
          /\ idle' = [idle EXCEPT ![t] = FALSE]
       \/ /\ ~StillPending(t)
          /\ UNCHANGED <<status, reason, idle>>
    /\ UNCHANGED <<driver, attempt, age, newest, redis, task, crashes>>

------------------------------------------------------------------------------
(***************************************************************************)
(* The other transitions of updateStatus, and completeTrip: the checks are *)
(* made on the trip as read first, the write names only the trip's id.     *)
(***************************************************************************)
Moves == {"driver_arriving", "in_progress", "completed", "cancelled_by_driver"}

\* trip.driverId = the caller's driver id
IsAssignedUnchecked(t, d) == TRUE
IsAssigned(t, d) == driver[t] = d

\* The assigned driver advances the trip, or cancels it.
MoveTrip(w, t, d, to) ==
    /\ (IF to = "cancelled_by_driver" THEN "cancelByDriver" ELSE "advance") \in Calls
    /\ At(w, "idle")
    /\ canTransition(status[t], to)
    /\ IsAssigned(t, d)
    /\ Becomes(w, Start("move", "write", t, d, to))
    /\ UNCHANGED <<db, time, redis, events, crashes>>

\* The client cancels, or anyone asks for cancelled_auto.
CancelTrip(w, t, to) ==
    /\ (IF to = "cancelled_auto" THEN "cancelAuto" ELSE "cancelByClient") \in Calls
    /\ At(w, "idle")
    /\ canTransition(status[t], to)
    /\ Becomes(w, Start("cancel", "releaseFind", t, NoDriver, to))
    /\ UNCHANGED <<db, time, redis, events, crashes>>

\* tripRepo.updateStatus: prisma.trip.update by id.
WriteStatus(w) ==
    LET t == task[w].trip  to == task[w].to IN
    /\ At(w, "write")
    /\ status' = [status EXCEPT ![t] = to]
    /\ driver' = [driver EXCEPT ![t] = IF to = "accepted" THEN task[w].driver ELSE @]
    /\ \/ /\ to \in {"cancelled_by_client", "cancelled_by_driver", "cancelled_auto"}
          /\ reason' = [reason EXCEPT ![t] = "request"]
       \/ to # "cancelled_auto" /\ UNCHANGED reason
    /\ idle' = [idle EXCEPT ![t] = FALSE]
    /\ Return(w)
    /\ UNCHANGED <<attempt, age, newest, redis, events, crashes>>

------------------------------------------------------------------------------
(***************************************************************************)
(* releaseLocksForTrip, called by the cancellations and by the sweeps.     *)
(***************************************************************************)
ReleaseFind(w) ==
    /\ At(w, "releaseFind")
    /\ Becomes(w, [task[w] EXCEPT !.pc = "release",
                                  !.todo = NotifiedDrivers(task[w].trip)])
    /\ UNCHANGED <<db, time, redis, events, crashes>>

\* One turn of the loop: del lock, cancelTimeoutJob.
ReleaseLock(w) ==
    LET t == task[w].trip IN
    /\ At(w, "release")
    /\ \E e \in task[w].todo :
          /\ lock' = [lock EXCEPT ![e] = NoTrip]
          /\ \/ JobIsHeld(t, e) /\ Return(w) /\ UNCHANGED timer
             \/ /\ ~JobIsHeld(t, e)
                /\ timer' = [timer EXCEPT ![t][e] = "none"]
                /\ Becomes(w, [task[w] EXCEPT !.todo = @ \ {e}])
    /\ UNCHANGED <<db, time, rounds, events, crashes>>

\* updateMany(driver_notified -> timed_out), then back to the caller.
ReleaseMark(w) ==
    LET t == task[w].trip IN
    /\ At(w, "release")
    /\ task[w].todo = {}
    /\ attempt' = [attempt EXCEPT ![t] =
                      [d \in Drivers |-> IF @[d] = "driver_notified"
                                         THEN "timed_out" ELSE @[d]]]
    /\ \/ task[w].op = "cancel" /\ Goto(w, "write")
       \/ task[w].op = "run"    /\ Goto(w, "rounds")
       \/ task[w].op = "stale"  /\ Return(w)
    /\ UNCHANGED <<status, driver, reason, time, redis, events, crashes>>

------------------------------------------------------------------------------
(***************************************************************************)
(* getPendingRequestForDriver: a driver who opens the application gets the *)
(* request again, and it is armed again: attempt and lock, without a job.  *)
(***************************************************************************)
Requested(t, d) == /\ attempt[t][d] \in {"driver_notified", "timed_out"}
                   /\ status[t] = "pending"
                   /\ driver[t] = NoDriver

\* findFirst by notified_at, latest first.
GetPendingRequest(w, t, d) ==
    /\ "pendingRequest" \in Calls
    /\ At(w, "idle")
    /\ Requested(t, d)
    /\ \A u \in Trips : u = newest[d] /\ Requested(u, d) => u = t
    /\ Becomes(w, Start("rearm", "rearmCheck", t, d, "pending"))
    /\ UNCHANGED <<db, time, redis, events, crashes>>

AnotherAccepted(w) ==
    LET taken == \E e \in Drivers \ {task[w].driver} :
                    attempt[task[w].trip][e] = "driver_accepted" IN
    /\ At(w, "rearmCheck")
    /\ \/ taken /\ Return(w)
       \/ ~taken /\ Goto(w, "rearmMark")
    /\ UNCHANGED <<db, time, redis, events, crashes>>

RearmAttempt(w) ==
    /\ At(w, "rearmMark")
    /\ attempt' = [attempt EXCEPT ![task[w].trip][task[w].driver] = "driver_notified"]
    /\ Goto(w, "rearmLock")
    /\ UNCHANGED <<status, driver, reason, time, redis, events, crashes>>

\* SET without NX
RearmLock(w) ==
    /\ At(w, "rearmLock")
    /\ lock' = [lock EXCEPT ![task[w].driver] = task[w].trip]
    /\ Return(w)
    /\ UNCHANGED <<db, time, timer, rounds, events, crashes>>

------------------------------------------------------------------------------
(***************************************************************************)
(* DispatchRecoveryService.  run() reads the pending trips, oldest first:  *)
(* those past REDISPATCH_MAX_AGE_MS fail at once, without an await; each   *)
(* of the others is released and dispatched again.                         *)
(***************************************************************************)
Pending == {t \in Trips : status[t] = "pending"}

\* age > REDISPATCH_MAX_AGE_MS
TooOld == {t \in Pending : age[t] >= 2}

\* accepted or driver_arriving, no update for STALE_ASSIGNED_MS
StaleAssignedAccepted == {t \in Trips : status[t] = "accepted" /\ idle[t]}
StaleAssignedAny == {t \in Trips : status[t] # "absent" /\ age[t] = 3}
StaleAssigned == {t \in Trips : /\ status[t] \in {"accepted", "driver_arriving"}
                                /\ idle[t]}

Sweep(queue, op) == IF queue = {} THEN Idle
                    ELSE [Idle EXCEPT !.op = op, !.pc = "next", !.queue = queue]

\* What one run() reads and what it does before its first await.
FailTooOld ==
    /\ rounds' = [t \in Trips |-> IF t \in TooOld THEN 0 ELSE rounds[t]]
    /\ events' = events \cup {Failed(t) : t \in TooOld}

\* setInterval: run({quiet: true}) and sweepStaleAssigned() unless `sweeping`.
SweepTick ==
    /\ At("sweep", "idle")
    /\ At("stale", "idle")
    /\ FailTooOld
    /\ task' = [task EXCEPT
          !["sweep"] = Sweep({t \in Pending : age[t] = 1}, "run"),
          !["stale"] = Sweep(StaleAssigned, "stale")]
    /\ UNCHANGED <<db, time, lock, timer, crashes>>

\* setTimeout after a restart: run(), which does not look at `sweeping`.
BootRun ==
    /\ At("boot", "boot")
    /\ FailTooOld
    /\ Becomes("boot", Sweep(Pending \ TooOld, "run"))
    /\ UNCHANGED <<db, time, lock, timer, crashes>>

NextPending(w) ==
    /\ At(w, "next")
    /\ task[w].op = "run"
    /\ \E t \in task[w].queue :
          Becomes(w, [task[w] EXCEPT !.pc = "releaseFind", !.trip = t,
                                        !.queue = @ \ {t}])
    /\ UNCHANGED <<db, time, redis, events, crashes>>

\* prisma.trip.update by id: cancelled_auto, driver_unresponsive.
CancelStale(w) ==
    /\ At(w, "next")
    /\ task[w].op = "stale"
    /\ \E t \in task[w].queue :
          /\ status' = [status EXCEPT ![t] = "cancelled_auto"]
          /\ reason' = [reason EXCEPT ![t] = "driver_unresponsive"]
          /\ idle' = [idle EXCEPT ![t] = FALSE]
          /\ Becomes(w, [task[w] EXCEPT !.pc = "releaseFind", !.trip = t,
                                        !.queue = @ \ {t}])
    /\ UNCHANGED <<driver, attempt, age, newest, redis, events, crashes>>

EndSweep(w) ==
    /\ At(w, "next")
    /\ task[w].queue = {}
    /\ Becomes(w, Idle)
    /\ UNCHANGED <<db, time, redis, events, crashes>>

------------------------------------------------------------------------------
(***************************************************************************)
(* Time and failure.                                                       *)
(***************************************************************************)
\* Past the sweeps' two minutes, only an engaged trip's age still matters.
GrowOlder(t) ==
    /\ status[t] # "absent"
    /\ age[t] < MaxAge
    /\ age[t] < 2 \/ status[t] \in Engaged
    /\ age' = [age EXCEPT ![t] = @ + 1]
    /\ UNCHANGED <<db, idle, newest, redis, task, events, crashes>>

\* 45 minutes without an update; the trip is then older than 25 minutes.
StandStill(t) ==
    /\ status[t] \in {"accepted", "driver_arriving"}
    /\ age[t] = 3
    /\ ~idle[t]
    /\ idle' = [idle EXCEPT ![t] = TRUE]
    /\ UNCHANGED <<db, age, newest, redis, task, events, crashes>>

\* The lock's TTL.  Both durations are settings of the service: with the
\* defaults (75 s, 60 s) and a prompt worker the job comes first, and neither a
\* handler nor a DispatchFailed listener is under way for so long.
LockExpires(d) ==
    /\ lock[d] # NoTrip
    /\ LockOutlivesTimeout =>
          /\ timer[lock[d]][d] = "none"
          /\ Failed(lock[d]) \notin events
          /\ \A w \in Workers : ~(task[w].trip = lock[d] /\ task[w].driver = d)
    /\ lock' = [lock EXCEPT ![d] = NoTrip]
    /\ UNCHANGED <<db, time, timer, rounds, task, events, crashes>>

\* The process dies: handlers and events are gone, and with a Redis that does
\* not persist the locks, jobs and rounds too.  A job that was active becomes
\* stalled and is run again.
Crash ==
    /\ crashes < MaxCrashes
    /\ crashes' = crashes + 1
    /\ task' = [w \in Workers |-> IF w = "boot"
                                  THEN [Idle EXCEPT !.op = "run", !.pc = "boot"]
                                  ELSE Idle]
    /\ events' = {}
    /\ \/ /\ timer' = [t \in Trips |-> [d \in Drivers |->
                          IF timer[t][d] = "active" THEN "delayed" ELSE timer[t][d]]]
          /\ UNCHANGED <<lock, rounds>>
       \/ /\ timer' = [t \in Trips |-> [d \in Drivers |-> "none"]]
          /\ lock' = [d \in Drivers |-> NoTrip]
          /\ rounds' = [t \in Trips |-> 0]
    /\ UNCHANGED <<db, time>>

------------------------------------------------------------------------------
\* What a worker that is not idle does next.
Dispatching(w) ==
    \/ CountRound(w) \/ FindNearbyDrivers(w) \/ AcquireLock(w)
    \/ UpsertAttempt(w) \/ ArmTimeout(w) \/ EndDispatch(w)
Closing(w) ==
    \/ ExpireAttempt(w) \/ FreeExpired(w) \/ MarkDeclined(w) \/ FreeDeclined(w)
    \/ CheckPending(w) \/ CountRemaining(w) \/ RetryOrGiveUp(w)
Accepting(w) ==
    \/ HasActiveDispatchAttempt(w) \/ ReadLock(w) \/ MarkAccepted(w)
    \/ CancelOwnTimeout(w) \/ FindOtherLocks(w) \/ FreeOtherLock(w)
    \/ EmitDriverAssigned(w)
Rearming(w) == AnotherAccepted(w) \/ RearmAttempt(w) \/ RearmLock(w)
Releasing(w) == ReleaseFind(w) \/ ReleaseLock(w) \/ ReleaseMark(w)
Sweeping(w) == NextPending(w) \/ CancelStale(w) \/ EndSweep(w)

Step(w) ==
    \/ CreateDetails(w) \/ WriteStatus(w) \/ Dispatching(w) \/ Closing(w)
    \/ Accepting(w) \/ Rearming(w) \/ Releasing(w) \/ Sweeping(w)

\* A free slot takes a request, an event or a job.
Request(w) ==
    \E t \in Trips :
        \/ CreateTrip(w, t)
        \/ \E to \in {"cancelled_by_client", "cancelled_auto"} : CancelTrip(w, t, to)
        \/ \E d \in Drivers :
              \/ AcceptTrip(w, t, d) \/ DeclineTrip(w, t, d)
              \/ GetPendingRequest(w, t, d)
              \/ \E to \in Moves : MoveTrip(w, t, d, to)
TakeWork(w) ==
    \E t \in Trips : HandleTripCreated(w, t)
                     \/ \E d \in Drivers : FireTimeout(w, t, d)
HandleEvent(t) ==
    HandleDispatchFailed(t) \/ \E d \in Drivers : HandleDriverAssigned(t, d)
Time ==
    \/ \E t \in Trips : GrowOlder(t) \/ StandStill(t)
    \/ \E d \in Drivers : LockExpires(d)

Next ==
    \/ \E w \in Slots : Request(w) \/ TakeWork(w)
    \/ \E w \in Workers : Step(w)
    \/ \E t \in Trips : HandleEvent(t)
    \/ SweepTick \/ BootRun \/ Time \/ Crash

Spec == Init /\ [][Next]_vars

\* The event loop runs every handler that can continue, every listener whose
\* event was emitted and every interval; a clock does not stop.  Nothing makes
\* a user act, and a crash is never due.
Fairness ==
    /\ \A w \in Workers : WF_vars(Step(w))
    /\ \A t \in Trips : /\ WF_vars(HandleEvent(t))
                        /\ WF_vars(GrowOlder(t))
                        /\ WF_vars(StandStill(t))
    /\ \A w \in Slots : WF_vars(TakeWork(w))
    /\ WF_vars(SweepTick)
    /\ WF_vars(BootRun)

FairSpec == Spec /\ Fairness

------------------------------------------------------------------------------
(***************************************************************************)
(* Properties.                                                             *)
(***************************************************************************)

\* A driver is assigned to a trip only if dispatch had offered it to that
\* driver, whichever of the two writers (updateStatus, assignDriver) put the
\* driver there and however late (trips.service.ts, 152-159).
AssignedWasNotified ==
    \A t \in Trips : driver[t] # NoDriver => attempt[t][driver[t]] # "none"

\* A pending trip has no driver, and a trip that a driver accepted, drives or
\* completed, or cancelled as its driver, has one: status and driver_id are
\* written by handlers that checked them some awaits earlier.
StatusMatchesDriver ==
    \A t \in Trips :
        /\ status[t] \in {"absent", "pending"} => driver[t] = NoDriver
        /\ status[t] \in Engaged \cup {"completed", "cancelled_by_driver"}
              => driver[t] # NoDriver

\* Dispatch gives up only on a trip nobody has: a trip left cancelled because
\* no driver was found has no driver, although DispatchFailed is handled some
\* time after it is emitted (trip.repository.ts, updateStatusIfPending).
FailureSparesAssigned ==
    \A t \in Trips :
        status[t] = "cancelled_auto" /\ reason[t] = "dispatch_failed"
            => driver[t] = NoDriver

\* A dispatch lock is never a stray key: the driver it holds was offered that
\* trip, or the dispatch that took the lock is about to record the offer.
LockHasOffer ==
    crashes = 0 => \A d \in Drivers : lock[d] # NoTrip =>
        \/ attempt[lock[d]][d] # "none"
        \/ \E w \in Workers : /\ At(w, "upsert")
                              /\ task[w].trip = lock[d] /\ task[w].driver = d

\* The search for a driver keeps to its budget of rounds although the test and
\* the INCR are statements of different handlers: timeouts, declines and the
\* first search may overlap, and each of them adds at most the one round it
\* had tested for, the first search one that nobody tests.  Until a sweep takes
\* the trip up, which starts a search whatever the count (dispatch.service.ts,
\* 233-239).
RoundsInBudget ==
    crashes = 0 => \A t \in Trips :
        age[t] = 0 => rounds[t] <= MaxDispatchAttempts + Cardinality(Slots)

\* What the local variables of the handlers hold, and what they remember of
\* the checks they made: the strengthening that makes the invariants above
\* inductive.
AcceptPcs == {"hasAttempt", "hasLock", "mark", "cancelOwn", "others", "freeOther"}
OfferPcs  == {"upsert", "arm", "expire", "freeExpired", "decline", "freeDeclined",
              "rearmCheck", "rearmMark", "rearmLock"}
HandlerOK(k) ==
    /\ k.pc \notin {"idle", "boot", "next"} => k.trip \in Trips
    /\ k.pc \in AcceptPcs \cup OfferPcs => k.driver \in Drivers
    /\ k.pc \in AcceptPcs => k.op = "accept"
    /\ k.pc = "write" => k.op \in {"accept", "move", "cancel"}
    /\ k.op = "accept" =>
          /\ k.pc \in AcceptPcs \cup {"write"}
          /\ k.to = "accepted" /\ k.trip \in Trips /\ k.driver \in Drivers
          /\ k.pc # "hasAttempt" => attempt[k.trip][k.driver] # "none"
    /\ k.op = "move" =>
          /\ k.pc = "write" /\ k.to \in Moves /\ k.trip \in Trips
          /\ driver[k.trip] # NoDriver
    /\ k.op = "cancel" =>
          /\ k.pc \in {"releaseFind", "release", "write"}
          /\ k.to \in {"cancelled_by_client", "cancelled_auto"}
    /\ k.pc = "rearmLock" => attempt[k.trip][k.driver] # "none"
HandlersOK == \A w \in Workers : HandlerOK(task[w])
EventsOK ==
    \A t \in Trips, d \in Drivers :
        Assigned(t, d) \in events => attempt[t][d] # "none"

\* The inductive invariant.
IInv ==
    /\ TypeOK /\ HandlersOK /\ EventsOK
    /\ AssignedWasNotified /\ StatusMatchesDriver /\ FailureSparesAssigned
    /\ LockHasOffer

\* A handler that passed its checks and will write the trip's status.
Accepts(w, t) == task[w].trip = t /\ task[w].op = "accept"
Writes(w, t) ==
    \/ task[w].trip = t /\ task[w].op \in {"accept", "move", "cancel"}
    \/ task[w].op = "stale" /\ t \in task[w].queue

Acceptance(t) == \/ \E w \in Workers : Accepts(w, t)
                 \/ \E d \in Drivers : Assigned(t, d) \in events

\* No handler that could still change the status has passed its checks.
Settled(t) ==
    /\ status[t] \in Terminal
    /\ \A w \in Workers : ~Writes(w, t)
    /\ \A d \in Drivers : Assigned(t, d) \notin events

\* A terminal status is final once the handlers that read an earlier one are
\* done: no later request, retry, timeout, sweep or restart revives the trip,
\* whatever dispatch still has in flight for it.
SettledIsFinal ==
    [][\A t \in Trips : Settled(t) => /\ Settled(t)'
                                      /\ status'[t] = status[t]
                                      /\ driver'[t] = driver[t]]_vars

\* Once a trip has left pending and no acceptance of it is in flight, its
\* driver stays: only acceptances that overlap compete for a trip.
DriverStays ==
    [][\A t \in Trips :
          status[t] \notin {"absent", "pending"} /\ ~Acceptance(t)
              => ~Acceptance(t)' /\ driver'[t] = driver[t]]_vars

\* No client waits for ever, and no driver stays engaged on a trip that does
\* not move: the search runs out of rounds or a sweep gives up on it, and an
\* assigned trip starts or the stale sweep ends it (sweepStaleAssigned), even
\* if events, jobs, locks and the handlers of a process that died are lost.
NobodyWaitsForEver ==
    \A t \in Trips : status[t] \in {"pending", "accepted", "driver_arriving"}
                        ~> status[t] \in Terminal \cup {"in_progress"}

------------------------------------------------------------------------------
(***************************************************************************)
(* The row of `trips` as TripLedger sees it.                               *)
(***************************************************************************)
OfferedTo(t) == {d \in Drivers : attempt[t][d] # "none"}

\* The status each handler, listener or sweep has decided to write.
Intents(t) ==
    {[to |-> task[w].to, driver |-> task[w].driver] :
        w \in {v \in Workers : /\ task[v].trip = t
                               /\ task[v].op \in {"accept", "move", "cancel"}}}
    \cup {[to |-> "accepted", driver |-> d] :
        d \in {e \in Drivers : Assigned(t, e) \in events}}
    \cup {[to |-> "cancelled_auto", driver |-> NoDriver] :
        w \in {v \in Workers : task[v].op = "stale" /\ t \in task[v].queue}}

Ledger == INSTANCE TripLedger
              WITH offered <- [t \in Trips |-> OfferedTo(t)],
                   intents <- [t \in Trips |-> Intents(t)]

\* Every write to a trip's status or driver, by whichever handler, listener,
\* sweep or restart, was legal for the row as its writer had read it, and an
\* acceptance names a driver who was offered the trip: the six writers of the
\* table keep to one discipline.
ImplementsLedger == Ledger!LedgerSpec

------------------------------------------------------------------------------
(***************************************************************************)
(* What the repository's documents say of the code and the code does not   *)
(* do; each is refuted by a run of its own.                                *)
(***************************************************************************)

\* A driver already engaged on a trip does not end up with two
\* (geolocation.service.ts, 58-59).
OneTripPerDriver ==
    \A d \in Drivers : \A t, u \in Trips :
        /\ driver[t] = d /\ status[t] \in Engaged /\ age[t] < 3
        /\ driver[u] = d /\ status[u] \in Engaged /\ age[u] < 3
        => t = u

==============================================================================
