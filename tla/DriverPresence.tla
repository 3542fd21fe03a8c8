--------------------------- MODULE DriverPresence ---------------------------
(***************************************************************************)
(* Whether the search finds a driver: the sockets of the driver's devices, *)
(* the grace timer that outlives a lost connection, and drivers.is_online, *)
(* which both write.  Drivers share nothing, so one is enough.             *)
(*                                                                         *)
(* The sorted set telima:driver:presence, written before is_online, is     *)
(* left out: nothing reads it.                                             *)
(***************************************************************************)
EXTENDS Naturals

CONSTANTS
    Sockets,    \* the driver's connections, each opened again with a new socket
    Workers,    \* requests and messages the process serves at once
    Timers,     \* handles that setTimeout returns
    NoTimer,    \* graceTimers has no entry
    MaxFaults   \* bound: writes that fail, and crashes

ASSUME ConstantAssumption ==
    /\ NoTimer \notin Timers
    /\ "grace" \notin Workers
    /\ MaxFaults \in Nat

VARIABLES
    status,     \* drivers.status
    owes,       \* commission_due is above MAX_COMMISSION_DUE
    isOnline,   \* drivers.is_online
    open,       \* the sockets that are connected
    known,      \* the sockets with client.driverId
    armed,      \* the grace timers that are running
    entry,      \* graceTimers.get(driverId)
    task,       \* the handler each worker is running
    faults

\* A handler runs for a request, for a message or for the timer: a grace period
\* is longer than setOffline, so that one handler is enough for the timers.
Handlers == Workers \cup {"grace"}

vars == <<status, owes, isOnline, open, known, armed, entry, task, faults>>

Idle == [pc |-> "idle"]
FindDriver(s) == [pc |-> "findDriver", socket |-> s]
Write(online) == [pc |-> "write", online |-> online]
Toggle(online) == [pc |-> "toggle", online |-> online]
Task == {Idle} \cup {FindDriver(s) : s \in Sockets}
        \cup {Write(b) : b \in BOOLEAN} \cup {Toggle(b) : b \in BOOLEAN}

TypeOK ==
    /\ status \in {"pending_validation", "validated", "suspended"}
    /\ owes \in BOOLEAN /\ isOnline \in BOOLEAN
    /\ open \subseteq Sockets /\ known \subseteq Sockets
    /\ armed \subseteq Timers /\ entry \in Timers \cup {NoTimer}
    /\ task \in [Handlers -> Task]
    /\ faults \in 0..MaxFaults

\* DriversService.register
Init ==
    /\ status = "pending_validation"
    /\ owes = FALSE /\ isOnline = FALSE
    /\ open = {} /\ known = {}
    /\ armed = {} /\ entry = NoTimer
    /\ task = [w \in Handlers |-> Idle]
    /\ faults = 0

Starts(w, k) == task[w] = Idle /\ task' = [task EXCEPT ![w] = k]
Ends(w) == task' = [task EXCEPT ![w] = Idle]

\* cancelGracePeriod: clearTimeout and delete, if the driver has an entry.
KeepGracePeriod == UNCHANGED <<armed, entry>>
CancelGracePeriod == armed' = armed \ {entry} /\ entry' = NoTimer

\* scheduleGracePeriod, which cancels first.
SetTimeoutOnly ==
    \E t \in Timers \ armed : armed' = armed \cup {t} /\ entry' = t
ScheduleGracePeriod ==
    \E t \in Timers \ armed : armed' = (armed \ {entry}) \cup {t} /\ entry' = t

------------------------------------------------------------------------------
(***************************************************************************)
(* Connections.                                                            *)
(***************************************************************************)

\* handleConnection, up to the driver's lookup.
HandleConnection(w, s) ==
    /\ s \notin open
    /\ \A v \in Handlers : task[v] # FindDriver(s)
    /\ open' = open \cup {s} /\ known' = known \ {s}
    /\ Starts(w, FindDriver(s))
    /\ UNCHANGED <<status, owes, isOnline, armed, entry, faults>>

\* The lookup returns; the socket may have closed meanwhile.
Identify(w, s) ==
    /\ task[w] = FindDriver(s)
    /\ known' = known \cup {s}
    /\ CancelGracePeriod
    /\ task' = [task EXCEPT ![w] = Write(TRUE)]
    /\ UNCHANGED <<status, owes, isOnline, open, faults>>

HandleDisconnect(s) ==
    /\ s \in open
    /\ open' = open \ {s}
    /\ IF s \in known THEN ScheduleGracePeriod ELSE UNCHANGED <<armed, entry>>
    /\ UNCHANGED <<status, owes, isOnline, known, task, faults>>

\* The timer's callback: it deletes the driver's entry, then setOffline.
GraceEnds(t) ==
    /\ t \in armed
    /\ armed' = armed \ {t} /\ entry' = NoTimer
    /\ Starts("grace", Write(FALSE))
    /\ UNCHANGED <<status, owes, isOnline, open, known, faults>>

\* setOnline, setOffline: what they write, and an error is only logged.
Unsynced(b) == isOnline
Synced(b) == b
SyncOnline(w) ==
    /\ task[w].pc = "write"
    /\ \/ isOnline' = Synced(task[w].online) /\ UNCHANGED faults
       \/ faults < MaxFaults /\ faults' = faults + 1 /\ UNCHANGED isOnline
    /\ Ends(w)
    /\ UNCHANGED <<status, owes, open, known, armed, entry>>

\* driver:join_room and driver:online; driver:offline; driver:rejoin_room
DriverOnline(w, s) ==
    /\ s \in open
    /\ Starts(w, Write(TRUE))
    /\ UNCHANGED <<status, owes, isOnline, open, known, armed, entry, faults>>

DriverOffline(w, s) ==
    /\ s \in open
    /\ Starts(w, Write(FALSE))
    /\ UNCHANGED <<status, owes, isOnline, open, known, armed, entry, faults>>

DriverRejoinRoom(w, s) ==
    /\ s \in open
    /\ CancelGracePeriod
    /\ Starts(w, Write(TRUE))
    /\ UNCHANGED <<status, owes, isOnline, open, known, faults>>

------------------------------------------------------------------------------
(***************************************************************************)
(* The driver's switch, the administration and the commission.             *)
(***************************************************************************)
UpdateOnlineStatus(w, online) ==
    /\ status = "validated"
    /\ ~(online /\ owes)
    /\ Starts(w, Toggle(online))
    /\ UNCHANGED <<status, owes, isOnline, open, known, armed, entry, faults>>

WriteOnlineStatus(w) ==
    /\ task[w].pc = "toggle"
    /\ isOnline' = task[w].online
    /\ Ends(w)
    /\ UNCHANGED <<status, owes, open, known, armed, entry, faults>>

Validate ==
    /\ status' = "validated"
    /\ UNCHANGED <<owes, isOnline, open, known, armed, entry, task, faults>>

Suspend ==
    /\ status' = "suspended"
    /\ isOnline' = FALSE
    /\ UNCHANGED <<owes, open, known, armed, entry, task, faults>>

\* A completed trip or a payment takes commission_due across the threshold.
CommissionDue ==
    /\ owes' = ~owes
    /\ UNCHANGED <<status, isOnline, open, known, armed, entry, task, faults>>

\* The process dies with its sockets, timers and handlers.
Crash ==
    /\ faults < MaxFaults /\ faults' = faults + 1
    /\ open' = {} /\ known' = {}
    /\ armed' = {} /\ entry' = NoTimer
    /\ task' = [w \in Handlers |-> Idle]
    /\ UNCHANGED <<status, owes, isOnline>>

------------------------------------------------------------------------------
Step(w) ==
    \/ \E s \in Sockets : Identify(w, s)
    \/ SyncOnline(w) \/ WriteOnlineStatus(w)

Call(w) ==
    \/ \E s \in Sockets : \/ HandleConnection(w, s) \/ DriverOnline(w, s)
                          \/ DriverOffline(w, s) \/ DriverRejoinRoom(w, s)
    \/ \E b \in BOOLEAN : UpdateOnlineStatus(w, b)

Timeout == \E t \in Timers : GraceEnds(t)

Next ==
    \/ \E w \in Handlers : Step(w)
    \/ \E w \in Workers : Call(w)
    \/ Timeout
    \/ \E s \in Sockets : HandleDisconnect(s)
    \/ Validate \/ Suspend \/ CommissionDue \/ Crash

Spec == Init /\ [][Next]_vars

\* Node runs every handler that can go on, and a timer that is due.
FairSpec == Spec /\ (\A w \in Handlers : WF_vars(Step(w))) /\ WF_vars(Timeout)

------------------------------------------------------------------------------
(***************************************************************************)
(* Properties.                                                             *)
(***************************************************************************)

\* A grace timer that runs is the one that a reconnection cancels: none is
\* forgotten by the map, to put the driver offline later, and none remains in
\* it after it fired (disconnection.handler.ts, graceTimers).
OneTimer == armed = {entry} \ {NoTimer}

\* While all the driver's devices are connected and identified, nobody is about
\* to put the driver offline for being away (connection.handler.ts, 60).
GraceSpares == armed # {} => ~(Sockets \subseteq open \cap known)

\* The flag that the search reads follows the connections: a driver who has left
\* is taken out of the search, unless back or about to be identified, and one who
\* is identified is found again (presence.service.ts, setOffline and setOnline).
Returning == open # {} \/ \E w \in Workers, s \in Sockets : task[w] = FindDriver(s)
GoneIsOffline ==
    entry # NoTimer /\ ~Returning ~> ~isOnline \/ Returning \/ faults > 0
BackIsOnline ==
    \A w \in Workers, s \in Sockets :
        task[w] = FindDriver(s) ~> isOnline \/ faults > 0
PresenceFollows == GoneIsOffline /\ BackIsOnline

==============================================================================
