------------------------ MODULE DriverPresenceProofs ------------------------
(***************************************************************************)
(* The grace timers of a driver, for any number of devices, of handlers    *)
(* and of timer handles.                                                   *)
(***************************************************************************)
EXTENDS DriverPresence, TLAPS

\* The types, that the map knows every running timer, and that no timer runs
\* while all devices are back.  Cancelling empties `armed` because the map knows
\* the only timer: that is why the last property needs the one before.
IInv == TypeOK /\ OneTimer /\ GraceSpares

\* What a handler may be replaced by: a new one, or none.
LEMMA TaskType ==
  ASSUME TypeOK, NEW w \in Handlers, NEW k \in Task
  PROVE  [task EXCEPT ![w] = k] \in [Handlers -> Task]
  BY DEF TypeOK

\* The tasks that the actions start.
LEMMA Tasks ==
  /\ Idle \in Task
  /\ \A s \in Sockets : FindDriver(s) \in Task
  /\ \A b \in BOOLEAN : Write(b) \in Task /\ Toggle(b) \in Task
  BY DEF Task

\* A write's flag is a boolean.
LEMMA WritesBoolean ==
  ASSUME TypeOK, NEW w \in Handlers, task[w].pc \in {"write", "toggle"}
  PROVE  task[w].online \in BOOLEAN
  BY DEF TypeOK, Task, Idle, FindDriver, Write, Toggle

\* A driver starts with no device and no timer.
LEMMA InitInv == Init => IInv
  <1> SUFFICES ASSUME Init PROVE IInv
    OBVIOUS
  <1>1. TypeOK
    <2>1. 0 \in 0..MaxFaults
      BY ConstantAssumption DEF ConstantAssumption
    <2> QED
      BY <2>1, Tasks DEF Init, TypeOK
  <1>2. OneTimer /\ GraceSpares
    BY DEF Init, OneTimer, GraceSpares
  <1> QED
    BY <1>1, <1>2 DEF IInv

\* Connections and disconnections, identification included.
LEMMA SocketKept ==
  ASSUME IInv, NEW s \in Sockets,
         \/ \E w \in Workers : HandleConnection(w, s) \/ DriverRejoinRoom(w, s)
         \/ \E w \in Handlers : Identify(w, s)
         \/ HandleDisconnect(s)
  PROVE  IInv'
  <1> USE DEF IInv, TypeOK, OneTimer, GraceSpares
  <1>1. ASSUME NEW w \in Workers, HandleConnection(w, s) PROVE IInv'
    <2>1. task' \in [Handlers -> Task]
      BY <1>1, TaskType, Tasks DEF HandleConnection, Starts, Handlers
    <2> QED
      BY <1>1, <2>1 DEF HandleConnection
  <1>2. ASSUME NEW w \in Workers, DriverRejoinRoom(w, s) PROVE IInv'
    <2>1. task' \in [Handlers -> Task]
      BY <1>2, TaskType, Tasks DEF DriverRejoinRoom, Starts, Handlers
    <2>2. armed' = {} /\ entry' = NoTimer
      BY <1>2 DEF DriverRejoinRoom, CancelGracePeriod
    <2> QED
      BY <1>2, <2>1, <2>2 DEF DriverRejoinRoom
  <1>3. ASSUME NEW w \in Handlers, Identify(w, s) PROVE IInv'
    <2>1. task' \in [Handlers -> Task]
      BY <1>3, TaskType, Tasks DEF Identify
    <2>2. armed' = {} /\ entry' = NoTimer
      BY <1>3 DEF Identify, CancelGracePeriod
    <2> QED
      BY <1>3, <2>1, <2>2 DEF Identify
  <1>4. CASE HandleDisconnect(s)
    <2>1. CASE s \in known
      <3>1. PICK t \in Timers : armed' = {t} /\ entry' = t
        BY <1>4, <2>1 DEF HandleDisconnect, ScheduleGracePeriod
      <3> QED
        BY <1>4, <3>1, ConstantAssumption DEF HandleDisconnect, ConstantAssumption
    <2>2. CASE s \notin known
      BY <1>4, <2>2 DEF HandleDisconnect
    <2> QED
      BY <2>1, <2>2
  <1> QED
    BY <1>1, <1>2, <1>3, <1>4

\* Steps that touch neither the sockets nor the timers.
LEMMA FlagKept ==
  ASSUME IInv, UNCHANGED <<open, known, armed, entry>>,
         status' \in {"pending_validation", "validated", "suspended"},
         owes' \in BOOLEAN, isOnline' \in BOOLEAN,
         task' \in [Handlers -> Task], faults' \in 0..MaxFaults
  PROVE  IInv'
  BY DEF IInv, TypeOK, OneTimer, GraceSpares

\* The messages and requests that only start a write, and the writes.
LEMMA WriteKept ==
  ASSUME IInv, NEW w \in Handlers,
         \/ \E s \in Sockets : DriverOnline(w, s) \/ DriverOffline(w, s)
         \/ \E b \in BOOLEAN : UpdateOnlineStatus(w, b)
         \/ SyncOnline(w) \/ WriteOnlineStatus(w)
  PROVE  IInv'
  <1>1. TypeOK
    BY DEF IInv
  <1>2. ASSUME NEW s \in Sockets, DriverOnline(w, s) \/ DriverOffline(w, s) PROVE IInv'
    <2>1. task' \in [Handlers -> Task]
      BY <1>1, <1>2, TaskType, Tasks DEF DriverOnline, DriverOffline, Starts
    <2> QED
      BY <1>1, <1>2, <2>1, FlagKept DEF DriverOnline, DriverOffline, TypeOK
  <1>3. ASSUME NEW b \in BOOLEAN, UpdateOnlineStatus(w, b) PROVE IInv'
    <2>1. task' \in [Handlers -> Task]
      BY <1>1, <1>3, TaskType, Tasks DEF UpdateOnlineStatus, Starts
    <2> QED
      BY <1>1, <1>3, <2>1, FlagKept DEF UpdateOnlineStatus, TypeOK
  <1>4. CASE SyncOnline(w)
    <2>1. task' \in [Handlers -> Task]
      BY <1>1, <1>4, TaskType, Tasks DEF SyncOnline, Ends
    <2>2. isOnline' \in BOOLEAN
      BY <1>1, <1>4, WritesBoolean DEF SyncOnline, Synced, TypeOK
    <2>3. faults' \in 0..MaxFaults
      BY <1>1, <1>4, ConstantAssumption DEF SyncOnline, TypeOK, ConstantAssumption
    <2> QED
      BY <1>1, <1>4, <2>1, <2>2, <2>3, FlagKept DEF SyncOnline, TypeOK
  <1>5. CASE WriteOnlineStatus(w)
    <2>1. task' \in [Handlers -> Task]
      BY <1>1, <1>5, TaskType, Tasks DEF WriteOnlineStatus, Ends
    <2>2. isOnline' \in BOOLEAN
      BY <1>1, <1>5, WritesBoolean DEF WriteOnlineStatus
    <2> QED
      BY <1>1, <1>5, <2>1, <2>2, FlagKept DEF WriteOnlineStatus, TypeOK
  <1> QED
    BY <1>2, <1>3, <1>4, <1>5

\* A timer that fires takes itself out of the map.
LEMMA GraceEndsKept ==
  ASSUME IInv, NEW t \in Timers, GraceEnds(t)
  PROVE  IInv'
  <1>1. task' \in [Handlers -> Task]
    BY TaskType, Tasks DEF GraceEnds, Starts, Handlers, IInv
  <1>2. armed' = {} /\ entry' = NoTimer
    BY DEF GraceEnds, IInv, OneTimer
  <1> QED
    BY <1>1, <1>2 DEF GraceEnds, IInv, TypeOK, OneTimer, GraceSpares

\* Every step keeps the invariant.
LEMMA NextKept == IInv /\ [Next]_vars => IInv'
  <1> SUFFICES ASSUME IInv, [Next]_vars PROVE IInv'
    OBVIOUS
  <1>1. ASSUME NEW w \in Handlers, Step(w) PROVE IInv'
    BY <1>1, SocketKept, WriteKept DEF Step
  <1>2. ASSUME NEW w \in Workers, Call(w) PROVE IInv'
    <2>1. w \in Handlers
      BY DEF Handlers
    <2>2. ASSUME NEW s \in Sockets, HandleConnection(w, s) \/ DriverRejoinRoom(w, s)
          PROVE  IInv'
      BY <2>2, SocketKept
    <2>3. ASSUME NEW s \in Sockets, DriverOnline(w, s) \/ DriverOffline(w, s)
          PROVE  IInv'
      BY <2>1, <2>3, WriteKept
    <2>4. ASSUME NEW b \in BOOLEAN, UpdateOnlineStatus(w, b) PROVE IInv'
      BY <2>1, <2>4, WriteKept
    <2> QED
      BY <1>2, <2>2, <2>3, <2>4 DEF Call
  <1>3. CASE Timeout
    BY <1>3, GraceEndsKept DEF Timeout
  <1>4. ASSUME NEW s \in Sockets, HandleDisconnect(s) PROVE IInv'
    BY <1>4, SocketKept
  <1>5. CASE Validate \/ Suspend \/ CommissionDue
    BY <1>5, FlagKept DEF Validate, Suspend, CommissionDue, IInv, TypeOK
  <1>6. CASE Crash
    <2>1. task' \in [Handlers -> Task]
      BY <1>6, Tasks DEF Crash
    <2>2. faults' \in 0..MaxFaults
      BY <1>6, ConstantAssumption DEF Crash, IInv, TypeOK, ConstantAssumption
    <2> QED
      BY <1>6, <2>1, <2>2 DEF Crash, IInv, TypeOK, OneTimer, GraceSpares
  <1>7. CASE UNCHANGED vars
    BY <1>7 DEF vars, IInv, TypeOK, OneTimer, GraceSpares
  <1> QED
    BY <1>1, <1>2, <1>3, <1>4, <1>5, <1>6, <1>7 DEF Next

\* The inductive invariant holds in every behaviour of presence.
THEOREM Invariance == Spec => []IInv
  BY InitInv, NextKept, PTL DEF Spec

\* A running grace timer is always the one that a reconnection cancels
\* (disconnection.handler.ts, graceTimers).
THEOREM NoTimerForgotten == Spec => []OneTimer
  <1>1. IInv => OneTimer
    BY DEF IInv
  <1> QED
    BY Invariance, <1>1, PTL

\* With all devices connected and identified, no timer runs
\* (connection.handler.ts, cancelGracePeriod before setOnline).
THEOREM NoTimerWhenBack == Spec => []GraceSpares
  <1>1. IInv => GraceSpares
    BY DEF IInv
  <1> QED
    BY Invariance, <1>1, PTL

==============================================================================
