------------------------- MODULE TripDispatchProofs -------------------------
(***************************************************************************)
(* TripDispatch, for every set of trips, drivers and slots: IInv is an     *)
(* inductive invariant, SettledIsFinal and DriverStays follow from it, and *)
(* TripDispatch implements TripLedger.                                     *)
(*                                                                         *)
(* Most actions are one step of one handler that leaves the table `trips`  *)
(* alone.  HandlerStep says what such a step may do; one lemma per action  *)
(* shows that the action is one, and the invariant and the two action      *)
(* properties are shown once for all of them.  The five actions that write *)
(* to `trips`, the sweeps' start, time and the crash are treated on their  *)
(* own.                                                                    *)
(***************************************************************************)
EXTENDS TripDispatch, TLAPS

------------------------------------------------------------------------------
(***************************************************************************)
(* The records that tasks are.                                             *)
(***************************************************************************)
\* The idle record is a task.
LEMMA IdleType == Idle \in Task
  BY DEF Idle, Task, Ops, Pcs, TripStatus

\* The step of a worker changes no other worker's task.
Only(w) == /\ task' \in [Workers -> Task]
           /\ \A v \in Workers \ {w} : task'[v] = task[v]

\* The worker keeps everything but its place, its list and its flag.
Keeps(w) == /\ task'[w].op = task[w].op /\ task'[w].trip = task[w].trip
            /\ task'[w].driver = task[w].driver /\ task'[w].to = task[w].to
            /\ task'[w].queue = task[w].queue

\* Becomes changes the task of one worker.
LEMMA BecomesType ==
  ASSUME TypeOK, NEW w \in Workers, NEW k \in Task, Becomes(w, k)
  PROVE  Only(w) /\ task'[w] = k
  BY DEF Becomes, TypeOK, Only

\* A handler that moves on.
LEMMA GotoType ==
  ASSUME TypeOK, NEW w \in Workers, NEW pc \in Pcs, Goto(w, pc)
  PROVE  Only(w) /\ Keeps(w) /\ task'[w].pc = pc
  <1>1. task[w] \in Task
    BY DEF TypeOK
  <1>2. PICK k : k = [task[w] EXCEPT !.pc = pc]
    OBVIOUS
  <1>3. /\ k \in Task /\ k.pc = pc /\ k.op = task[w].op /\ k.trip = task[w].trip
        /\ k.driver = task[w].driver /\ k.to = task[w].to
        /\ k.queue = task[w].queue
    BY <1>1, <1>2 DEF Task
  <1>4. Becomes(w, k)
    BY <1>2 DEF Goto, Becomes
  <1>. QED
    BY <1>3, <1>4, BecomesType DEF Keeps

\* A handler that starts.
LEMMA StartType ==
  ASSUME TypeOK, NEW w \in Workers, NEW op \in Ops, NEW pc \in Pcs,
         NEW t \in Trips, NEW d \in Drivers \cup {NoDriver}, NEW to \in TripStatus,
         Becomes(w, Start(op, pc, t, d, to))
  PROVE  /\ Only(w)
         /\ task'[w].op = op /\ task'[w].pc = pc /\ task'[w].trip = t
         /\ task'[w].driver = d /\ task'[w].to = to
  <1>1. PICK k : k = Start(op, pc, t, d, to)
    OBVIOUS
  <1>2. /\ k \in Task
        /\ k.op = op /\ k.pc = pc /\ k.trip = t /\ k.driver = d /\ k.to = to
    BY <1>1 DEF Start, Idle, Task
  <1>3. Becomes(w, k)
    BY <1>1 DEF Becomes
  <1>. QED
    BY <1>2, <1>3, BecomesType

\* A handler that ends: the sweeps go on, the others are done.
LEMMA ReturnType ==
  ASSUME TypeOK, NEW w \in Workers, Return(w)
  PROVE  /\ Only(w)
         /\ \/ /\ task[w].op \in {"run", "stale"} /\ task'[w].pc = "next" /\ Keeps(w)
            \/ task'[w] = Idle
  <1>1. CASE task[w].op \in {"run", "stale"}
    <2>1. Goto(w, "next")
      BY <1>1 DEF Return, Goto, Becomes
    <2>. QED
      BY <1>1, <2>1, GotoType DEF Pcs
  <1>2. CASE task[w].op \notin {"run", "stale"}
    <2>1. Becomes(w, Idle)
      BY <1>2 DEF Return, Becomes
    <2>. QED
      BY <2>1, IdleType, BecomesType
  <1>. QED
    BY <1>1, <1>2

------------------------------------------------------------------------------
(***************************************************************************)
(* Steps of a handler.                                                     *)
(***************************************************************************)
\* What the step may do to the tables, to Redis and to the events: `trips` and
\* time stay, no attempt row disappears, the step that leaves "upsert" has
\* made the row, and DriverAssigned is emitted by an acceptance only.
Frame(w) ==
    /\ UNCHANGED <<status, driver, reason, age, idle, crashes>>
    /\ newest' \in [Drivers -> Trips \cup {NoTrip}]
    /\ attempt' \in [Trips -> [Drivers -> AttemptStatus]]
    /\ \A t \in Trips, d \in Drivers :
          attempt[t][d] # "none" => attempt'[t][d] # "none"
    /\ lock' \in [Drivers -> Trips \cup {NoTrip}]
    /\ timer' \in [Trips -> [Drivers -> TimerState]]
    /\ rounds' \in [Trips -> 0..MaxRounds]
    /\ events' \subseteq EventSet
    /\ \A t \in Trips, d \in Drivers :
          Assigned(t, d) \in events' =>
             \/ Assigned(t, d) \in events
             \/ /\ task[w].op = "accept" /\ task[w].trip = t
                /\ task[w].driver = d /\ attempt'[t][d] # "none"
    /\ task[w].pc = "upsert" =>
          attempt'[task[w].trip][task[w].driver] # "none"

\* A lock is kept, freed, or taken for a trip the driver was or will be offered.
LocksOK(w) ==
    \A d \in Drivers :
        \/ lock'[d] = lock[d]
        \/ lock'[d] = NoTrip
        \/ attempt'[lock'[d]][d] # "none"
        \/ /\ task'[w].pc = "upsert"
           /\ task'[w].trip = lock'[d] /\ task'[w].driver = d

\* What the step may make of the handler: it stays consistent with what it has
\* checked, and it starts to write a trip's status only if the status allows.
Becoming(w) ==
    /\ Only(w)
    /\ HandlerOK(task[w])'
    /\ task'[w].op \in {"accept", "move", "cancel"} =>
          \/ /\ task'[w].op = task[w].op /\ task'[w].trip = task[w].trip
             /\ task'[w].to = task[w].to /\ task'[w].driver = task[w].driver
          \/ /\ task'[w].trip \in Trips
             /\ canTransition(status[task'[w].trip], task'[w].to)
             /\ status[task'[w].trip] \in TripStatus \ Terminal
             /\ task'[w].op = "accept" => status[task'[w].trip] = "pending"
    /\ task'[w].op = "stale" =>
          task[w].op = "stale" /\ task'[w].queue \subseteq task[w].queue

HandlerStep(w) == Frame(w) /\ Becoming(w) /\ LocksOK(w)

\* Locks are only freed.
Frees == \A d \in Drivers : lock'[d] \in {lock[d], NoTrip}

\* A handler that returns is consistent and starts no write.
LEMMA ReturnBecoming ==
  ASSUME IInv, NEW w \in Workers, Return(w)
  PROVE  Becoming(w)
  <1>1. Only(w)
    BY ReturnType DEF IInv
  <1>2. CASE task'[w] = Idle
    <2>1. HandlerOK(task[w])'
      BY <1>2 DEF HandlerOK, AcceptPcs, OfferPcs, Idle
    <2>. QED
      BY <1>1, <1>2, <2>1 DEF Becoming, Idle
  <1>3. CASE task[w].op \in {"run", "stale"} /\ task'[w].pc = "next" /\ Keeps(w)
    <2>1. HandlerOK(task[w])'
      BY <1>3 DEF HandlerOK, AcceptPcs, OfferPcs, Keeps
    <2>. QED
      BY <1>1, <1>3, <2>1 DEF Becoming, Keeps
  <1>. QED
    BY <1>2, <1>3, ReturnType DEF IInv

\* A handler that returns, having freed locks at most, makes a step.
LEMMA ReturnStep ==
  ASSUME IInv, NEW w \in Workers, Return(w), Frame(w), Frees
  PROVE  HandlerStep(w)
  BY ReturnBecoming DEF HandlerStep, LocksOK, Frees

\* A handler that moves on, having freed locks at most, makes a step.
LEMMA KeepsStep ==
  ASSUME IInv, NEW w \in Workers, Only(w), Keeps(w), Frame(w), Frees,
         HandlerOK(task[w])'
  PROVE  HandlerStep(w)
  BY DEF HandlerStep, Becoming, LocksOK, Frees, Keeps

\* A handler that starts makes a step.
LEMMA StartStep ==
  ASSUME IInv, NEW w \in Workers, Only(w), Frame(w), Frees, HandlerOK(task[w])',
         task'[w].op \in {"accept", "move", "cancel"} =>
             /\ task'[w].trip \in Trips
             /\ canTransition(status[task'[w].trip], task'[w].to)
             /\ status[task'[w].trip] \in TripStatus \ Terminal
             /\ task'[w].op = "accept" => status[task'[w].trip] = "pending",
         task'[w].op # "stale"
  PROVE  HandlerStep(w)
  BY DEF HandlerStep, Becoming, LocksOK, Frees

------------------------------------------------------------------------------
(***************************************************************************)
(* The actions that are steps of a handler.                                *)
(***************************************************************************)
\* A handler in progress has a trip, and is consistent with what it checked.
LEMMA InHandler ==
  ASSUME IInv, NEW w \in Workers
  PROVE  /\ task[w] \in Task /\ HandlerOK(task[w])
         /\ task[w].pc \notin {"idle", "boot", "next"} => task[w].trip \in Trips
         /\ task[w].pc \in AcceptPcs \cup OfferPcs => task[w].driver \in Drivers
  <1>1. task[w] \in Task /\ HandlerOK(task[w])
    BY DEF IInv, TypeOK, HandlersOK
  <1>. QED
    BY <1>1 DEF HandlerOK

\* The handlers that only read.
LEMMA QuietFrame ==
  ASSUME IInv, NEW w \in Workers, UNCHANGED <<db, time, redis, events, crashes>>,
         task[w].pc # "upsert"
  PROVE  Frame(w) /\ Frees
  BY DEF IInv, TypeOK, Frame, Frees, db, time, redis

\* Places that ask nothing of a handler but its trip, and its driver.
Plain == Pcs \ ({"idle", "boot", "next", "write", "releaseFind", "release",
                 "rearmLock"} \cup AcceptPcs)

\* A handler that moves between such places needs no fact but its trip.
LEMMA PlainOK ==
  ASSUME IInv, NEW w \in Workers, Keeps(w), Frame(w),
         task[w].pc \in Plain, task'[w].pc \in Plain,
         task'[w].pc \in OfferPcs => task[w].pc \in OfferPcs
  PROVE  HandlerOK(task[w])'
  <1>1. task[w].trip \in Trips /\ HandlerOK(task[w])
    BY InHandler DEF Plain
  <1>. QED
    BY <1>1 DEF HandlerOK, Plain, AcceptPcs, OfferPcs, Keeps, Frame, Pcs

\* Moving between such places is a step of the handler.
LEMMA PlainGoto ==
  ASSUME IInv, NEW w \in Workers, NEW pc \in Plain, Goto(w, pc), Frame(w), Frees,
         task[w].pc \in Plain, pc \in OfferPcs => task[w].pc \in OfferPcs
  PROVE  HandlerStep(w)
  <1>1. Only(w) /\ Keeps(w) /\ task'[w].pc = pc
    BY GotoType DEF IInv, Plain
  <1>2. HandlerOK(task[w])'
    BY <1>1, PlainOK
  <1>. QED
    BY <1>1, <1>2, KeepsStep

\* createTrip writes no status after its insert.
LEMMA CreateDetailsStep ==
  ASSUME IInv, NEW w \in Workers, CreateDetails(w)
  PROVE  HandlerStep(w)
  <1>1. task[w].trip \in Trips /\ task[w].pc # "upsert"
    BY InHandler DEF CreateDetails, At
  <1>2. /\ events' \subseteq EventSet
        /\ \A t \in Trips, d \in Drivers :
              Assigned(t, d) \in events' => Assigned(t, d) \in events
    BY <1>1 DEF CreateDetails, IInv, TypeOK, EventSet, Created, Assigned
  <1>3. Frame(w) /\ Frees
    BY <1>1, <1>2 DEF CreateDetails, IInv, TypeOK, Frame, Frees, db, time, redis
  <1>. QED
    BY <1>3, ReturnStep DEF CreateDetails

\* A listener that starts takes its event away.
LEMMA HandleTripCreatedStep ==
  ASSUME IInv, NEW w \in Workers, NEW t \in Trips, HandleTripCreated(w, t)
  PROVE  HandlerStep(w)
  <1>1. Frame(w) /\ Frees
    BY DEF HandleTripCreated, At, IInv, TypeOK, Frame, Frees, db, time, redis
  <1>0. "dispatch" \in Ops /\ "rounds" \in Pcs /\ "pending" \in TripStatus
    BY DEF Ops, Pcs, TripStatus
  <1>2. /\ Only(w) /\ task'[w].op = "dispatch" /\ task'[w].pc = "rounds"
        /\ task'[w].trip = t
    BY <1>0, StartType DEF HandleTripCreated, IInv
  <1>3. HandlerOK(task[w])'
    BY <1>2 DEF HandlerOK, AcceptPcs, OfferPcs
  <1>. QED
    BY <1>1, <1>2, <1>3, StartStep

\* Giving up emits DispatchFailed, and no DriverAssigned.
LEMMA EmitFailedType ==
  ASSUME IInv, NEW t \in Trips, EmitDispatchFailed(t)
  PROVE  /\ rounds' \in [Trips -> 0..MaxRounds]
         /\ events' \subseteq EventSet
         /\ \A u \in Trips, d \in Drivers :
               Assigned(u, d) \in events' => Assigned(u, d) \in events
  <1>1. rounds' \in [Trips -> 0..MaxRounds]
    BY ConstantAssumption DEF EmitDispatchFailed, IInv, TypeOK
  <1>2. Failed(t) \in EventSet
    BY DEF Failed, EventSet
  <1>3. \A u \in Trips, d \in Drivers : Assigned(u, d) # Failed(t)
    BY DEF Assigned, Failed
  <1>. QED
    BY <1>1, <1>2, <1>3 DEF EmitDispatchFailed, IInv, TypeOK

\* attemptDispatch, the INCR: the count stays in its bounds.
LEMMA CountRoundStep ==
  ASSUME IInv, NEW w \in Workers, CountRound(w)
  PROVE  HandlerStep(w)
  <1>1. task[w] \in Task /\ task[w].trip \in Trips /\ task[w].pc = "rounds"
    BY InHandler DEF CountRound, At
  <1>2. rounds' \in [Trips -> 0..MaxRounds]
    BY <1>1, ConstantAssumption DEF CountRound, OneMoreRound, IInv, TypeOK
  <1>3. Frame(w) /\ Frees
    BY <1>1, <1>2 DEF CountRound, IInv, TypeOK, Frame, Frees, db, time
  <1>4. PICK k : k = [task[w] EXCEPT !.pc = "find", !.todo = {}, !.any = FALSE]
    OBVIOUS
  <1>5. "find" \in Pcs
    BY DEF Pcs
  <1>6. /\ k \in Task /\ k.pc = "find" /\ k.op = task[w].op
        /\ k.trip = task[w].trip /\ k.driver = task[w].driver
        /\ k.to = task[w].to /\ k.queue = task[w].queue
    BY <1>1, <1>4, <1>5 DEF Task
  <1>7. Only(w) /\ Keeps(w) /\ task'[w].pc = "find"
    BY <1>4, <1>6, BecomesType DEF CountRound, IInv, Keeps
  <1>8. HandlerOK(task[w])'
    BY <1>1, <1>3, <1>7, PlainOK DEF Plain, Pcs, AcceptPcs, OfferPcs
  <1>. QED
    BY <1>3, <1>7, <1>8, KeepsStep

\* attemptDispatch, the candidates; an empty list emits DispatchFailed.
LEMMA FindNearbyDriversStep ==
  ASSUME IInv, NEW w \in Workers, FindNearbyDrivers(w)
  PROVE  HandlerStep(w)
  <1>1. task[w] \in Task /\ task[w].trip \in Trips /\ task[w].pc = "find"
    BY InHandler DEF FindNearbyDrivers, At
  <1>2. CASE EmitDispatchFailed(task[w].trip) /\ Return(w)
    <2>1. Frame(w) /\ Frees
      BY <1>1, <1>2, EmitFailedType
      DEF FindNearbyDrivers, IInv, TypeOK, Frame, Frees, db, time
    <2>. QED
      BY <1>2, <2>1, ReturnStep
  <1>3. ASSUME NEW candidates \in SUBSET Drivers,
               Becomes(w, [task[w] EXCEPT !.pc = "lock", !.todo = candidates]),
               UNCHANGED <<rounds, events>>
        PROVE  HandlerStep(w)
    <2>1. Frame(w) /\ Frees
      BY <1>1, <1>3
      DEF FindNearbyDrivers, IInv, TypeOK, Frame, Frees, db, time
    <2>2. PICK k : k = [task[w] EXCEPT !.pc = "lock", !.todo = candidates]
      OBVIOUS
    <2>3. "lock" \in Pcs
      BY DEF Pcs
    <2>4. /\ k \in Task /\ k.pc = "lock" /\ k.op = task[w].op
          /\ k.trip = task[w].trip /\ k.driver = task[w].driver
          /\ k.to = task[w].to /\ k.queue = task[w].queue
      BY <1>1, <2>2, <2>3 DEF Task
    <2>5. Only(w) /\ Keeps(w) /\ task'[w].pc = "lock"
      BY <1>3, <2>2, <2>4, BecomesType DEF IInv, Keeps
    <2>6. HandlerOK(task[w])'
      BY <1>1, <2>1, <2>5, PlainOK DEF Plain, Pcs, AcceptPcs, OfferPcs
    <2>. QED
      BY <2>1, <2>5, <2>6, KeepsStep
  <1>. QED
    BY <1>2, <1>3 DEF FindNearbyDrivers

\* The lock that SET NX takes is the one the handler goes on to record.
LEMMA AcquireLockStep ==
  ASSUME IInv, NEW w \in Workers, AcquireLock(w)
  PROVE  HandlerStep(w)
  <1>1. /\ task[w] \in Task /\ task[w].trip \in Trips /\ task[w].pc = "lock"
        /\ HandlerOK(task[w]) /\ task[w].todo \subseteq Drivers
    BY InHandler DEF AcquireLock, At, Task
  <1>2. Frame(w)
    BY <1>1 DEF AcquireLock, IInv, TypeOK, Frame, db, time
  <1>3. ASSUME NEW d \in Drivers, lock' = [lock EXCEPT ![d] = task[w].trip],
               Becomes(w, [task[w] EXCEPT !.pc = "upsert", !.driver = d,
                                          !.todo = @ \ {d}])
        PROVE  HandlerStep(w)
    <2>1. PICK k : k = [task[w] EXCEPT !.pc = "upsert", !.driver = d,
                                       !.todo = @ \ {d}]
      OBVIOUS
    <2>2. "upsert" \in Pcs
      BY DEF Pcs
    <2>3. /\ k \in Task /\ k.pc = "upsert" /\ k.op = task[w].op
          /\ k.trip = task[w].trip /\ k.driver = d /\ k.queue = task[w].queue
      BY <1>1, <2>1, <2>2 DEF Task
    <2>4. Only(w) /\ task'[w] = k
      BY <1>3, <2>1, <2>3, BecomesType DEF IInv
    <2>5. HandlerOK(task[w])'
      BY <1>1, <2>3, <2>4 DEF HandlerOK, AcceptPcs, OfferPcs
    <2>6. LocksOK(w)
      BY <1>3, <2>3, <2>4 DEF LocksOK, IInv, TypeOK
    <2>7. task[w].op \notin {"accept", "move", "cancel"}
      BY <1>1 DEF HandlerOK, AcceptPcs
    <2>. QED
      BY <1>2, <2>3, <2>4, <2>5, <2>6, <2>7 DEF HandlerStep, Becoming
  <1>4. ASSUME NEW d \in Drivers, UNCHANGED lock,
               Becomes(w, [task[w] EXCEPT !.todo = @ \ {d}])
        PROVE  HandlerStep(w)
    <2>1. PICK k : k = [task[w] EXCEPT !.todo = @ \ {d}]
      OBVIOUS
    <2>2. /\ k \in Task /\ k.pc = task[w].pc /\ k.op = task[w].op
          /\ k.trip = task[w].trip /\ k.driver = task[w].driver
          /\ k.to = task[w].to /\ k.queue = task[w].queue
      BY <1>1, <2>1 DEF Task
    <2>3. Only(w) /\ Keeps(w) /\ task'[w].pc = task[w].pc
      BY <1>4, <2>1, <2>2, BecomesType DEF IInv, Keeps
    <2>4. HandlerOK(task[w])'
      BY <1>1, <1>2, <2>3, PlainOK DEF Plain, Pcs, AcceptPcs, OfferPcs
    <2>5. Frees
      BY <1>4 DEF Frees
    <2>. QED
      BY <1>2, <2>3, <2>4, <2>5, KeepsStep
  <1>. QED
    BY <1>1, <1>3, <1>4 DEF AcquireLock

\* attemptDispatch, the upsert: the lock it took now has its offer.
LEMMA UpsertAttemptStep ==
  ASSUME IInv, NEW w \in Workers, UpsertAttempt(w)
  PROVE  HandlerStep(w)
  <1>1. /\ task[w].trip \in Trips /\ task[w].pc = "upsert"
        /\ task[w].driver \in Drivers
    BY InHandler DEF UpsertAttempt, At, OfferPcs
  <1>2. /\ attempt' \in [Trips -> [Drivers -> AttemptStatus]]
        /\ \A t \in Trips, d \in Drivers :
              attempt[t][d] # "none" => attempt'[t][d] # "none"
        /\ attempt'[task[w].trip][task[w].driver] # "none"
    BY <1>1 DEF UpsertAttempt, Upserted, IInv, TypeOK, AttemptStatus
  <1>3. Frame(w) /\ Frees
    BY <1>1, <1>2 DEF UpsertAttempt, IInv, TypeOK, Frame, Frees, redis
  <1>. QED
    BY <1>1, <1>3, PlainGoto DEF UpsertAttempt, Plain, Pcs, AcceptPcs, OfferPcs

\* Setting or deleting a job's key.
LEMMA TimerType ==
  ASSUME TypeOK, NEW t \in Trips, NEW d \in Drivers, NEW state \in TimerState,
         timer' = [timer EXCEPT ![t][d] = state] \/ UNCHANGED timer
  PROVE  timer' \in [Trips -> [Drivers -> TimerState]]
  <1>1. CASE timer' = [timer EXCEPT ![t][d] = state]
    BY <1>1 DEF TypeOK
  <1>. QED
    BY <1>1 DEF TypeOK

\* attemptDispatch, the timeout job of one candidate.
LEMMA ArmTimeoutStep ==
  ASSUME IInv, NEW w \in Workers, ArmTimeout(w)
  PROVE  HandlerStep(w)
  <1>1. /\ task[w] \in Task /\ task[w].trip \in Trips /\ task[w].pc = "arm"
        /\ task[w].driver \in Drivers
    BY InHandler DEF ArmTimeout, At, OfferPcs
  <1>2. timer' \in [Trips -> [Drivers -> TimerState]]
    BY <1>1, TimerType DEF ArmTimeout, IInv, TimerState
  <1>3. Frame(w) /\ Frees
    BY <1>1, <1>2 DEF ArmTimeout, IInv, TypeOK, Frame, Frees, db, time
  <1>4. CASE Return(w)
    BY <1>3, <1>4, ReturnStep
  <1>5. CASE Becomes(w, [task[w] EXCEPT !.pc = "lock", !.any = TRUE])
    <2>1. PICK k : k = [task[w] EXCEPT !.pc = "lock", !.any = TRUE]
      OBVIOUS
    <2>2. "lock" \in Pcs
      BY DEF Pcs
    <2>3. /\ k \in Task /\ k.pc = "lock" /\ k.op = task[w].op
          /\ k.trip = task[w].trip /\ k.driver = task[w].driver
          /\ k.to = task[w].to /\ k.queue = task[w].queue
      BY <1>1, <2>1, <2>2 DEF Task
    <2>4. Only(w) /\ Keeps(w) /\ task'[w].pc = "lock"
      BY <1>5, <2>1, <2>3, BecomesType DEF IInv, Keeps
    <2>5. HandlerOK(task[w])'
      BY <1>1, <1>3, <2>4, PlainOK DEF Plain, Pcs, AcceptPcs, OfferPcs
    <2>. QED
      BY <1>3, <2>4, <2>5, KeepsStep
  <1>. QED
    BY <1>4, <1>5 DEF ArmTimeout

\* attemptDispatch, after the last candidate.
LEMMA EndDispatchStep ==
  ASSUME IInv, NEW w \in Workers, EndDispatch(w)
  PROVE  HandlerStep(w)
  <1>1. task[w].trip \in Trips /\ task[w].pc = "lock"
    BY InHandler DEF EndDispatch, At
  <1>2. /\ rounds' \in [Trips -> 0..MaxRounds]
        /\ events' \subseteq EventSet
        /\ \A t \in Trips, d \in Drivers :
              Assigned(t, d) \in events' => Assigned(t, d) \in events
    BY <1>1, EmitFailedType DEF EndDispatch, IInv, TypeOK
  <1>3. Frame(w) /\ Frees
    BY <1>1, <1>2 DEF EndDispatch, IInv, TypeOK, Frame, Frees, db, time
  <1>. QED
    BY <1>3, ReturnStep DEF EndDispatch

\* Answering an attempt, in whatever way, never removes its row.
LEMMA RespondType ==
  ASSUME IInv, NEW t \in Trips, NEW d \in Drivers,
         NEW new \in AttemptStatus \ {"none"}, Respond(t, d, new)
  PROVE  /\ attempt' \in [Trips -> [Drivers -> AttemptStatus]]
         /\ \A u \in Trips, e \in Drivers :
               attempt[u][e] # "none" => attempt'[u][e] # "none"
  BY DEF Respond, IInv, TypeOK

\* The timeout worker takes a job.
LEMMA FireTimeoutStep ==
  ASSUME IInv, NEW w \in Workers, NEW t \in Trips, NEW d \in Drivers,
         FireTimeout(w, t, d)
  PROVE  HandlerStep(w)
  <1>1. timer' \in [Trips -> [Drivers -> TimerState]]
    BY TimerType DEF FireTimeout, IInv, TimerState
  <1>2. Frame(w) /\ Frees
    BY <1>1 DEF FireTimeout, At, IInv, TypeOK, Frame, Frees, db, time
  <1>3. "timeout" \in Ops /\ "expire" \in Pcs /\ "pending" \in TripStatus
    BY DEF Ops, Pcs, TripStatus
  <1>4. /\ Only(w) /\ task'[w].op = "timeout" /\ task'[w].pc = "expire"
        /\ task'[w].trip = t /\ task'[w].driver = d
    BY <1>3, StartType DEF FireTimeout, IInv
  <1>5. HandlerOK(task[w])'
    BY <1>4 DEF HandlerOK, AcceptPcs, OfferPcs
  <1>. QED
    BY <1>2, <1>4, <1>5, StartStep

\* handleDriverTimeout, the attempt.
LEMMA ExpireAttemptStep ==
  ASSUME IInv, NEW w \in Workers, ExpireAttempt(w)
  PROVE  HandlerStep(w)
  <1>1. /\ task[w].trip \in Trips /\ task[w].pc = "expire"
        /\ task[w].driver \in Drivers
    BY InHandler DEF ExpireAttempt, At, OfferPcs
  <1>2. /\ attempt' \in [Trips -> [Drivers -> AttemptStatus]]
        /\ \A t \in Trips, d \in Drivers :
              attempt[t][d] # "none" => attempt'[t][d] # "none"
    BY <1>1, RespondType DEF ExpireAttempt, AttemptStatus
  <1>3. Frame(w) /\ Frees
    BY <1>1, <1>2 DEF ExpireAttempt, IInv, TypeOK, Frame, Frees, time, redis
  <1>. QED
    BY <1>1, <1>3, PlainGoto DEF ExpireAttempt, Plain, Pcs, AcceptPcs, OfferPcs

\* handleDriverTimeout, the keys.
LEMMA FreeExpiredStep ==
  ASSUME IInv, NEW w \in Workers, FreeExpired(w)
  PROVE  HandlerStep(w)
  <1>1. /\ task[w].trip \in Trips /\ task[w].pc = "freeExpired"
        /\ task[w].driver \in Drivers
    BY InHandler DEF FreeExpired, At, OfferPcs
  <1>2. timer' \in [Trips -> [Drivers -> TimerState]]
    BY <1>1, TimerType DEF FreeExpired, IInv, TimerState
  <1>3. Frame(w) /\ Frees
    BY <1>1, <1>2 DEF FreeExpired, IInv, TypeOK, Frame, Frees, db, time
  <1>. QED
    BY <1>1, <1>3, PlainGoto DEF FreeExpired, Plain, Pcs, AcceptPcs, OfferPcs

\* declineTrip and the WebSocket decline, the check.
LEMMA DeclineTripStep ==
  ASSUME IInv, NEW w \in Workers, NEW t \in Trips, NEW d \in Drivers,
         DeclineTrip(w, t, d)
  PROVE  HandlerStep(w)
  <1>1. Frame(w) /\ Frees
    BY QuietFrame DEF DeclineTrip, At
  <1>2. "decline" \in Ops /\ "decline" \in Pcs /\ "pending" \in TripStatus
    BY DEF Ops, Pcs, TripStatus
  <1>3. /\ Only(w) /\ task'[w].op = "decline" /\ task'[w].pc = "decline"
        /\ task'[w].trip = t /\ task'[w].driver = d
    BY <1>2, StartType DEF DeclineTrip, IInv
  <1>4. HandlerOK(task[w])'
    BY <1>3 DEF HandlerOK, AcceptPcs, OfferPcs
  <1>. QED
    BY <1>1, <1>3, <1>4, StartStep

\* handleDriverDecline, the attempt.
LEMMA MarkDeclinedStep ==
  ASSUME IInv, NEW w \in Workers, MarkDeclined(w)
  PROVE  HandlerStep(w)
  <1>1. /\ task[w].trip \in Trips /\ task[w].pc = "decline"
        /\ task[w].driver \in Drivers
    BY InHandler DEF MarkDeclined, At, OfferPcs
  <1>2. /\ attempt' \in [Trips -> [Drivers -> AttemptStatus]]
        /\ \A t \in Trips, d \in Drivers :
              attempt[t][d] # "none" => attempt'[t][d] # "none"
    BY <1>1, RespondType DEF MarkDeclined, AttemptStatus
  <1>3. Frame(w) /\ Frees
    BY <1>1, <1>2 DEF MarkDeclined, IInv, TypeOK, Frame, Frees, time, redis
  <1>. QED
    BY <1>1, <1>3, PlainGoto DEF MarkDeclined, Plain, Pcs, AcceptPcs, OfferPcs

\* handleDriverDecline, the keys.
LEMMA FreeDeclinedStep ==
  ASSUME IInv, NEW w \in Workers, FreeDeclined(w)
  PROVE  HandlerStep(w)
  <1>1. /\ task[w].trip \in Trips /\ task[w].pc = "freeDeclined"
        /\ task[w].driver \in Drivers
    BY InHandler DEF FreeDeclined, At, OfferPcs
  <1>2. timer' \in [Trips -> [Drivers -> TimerState]]
    BY <1>1, TimerType DEF FreeDeclined, IInv, TimerState
  <1>3. Frame(w) /\ Frees
    BY <1>1, <1>2 DEF FreeDeclined, IInv, TypeOK, Frame, Frees, db, time
  <1>4. CASE Return(w)
    BY <1>3, <1>4, ReturnStep
  <1>5. CASE Goto(w, "check")
    BY <1>1, <1>3, <1>5, PlainGoto DEF Plain, Pcs, AcceptPcs, OfferPcs
  <1>. QED
    BY <1>4, <1>5 DEF FreeDeclined

\* checkAndRetryDispatch, the trip's status.
LEMMA CheckPendingStep ==
  ASSUME IInv, NEW w \in Workers, CheckPending(w)
  PROVE  HandlerStep(w)
  <1>1. Frame(w) /\ Frees /\ task[w].pc = "check"
    BY QuietFrame DEF CheckPending, At
  <1>2. CASE Return(w)
    BY <1>1, <1>2, ReturnStep
  <1>3. CASE Goto(w, "count")
    BY <1>1, <1>3, PlainGoto DEF Plain, Pcs, AcceptPcs, OfferPcs
  <1>. QED
    BY <1>2, <1>3 DEF CheckPending

\* checkAndRetryDispatch, the attempts still open.
LEMMA CountRemainingStep ==
  ASSUME IInv, NEW w \in Workers, CountRemaining(w)
  PROVE  HandlerStep(w)
  <1>1. Frame(w) /\ Frees /\ task[w].pc = "count"
    BY QuietFrame DEF CountRemaining, At
  <1>2. CASE Return(w)
    BY <1>1, <1>2, ReturnStep
  <1>3. CASE Goto(w, "budget")
    BY <1>1, <1>3, PlainGoto DEF Plain, Pcs, AcceptPcs, OfferPcs
  <1>. QED
    BY <1>2, <1>3 DEF CountRemaining

\* checkAndRetryDispatch, the budget of rounds.
LEMMA RetryOrGiveUpStep ==
  ASSUME IInv, NEW w \in Workers, RetryOrGiveUp(w)
  PROVE  HandlerStep(w)
  <1>1. task[w].trip \in Trips /\ task[w].pc = "budget"
    BY InHandler DEF RetryOrGiveUp, At
  <1>2. /\ rounds' \in [Trips -> 0..MaxRounds]
        /\ events' \subseteq EventSet
        /\ \A t \in Trips, d \in Drivers :
              Assigned(t, d) \in events' => Assigned(t, d) \in events
    BY <1>1, EmitFailedType DEF RetryOrGiveUp, IInv, TypeOK
  <1>3. Frame(w) /\ Frees
    BY <1>1, <1>2 DEF RetryOrGiveUp, IInv, TypeOK, Frame, Frees, db, time
  <1>4. CASE Return(w)
    BY <1>3, <1>4, ReturnStep
  <1>5. CASE Goto(w, "rounds")
    BY <1>1, <1>3, <1>5, PlainGoto DEF Plain, Pcs, AcceptPcs, OfferPcs
  <1>. QED
    BY <1>4, <1>5 DEF RetryOrGiveUp

\* The handlers of an acceptance: they keep their place among AcceptPcs, and
\* past the first of them the attempt's row exists.
LEMMA AcceptGoto ==
  ASSUME IInv, NEW w \in Workers, Only(w), Keeps(w), Frame(w), Frees,
         task[w].pc \in AcceptPcs,
         task'[w].pc \in (AcceptPcs \cup {"write"}) \ {"hasAttempt"},
         attempt'[task[w].trip][task[w].driver] # "none"
  PROVE  HandlerStep(w)
  <1>1. HandlerOK(task[w])
    BY InHandler
  <1>2. HandlerOK(task[w])'
    BY <1>1 DEF HandlerOK, AcceptPcs, OfferPcs, Keeps
  <1>. QED
    BY <1>2, KeepsStep

\* What is known of an acceptance past the check of its attempt.
LEMMA InAccept ==
  ASSUME IInv, NEW w \in Workers, task[w].pc \in AcceptPcs
  PROVE  /\ task[w] \in Task /\ task[w].trip \in Trips
         /\ task[w].driver \in Drivers /\ task[w].op = "accept"
         /\ task[w].pc # "hasAttempt" =>
               attempt[task[w].trip][task[w].driver] # "none"
  <1>1. task[w] \in Task /\ HandlerOK(task[w])
    BY InHandler
  <1>. QED
    BY <1>1 DEF HandlerOK

\* A request starts from a trip whose status has the successor it asks for.
LEMMA TransitionType ==
  ASSUME NEW from, NEW to, canTransition(from, to)
  PROVE  /\ from \in TripStatus \ Terminal
         /\ to = "accepted" => from = "pending"
  BY DEF canTransition, TripStatus, Terminal, TRANSITIONS

\* updateStatus(accepted), the transition check.
LEMMA AcceptTripStep ==
  ASSUME IInv, NEW w \in Workers, NEW t \in Trips, NEW d \in Drivers,
         AcceptTrip(w, t, d)
  PROVE  HandlerStep(w)
  <1>1. Frame(w) /\ Frees
    BY QuietFrame DEF AcceptTrip, At
  <1>2. "accept" \in Ops /\ "hasAttempt" \in Pcs /\ "accepted" \in TripStatus
    BY DEF Ops, Pcs, TripStatus
  <1>3. /\ Only(w) /\ task'[w].op = "accept" /\ task'[w].pc = "hasAttempt"
        /\ task'[w].trip = t /\ task'[w].driver = d /\ task'[w].to = "accepted"
    BY <1>2, StartType DEF AcceptTrip, IInv
  <1>4. HandlerOK(task[w])'
    BY <1>3 DEF HandlerOK, AcceptPcs, OfferPcs
  <1>5. /\ status[t] \in TripStatus \ Terminal /\ status[t] = "pending"
        /\ canTransition(status[t], "accepted")
    BY TransitionType DEF AcceptTrip
  <1>. QED
    BY <1>1, <1>3, <1>4, <1>5, StartStep

\* updateStatus(accepted), the attempt check: what makes the invariant hold at the write.
LEMMA HasActiveDispatchAttemptStep ==
  ASSUME IInv, NEW w \in Workers, HasActiveDispatchAttempt(w)
  PROVE  HandlerStep(w)
  <1>1. Frame(w) /\ Frees /\ task[w].pc = "hasAttempt" /\ attempt' = attempt
    BY QuietFrame DEF HasActiveDispatchAttempt, At, db
  <1>2. CASE Return(w)
    BY <1>1, <1>2, ReturnStep
  <1>3. CASE HasActiveAttempt(task[w].trip, task[w].driver) /\ Goto(w, "hasLock")
    <2>1. Only(w) /\ Keeps(w) /\ task'[w].pc = "hasLock"
      BY <1>3, GotoType DEF IInv, Pcs
    <2>. QED
      BY <1>1, <1>3, <2>1, AcceptGoto DEF HasActiveAttempt, AcceptPcs
  <1>. QED
    BY <1>2, <1>3 DEF HasActiveDispatchAttempt

\* handleDriverAccept, the lock; a foreign lock leads straight to the write.
LEMMA ReadLockStep ==
  ASSUME IInv, NEW w \in Workers, ReadLock(w)
  PROVE  HandlerStep(w)
  <1>1. Frame(w) /\ Frees /\ task[w].pc = "hasLock" /\ attempt' = attempt
    BY QuietFrame DEF ReadLock, At, db
  <1>2. attempt'[task[w].trip][task[w].driver] # "none"
    BY <1>1, InAccept DEF AcceptPcs
  <1>3. ASSUME NEW pc \in {"mark", "write"}, Goto(w, pc)
        PROVE  HandlerStep(w)
    <2>1. Only(w) /\ Keeps(w) /\ task'[w].pc = pc
      BY <1>3, GotoType DEF IInv, Pcs
    <2>. QED
      BY <1>1, <1>2, <2>1, AcceptGoto DEF AcceptPcs
  <1>. QED
    BY <1>3 DEF ReadLock

\* handleDriverAccept, the attempt.
LEMMA MarkAcceptedStep ==
  ASSUME IInv, NEW w \in Workers, MarkAccepted(w)
  PROVE  HandlerStep(w)
  <1>1. /\ task[w].pc = "mark" /\ task[w].trip \in Trips
        /\ task[w].driver \in Drivers
        /\ attempt[task[w].trip][task[w].driver] # "none"
    BY InAccept DEF MarkAccepted, At, AcceptPcs
  <1>2. /\ attempt' \in [Trips -> [Drivers -> AttemptStatus]]
        /\ \A t \in Trips, d \in Drivers :
              attempt[t][d] # "none" => attempt'[t][d] # "none"
    BY <1>1, RespondType DEF MarkAccepted, AttemptStatus
  <1>3. Frame(w) /\ Frees
    BY <1>1, <1>2 DEF MarkAccepted, IInv, TypeOK, Frame, Frees, time, redis
  <1>4. Only(w) /\ Keeps(w) /\ task'[w].pc = "cancelOwn"
    BY GotoType DEF MarkAccepted, IInv, Pcs
  <1>. QED
    BY <1>1, <1>2, <1>3, <1>4, AcceptGoto DEF AcceptPcs

\* handleDriverAccept, the driver's own job.
LEMMA CancelOwnTimeoutStep ==
  ASSUME IInv, NEW w \in Workers, CancelOwnTimeout(w)
  PROVE  HandlerStep(w)
  <1>1. /\ task[w].pc = "cancelOwn" /\ task[w].trip \in Trips
        /\ task[w].driver \in Drivers
        /\ attempt[task[w].trip][task[w].driver] # "none"
    BY InAccept DEF CancelOwnTimeout, At, AcceptPcs
  <1>2. timer' \in [Trips -> [Drivers -> TimerState]]
    BY <1>1, TimerType DEF CancelOwnTimeout, IInv, TimerState
  <1>3. Frame(w) /\ Frees /\ attempt' = attempt
    BY <1>1, <1>2 DEF CancelOwnTimeout, IInv, TypeOK, Frame, Frees, db, time
  <1>4. CASE Return(w)
    BY <1>3, <1>4, ReturnStep
  <1>5. CASE Goto(w, "others")
    <2>1. Only(w) /\ Keeps(w) /\ task'[w].pc = "others"
      BY <1>5, GotoType DEF IInv, Pcs
    <2>. QED
      BY <1>1, <1>3, <2>1, AcceptGoto DEF AcceptPcs
  <1>. QED
    BY <1>4, <1>5 DEF CancelOwnTimeout

\* handleDriverAccept, the list of the other drivers.
LEMMA FindOtherLocksStep ==
  ASSUME IInv, NEW w \in Workers, FindOtherLocks(w)
  PROVE  HandlerStep(w)
  <1>1. /\ task[w].pc = "others" /\ task[w] \in Task
        /\ attempt[task[w].trip][task[w].driver] # "none"
    BY InAccept DEF FindOtherLocks, At, AcceptPcs
  <1>2. Frame(w) /\ Frees /\ attempt' = attempt
    BY <1>1, QuietFrame DEF FindOtherLocks, db
  <1>3. PICK k : k = [task[w] EXCEPT !.pc = "freeOther",
                    !.todo = NotifiedDrivers(task[w].trip) \ {task[w].driver}]
    OBVIOUS
  <1>4. /\ "freeOther" \in Pcs
        /\ NotifiedDrivers(task[w].trip) \ {task[w].driver} \in SUBSET Drivers
    BY DEF Pcs, NotifiedDrivers
  <1>5. /\ k \in Task /\ k.pc = "freeOther" /\ k.op = task[w].op
        /\ k.trip = task[w].trip /\ k.driver = task[w].driver
        /\ k.to = task[w].to /\ k.queue = task[w].queue
    BY <1>1, <1>3, <1>4 DEF Task
  <1>6. Only(w) /\ Keeps(w) /\ task'[w].pc = "freeOther"
    BY <1>3, <1>5, BecomesType DEF FindOtherLocks, IInv, Keeps
  <1>. QED
    BY <1>1, <1>2, <1>6, AcceptGoto DEF AcceptPcs

\* handleDriverAccept, one turn of its loop.
LEMMA FreeOtherLockStep ==
  ASSUME IInv, NEW w \in Workers, FreeOtherLock(w)
  PROVE  HandlerStep(w)
  <1>1. /\ task[w].pc = "freeOther" /\ task[w] \in Task /\ task[w].trip \in Trips
        /\ task[w].driver \in Drivers /\ task[w].todo \subseteq Drivers
        /\ attempt[task[w].trip][task[w].driver] # "none"
    BY InAccept DEF FreeOtherLock, At, AcceptPcs, Task
  <1>2. PICK e \in Drivers :
          /\ lock' = [lock EXCEPT ![e] = NoTrip]
          /\ \/ Return(w) /\ UNCHANGED <<timer, attempt>>
             \/ /\ timer' = [timer EXCEPT ![task[w].trip][e] = "none"]
                /\ Respond(task[w].trip, e, "driver_declined")
                /\ Becomes(w, [task[w] EXCEPT !.todo = @ \ {e}])
    BY <1>1 DEF FreeOtherLock
  <1>3. /\ attempt' \in [Trips -> [Drivers -> AttemptStatus]]
        /\ \A t \in Trips, d \in Drivers :
              attempt[t][d] # "none" => attempt'[t][d] # "none"
    <2>1. CASE UNCHANGED attempt
      BY <2>1 DEF IInv, TypeOK
    <2>2. CASE Respond(task[w].trip, e, "driver_declined")
      BY <1>1, <2>2, RespondType DEF AttemptStatus
    <2>. QED
      BY <1>2, <2>1, <2>2
  <1>4. timer' \in [Trips -> [Drivers -> TimerState]]
    BY <1>1, <1>2, TimerType DEF IInv, TimerState
  <1>5. lock' \in [Drivers -> Trips \cup {NoTrip}] /\ Frees
    BY <1>2 DEF IInv, TypeOK, Frees
  <1>6. Frame(w)
    BY <1>1, <1>3, <1>4, <1>5 DEF FreeOtherLock, IInv, TypeOK, Frame, time
  <1>7. CASE Return(w)
    BY <1>5, <1>6, <1>7, ReturnStep
  <1>8. CASE Becomes(w, [task[w] EXCEPT !.todo = @ \ {e}])
    <2>1. PICK k : k = [task[w] EXCEPT !.todo = @ \ {e}]
      OBVIOUS
    <2>2. /\ k \in Task /\ k.pc = task[w].pc /\ k.op = task[w].op
          /\ k.trip = task[w].trip /\ k.driver = task[w].driver
          /\ k.to = task[w].to /\ k.queue = task[w].queue
      BY <1>1, <2>1 DEF Task
    <2>3. Only(w) /\ Keeps(w) /\ task'[w].pc = task[w].pc
      BY <1>8, <2>1, <2>2, BecomesType DEF IInv, Keeps
    <2>. QED
      BY <1>1, <1>3, <1>5, <1>6, <2>3, AcceptGoto DEF AcceptPcs
  <1>. QED
    BY <1>2, <1>7, <1>8

\* DriverAssigned names the driver whose attempt was checked.
LEMMA EmitDriverAssignedStep ==
  ASSUME IInv, NEW w \in Workers, EmitDriverAssigned(w)
  PROVE  HandlerStep(w)
  <1>1. /\ task[w].pc = "freeOther" /\ task[w].trip \in Trips
        /\ task[w].driver \in Drivers /\ task[w].op = "accept"
        /\ attempt[task[w].trip][task[w].driver] # "none"
    BY InAccept DEF EmitDriverAssigned, At, AcceptPcs
  <1>2. Assigned(task[w].trip, task[w].driver) \in EventSet
    BY <1>1 DEF Assigned, EventSet
  <1>3. \A t \in Trips, d \in Drivers :
           Assigned(t, d) = Assigned(task[w].trip, task[w].driver)
              => t = task[w].trip /\ d = task[w].driver
    BY DEF Assigned
  <1>4. rounds' \in [Trips -> 0..MaxRounds]
    BY <1>1, ConstantAssumption DEF EmitDriverAssigned, IInv, TypeOK
  <1>5. Frees /\ lock' \in [Drivers -> Trips \cup {NoTrip}] /\ attempt' = attempt
    BY <1>1 DEF EmitDriverAssigned, IInv, TypeOK, Frees, db
  <1>6. Frame(w)
    BY <1>1, <1>2, <1>3, <1>4, <1>5
    DEF EmitDriverAssigned, IInv, TypeOK, Frame, db, time
  <1>7. Only(w) /\ Keeps(w) /\ task'[w].pc = "write"
    BY GotoType DEF EmitDriverAssigned, IInv, Pcs
  <1>. QED
    BY <1>1, <1>5, <1>6, <1>7, AcceptGoto DEF AcceptPcs

\* updateStatus by the assigned driver: the check finds a driver on the trip.
LEMMA MoveTripStep ==
  ASSUME IInv, NEW w \in Workers, NEW t \in Trips, NEW d \in Drivers,
         NEW to \in Moves, MoveTrip(w, t, d, to)
  PROVE  HandlerStep(w)
  <1>1. Frame(w) /\ Frees
    BY QuietFrame DEF MoveTrip, At
  <1>2. "move" \in Ops /\ "write" \in Pcs /\ to \in TripStatus
    BY DEF Ops, Pcs, TripStatus, Moves
  <1>3. /\ Only(w) /\ task'[w].op = "move" /\ task'[w].pc = "write"
        /\ task'[w].trip = t /\ task'[w].driver = d /\ task'[w].to = to
    BY <1>2, StartType DEF MoveTrip, IInv
  <1>4. driver'[t] # NoDriver
    BY <1>1, ConstantAssumption DEF MoveTrip, IsAssigned, Frame
  <1>5. HandlerOK(task[w])'
    BY <1>3, <1>4 DEF HandlerOK, AcceptPcs, OfferPcs
  <1>6. status[t] \in TripStatus \ Terminal /\ canTransition(status[t], to)
    BY TransitionType DEF MoveTrip
  <1>. QED
    BY <1>1, <1>3, <1>5, <1>6, StartStep

\* updateStatus(cancelled_by_client, cancelled_auto), the check.
LEMMA CancelTripStep ==
  ASSUME IInv, NEW w \in Workers, NEW t \in Trips,
         NEW to \in {"cancelled_by_client", "cancelled_auto"}, CancelTrip(w, t, to)
  PROVE  HandlerStep(w)
  <1>1. Frame(w) /\ Frees
    BY QuietFrame DEF CancelTrip, At
  <1>2. "cancel" \in Ops /\ "releaseFind" \in Pcs /\ to \in TripStatus
    BY DEF Ops, Pcs, TripStatus
  <1>3. /\ Only(w) /\ task'[w].op = "cancel" /\ task'[w].pc = "releaseFind"
        /\ task'[w].trip = t /\ task'[w].to = to
    BY <1>2, StartType DEF CancelTrip, IInv
  <1>4. HandlerOK(task[w])'
    BY <1>3 DEF HandlerOK, AcceptPcs, OfferPcs
  <1>5. status[t] \in TripStatus \ Terminal /\ canTransition(status[t], to)
    BY TransitionType DEF CancelTrip
  <1>. QED
    BY <1>1, <1>3, <1>4, <1>5, StartStep

\* releaseLocksForTrip on its way: only a cancellation goes on to write.
LEMMA ReleaseGoto ==
  ASSUME IInv, NEW w \in Workers, Only(w), Keeps(w), Frame(w), Frees,
         task[w].pc \in {"releaseFind", "release"},
         \/ task'[w].pc = "release"
         \/ task'[w].pc = "write" /\ task[w].op = "cancel"
         \/ task'[w].pc = "rounds" /\ task[w].op = "run"
  PROVE  HandlerStep(w)
  <1>1. HandlerOK(task[w]) /\ task[w].trip \in Trips
    BY InHandler
  <1>2. HandlerOK(task[w])'
    BY <1>1 DEF HandlerOK, AcceptPcs, OfferPcs, Keeps
  <1>. QED
    BY <1>2, KeepsStep

\* releaseLocksForTrip, the list.
LEMMA ReleaseFindStep ==
  ASSUME IInv, NEW w \in Workers, ReleaseFind(w)
  PROVE  HandlerStep(w)
  <1>1. Frame(w) /\ Frees /\ task[w].pc = "releaseFind" /\ task[w] \in Task
    BY QuietFrame, InHandler DEF ReleaseFind, At
  <1>2. PICK k : k = [task[w] EXCEPT !.pc = "release",
                                     !.todo = NotifiedDrivers(task[w].trip)]
    OBVIOUS
  <1>3. "release" \in Pcs /\ NotifiedDrivers(task[w].trip) \in SUBSET Drivers
    BY DEF Pcs, NotifiedDrivers
  <1>4. /\ k \in Task /\ k.pc = "release" /\ k.op = task[w].op
        /\ k.trip = task[w].trip /\ k.driver = task[w].driver
        /\ k.to = task[w].to /\ k.queue = task[w].queue
    BY <1>1, <1>2, <1>3 DEF Task
  <1>5. Only(w) /\ Keeps(w) /\ task'[w].pc = "release"
    BY <1>2, <1>4, BecomesType DEF ReleaseFind, IInv, Keeps
  <1>. QED
    BY <1>1, <1>5, ReleaseGoto

\* releaseLocksForTrip, one turn of its loop.
LEMMA ReleaseLockStep ==
  ASSUME IInv, NEW w \in Workers, ReleaseLock(w)
  PROVE  HandlerStep(w)
  <1>1. /\ task[w].pc = "release" /\ task[w] \in Task /\ task[w].trip \in Trips
        /\ task[w].todo \subseteq Drivers
    BY InHandler DEF ReleaseLock, At, Task
  <1>2. PICK e \in Drivers :
          /\ lock' = [lock EXCEPT ![e] = NoTrip]
          /\ \/ Return(w) /\ UNCHANGED timer
             \/ /\ timer' = [timer EXCEPT ![task[w].trip][e] = "none"]
                /\ Becomes(w, [task[w] EXCEPT !.todo = @ \ {e}])
    BY <1>1 DEF ReleaseLock
  <1>3. timer' \in [Trips -> [Drivers -> TimerState]]
    BY <1>1, <1>2, TimerType DEF IInv, TimerState
  <1>4. lock' \in [Drivers -> Trips \cup {NoTrip}] /\ Frees
    BY <1>2 DEF IInv, TypeOK, Frees
  <1>5. Frame(w)
    BY <1>1, <1>3, <1>4 DEF ReleaseLock, IInv, TypeOK, Frame, db, time
  <1>6. CASE Return(w)
    BY <1>4, <1>5, <1>6, ReturnStep
  <1>7. CASE Becomes(w, [task[w] EXCEPT !.todo = @ \ {e}])
    <2>1. PICK k : k = [task[w] EXCEPT !.todo = @ \ {e}]
      OBVIOUS
    <2>2. /\ k \in Task /\ k.pc = task[w].pc /\ k.op = task[w].op
          /\ k.trip = task[w].trip /\ k.driver = task[w].driver
          /\ k.to = task[w].to /\ k.queue = task[w].queue
      BY <1>1, <2>1 DEF Task
    <2>3. Only(w) /\ Keeps(w) /\ task'[w].pc = task[w].pc
      BY <1>7, <2>1, <2>2, BecomesType DEF IInv, Keeps
    <2>. QED
      BY <1>1, <1>4, <1>5, <2>3, ReleaseGoto
  <1>. QED
    BY <1>2, <1>6, <1>7

\* releaseLocksForTrip, the attempts, and the return to its caller.
LEMMA ReleaseMarkStep ==
  ASSUME IInv, NEW w \in Workers, ReleaseMark(w)
  PROVE  HandlerStep(w)
  <1>1. task[w].pc = "release" /\ task[w].trip \in Trips
    BY InHandler DEF ReleaseMark, At
  <1>2. /\ attempt' \in [Trips -> [Drivers -> AttemptStatus]]
        /\ \A t \in Trips, d \in Drivers :
              attempt[t][d] # "none" => attempt'[t][d] # "none"
    BY <1>1 DEF ReleaseMark, IInv, TypeOK, AttemptStatus
  <1>3. Frame(w) /\ Frees
    BY <1>1, <1>2 DEF ReleaseMark, IInv, TypeOK, Frame, Frees, time, redis
  <1>4. ASSUME NEW pc \in {"write", "rounds"}, Goto(w, pc),
               \/ pc = "write" /\ task[w].op = "cancel"
               \/ pc = "rounds" /\ task[w].op = "run"
        PROVE  HandlerStep(w)
    <2>1. Only(w) /\ Keeps(w) /\ task'[w].pc = pc
      BY <1>4, GotoType DEF IInv, Pcs
    <2>. QED
      BY <1>1, <1>3, <1>4, <2>1, ReleaseGoto
  <1>5. CASE Return(w)
    BY <1>3, <1>5, ReturnStep
  <1>. QED
    BY <1>4, <1>5 DEF ReleaseMark

\* getPendingRequestForDriver, the query.
LEMMA GetPendingRequestStep ==
  ASSUME IInv, NEW w \in Workers, NEW t \in Trips, NEW d \in Drivers,
         GetPendingRequest(w, t, d)
  PROVE  HandlerStep(w)
  <1>1. Frame(w) /\ Frees
    BY QuietFrame DEF GetPendingRequest, At
  <1>2. "rearm" \in Ops /\ "rearmCheck" \in Pcs /\ "pending" \in TripStatus
    BY DEF Ops, Pcs, TripStatus
  <1>3. /\ Only(w) /\ task'[w].op = "rearm" /\ task'[w].pc = "rearmCheck"
        /\ task'[w].trip = t /\ task'[w].driver = d
    BY <1>2, StartType DEF GetPendingRequest, IInv
  <1>4. HandlerOK(task[w])'
    BY <1>3 DEF HandlerOK, AcceptPcs, OfferPcs
  <1>. QED
    BY <1>1, <1>3, <1>4, StartStep

\* getPendingRequestForDriver, has another driver accepted?
LEMMA AnotherAcceptedStep ==
  ASSUME IInv, NEW w \in Workers, AnotherAccepted(w)
  PROVE  HandlerStep(w)
  <1>1. Frame(w) /\ Frees /\ task[w].pc = "rearmCheck"
    BY QuietFrame DEF AnotherAccepted, At
  <1>2. CASE Return(w)
    BY <1>1, <1>2, ReturnStep
  <1>3. CASE Goto(w, "rearmMark")
    BY <1>1, <1>3, PlainGoto DEF Plain, Pcs, AcceptPcs, OfferPcs
  <1>. QED
    BY <1>2, <1>3 DEF AnotherAccepted

\* getPendingRequestForDriver, the attempt: it backs the lock to come.
LEMMA RearmAttemptStep ==
  ASSUME IInv, NEW w \in Workers, RearmAttempt(w)
  PROVE  HandlerStep(w)
  <1>1. /\ task[w].pc = "rearmMark" /\ task[w].trip \in Trips
        /\ task[w].driver \in Drivers /\ HandlerOK(task[w])
    BY InHandler DEF RearmAttempt, At, OfferPcs
  <1>2. /\ attempt' \in [Trips -> [Drivers -> AttemptStatus]]
        /\ \A t \in Trips, d \in Drivers :
              attempt[t][d] # "none" => attempt'[t][d] # "none"
        /\ attempt'[task[w].trip][task[w].driver] # "none"
    BY <1>1 DEF RearmAttempt, IInv, TypeOK, AttemptStatus
  <1>3. Frame(w) /\ Frees
    BY <1>1, <1>2 DEF RearmAttempt, IInv, TypeOK, Frame, Frees, time, redis
  <1>4. Only(w) /\ Keeps(w) /\ task'[w].pc = "rearmLock"
    BY GotoType DEF RearmAttempt, IInv, Pcs
  <1>5. HandlerOK(task[w])'
    BY <1>1, <1>2, <1>4 DEF HandlerOK, AcceptPcs, OfferPcs, Keeps
  <1>. QED
    BY <1>3, <1>4, <1>5, KeepsStep

\* The lock that the re-arming sets is backed by the row it has just written.
LEMMA RearmLockStep ==
  ASSUME IInv, NEW w \in Workers, RearmLock(w)
  PROVE  HandlerStep(w)
  <1>1. /\ task[w].pc = "rearmLock" /\ task[w].trip \in Trips
        /\ task[w].driver \in Drivers
        /\ attempt[task[w].trip][task[w].driver] # "none"
    BY InHandler DEF RearmLock, At, OfferPcs, HandlerOK
  <1>2. lock' \in [Drivers -> Trips \cup {NoTrip}] /\ attempt' = attempt
    BY <1>1 DEF RearmLock, IInv, TypeOK, db
  <1>3. Frame(w)
    BY <1>1, <1>2 DEF RearmLock, IInv, TypeOK, Frame, db, time
  <1>4. LocksOK(w)
    BY <1>1, <1>2 DEF LocksOK, RearmLock, IInv, TypeOK
  <1>. QED
    BY <1>3, <1>4, ReturnBecoming DEF HandlerStep, RearmLock

\* A sweep's list of trips.
LEMMA SweepTask ==
  ASSUME NEW queue \in SUBSET Trips, NEW op \in {"run", "stale"}
  PROVE  /\ Sweep(queue, op) \in Task
         /\ \/ Sweep(queue, op) = Idle
            \/ /\ Sweep(queue, op).op = op /\ Sweep(queue, op).pc = "next"
               /\ Sweep(queue, op).queue = queue
  <1>1. op \in Ops /\ "next" \in Pcs
    BY DEF Ops, Pcs
  <1>2. CASE queue = {}
    BY <1>2, IdleType DEF Sweep
  <1>3. CASE queue # {}
    BY <1>1, <1>3, IdleType DEF Sweep, Idle, Task
  <1>. QED
    BY <1>2, <1>3

\* What a run() does before its first await.
LEMMA FailTooOldType ==
  ASSUME IInv, FailTooOld
  PROVE  /\ rounds' \in [Trips -> 0..MaxRounds]
         /\ events' \subseteq EventSet
         /\ \A t \in Trips, d \in Drivers :
               Assigned(t, d) \in events' => Assigned(t, d) \in events
  <1>1. rounds' \in [Trips -> 0..MaxRounds]
    BY ConstantAssumption DEF FailTooOld, IInv, TypeOK
  <1>2. TooOld \subseteq Trips
    BY DEF TooOld, Pending
  <1>3. \A u \in Trips : Failed(u) \in EventSet
    BY DEF Failed, EventSet
  <1>4. \A t \in Trips, d \in Drivers, u \in Trips : Assigned(t, d) # Failed(u)
    BY DEF Assigned, Failed
  <1>. QED
    BY <1>1, <1>2, <1>3, <1>4 DEF FailTooOld, IInv, TypeOK

\* run() after a restart.
LEMMA BootRunStep ==
  ASSUME IInv, BootRun
  PROVE  HandlerStep("boot")
  <1>1. "boot" \in Workers /\ task["boot"].pc = "boot"
    BY DEF Workers, BootRun, At
  <1>2. Frame("boot") /\ Frees
    BY <1>1, FailTooOldType DEF BootRun, IInv, TypeOK, Frame, Frees, db, time
  <1>3. Pending \ TooOld \in SUBSET Trips
    BY DEF Pending
  <1>4. PICK k : k = Sweep(Pending \ TooOld, "run")
    OBVIOUS
  <1>5. k \in Task /\ (k = Idle \/ (k.op = "run" /\ k.pc = "next"))
    BY <1>3, <1>4, SweepTask
  <1>6. Only("boot") /\ task'["boot"] = k
    BY <1>1, <1>4, <1>5, BecomesType DEF BootRun, IInv
  <1>7. HandlerOK(task["boot"])' /\ k.op \in {"none", "run"}
    BY <1>5, <1>6 DEF HandlerOK, AcceptPcs, OfferPcs, Idle
  <1>. QED
    BY <1>1, <1>2, <1>6, <1>7, StartStep

\* run(), the next trip of its list.
LEMMA NextPendingStep ==
  ASSUME IInv, NEW w \in Workers, NextPending(w)
  PROVE  HandlerStep(w)
  <1>1. /\ Frame(w) /\ Frees /\ task[w].pc = "next" /\ task[w] \in Task
        /\ task[w].op = "run" /\ task[w].queue \subseteq Trips
    BY QuietFrame, InHandler DEF NextPending, At, Task
  <1>2. PICK t \in Trips :
          Becomes(w, [task[w] EXCEPT !.pc = "releaseFind", !.trip = t,
                                     !.queue = @ \ {t}])
    BY <1>1 DEF NextPending
  <1>3. PICK k : k = [task[w] EXCEPT !.pc = "releaseFind", !.trip = t,
                                     !.queue = @ \ {t}]
    OBVIOUS
  <1>4. "releaseFind" \in Pcs
    BY DEF Pcs
  <1>5. k \in Task /\ k.pc = "releaseFind" /\ k.op = "run" /\ k.trip = t
    BY <1>1, <1>3, <1>4 DEF Task
  <1>6. Only(w) /\ task'[w] = k
    BY <1>2, <1>3, <1>5, BecomesType DEF IInv
  <1>7. HandlerOK(task[w])'
    BY <1>5, <1>6 DEF HandlerOK, AcceptPcs, OfferPcs
  <1>. QED
    BY <1>1, <1>5, <1>6, <1>7, StartStep

\* A sweep that has done its list.
LEMMA EndSweepStep ==
  ASSUME IInv, NEW w \in Workers, EndSweep(w)
  PROVE  HandlerStep(w)
  <1>1. Frame(w) /\ Frees
    BY QuietFrame DEF EndSweep, At
  <1>2. Only(w) /\ task'[w] = Idle
    BY IdleType, BecomesType DEF EndSweep, IInv
  <1>3. HandlerOK(task[w])' /\ task'[w].op = "none"
    BY <1>2 DEF HandlerOK, AcceptPcs, OfferPcs, Idle
  <1>. QED
    BY <1>1, <1>2, <1>3, StartStep

------------------------------------------------------------------------------
(***************************************************************************)
(* What every step keeps: the invariant, and the two action properties.    *)
(***************************************************************************)
SettledStep ==
    \A t \in Trips : Settled(t) => /\ Settled(t)'
                                   /\ status'[t] = status[t]
                                   /\ driver'[t] = driver[t]
DriverStep ==
    \A t \in Trips :
        status[t] \notin {"absent", "pending"} /\ ~Acceptance(t)
            => ~Acceptance(t)' /\ driver'[t] = driver[t]

\* No attempt row and no driver disappears.
Grows ==
    /\ \A t \in Trips, d \in Drivers :
          attempt[t][d] # "none" => attempt'[t][d] # "none"
    /\ \A t \in Trips : driver[t] # NoDriver => driver'[t] # NoDriver

\* A handler that does not move stays consistent with what it checked.
LEMMA OthersOK ==
  ASSUME IInv, NEW v \in Workers, task'[v] = task[v], Grows
  PROVE  HandlerOK(task[v])'
  <1>1. /\ HandlerOK(task[v])
        /\ task[v].pc \notin {"idle", "boot", "next"} => task[v].trip \in Trips
        /\ task[v].pc \in AcceptPcs \cup OfferPcs => task[v].driver \in Drivers
    BY InHandler
  <1>2. task[v].op = "accept" =>
          /\ task[v].trip \in Trips /\ task[v].driver \in Drivers
          /\ task[v].pc # "hasAttempt" =>
                attempt'[task[v].trip][task[v].driver] # "none"
    BY <1>1 DEF HandlerOK, Grows
  <1>3. task[v].op = "move" => driver'[task[v].trip] # NoDriver
    BY <1>1 DEF HandlerOK, Grows
  <1>4. task[v].pc = "rearmLock" =>
          attempt'[task[v].trip][task[v].driver] # "none"
    BY <1>1 DEF HandlerOK, Grows, OfferPcs
  <1>. QED
    BY <1>1, <1>2, <1>3, <1>4 DEF HandlerOK

\* A step of a handler keeps the invariant.
LEMMA HandlerStepInv ==
  ASSUME IInv, NEW w \in Workers, HandlerStep(w)
  PROVE  IInv'
  <1>1. Frame(w) /\ Becoming(w) /\ LocksOK(w) /\ Only(w)
    BY DEF HandlerStep, Becoming
  <1>2. TypeOK'
    BY <1>1 DEF IInv, TypeOK, Frame, Only
  <1>3. HandlersOK'
    <2>1. Grows
      BY <1>1 DEF Grows, Frame
    <2>2. ASSUME NEW v \in Workers PROVE HandlerOK(task[v])'
      <3>1. CASE v = w
        BY <1>1, <3>1 DEF Becoming
      <3>2. CASE v # w
        BY <1>1, <2>1, <3>2, OthersOK DEF Only
      <3>. QED
        BY <3>1, <3>2
    <2>. QED
      BY <2>2 DEF HandlersOK
  <1>4. EventsOK'
    BY <1>1 DEF IInv, EventsOK, Frame, Assigned
  <1>5. AssignedWasNotified'
    BY <1>1 DEF IInv, TypeOK, AssignedWasNotified, Frame
  <1>6. StatusMatchesDriver' /\ FailureSparesAssigned'
    BY <1>1 DEF IInv, StatusMatchesDriver, FailureSparesAssigned, Frame
  <1>7. LockHasOffer'
    <2>. SUFFICES ASSUME crashes = 0, NEW d \in Drivers, lock'[d] # NoTrip
                  PROVE  \/ attempt'[lock'[d]][d] # "none"
                         \/ \E v \in Workers :
                               /\ task'[v].pc = "upsert"
                               /\ task'[v].trip = lock'[d]
                               /\ task'[v].driver = d
      BY <1>1 DEF LockHasOffer, At, Frame
    <2>1. CASE lock'[d] = lock[d]
      <3>1. lock[d] \in Trips
        BY <2>1 DEF IInv, TypeOK
      <3>2. CASE attempt[lock[d]][d] # "none"
        BY <1>1, <2>1, <3>1, <3>2 DEF Frame
      <3>3. ASSUME NEW v \in Workers, task[v].pc = "upsert",
                   task[v].trip = lock[d], task[v].driver = d, v # w
            PROVE  /\ task'[v].pc = "upsert"
                   /\ task'[v].trip = lock'[d] /\ task'[v].driver = d
        BY <1>1, <2>1, <3>3 DEF Only
      <3>4. CASE /\ task[w].pc = "upsert"
                 /\ task[w].trip = lock[d] /\ task[w].driver = d
        BY <1>1, <2>1, <3>4 DEF Frame
      <3>. QED
        BY <2>1, <3>2, <3>3, <3>4 DEF IInv, LockHasOffer, At
    <2>2. CASE lock'[d] # lock[d]
      BY <1>1, <2>2 DEF LocksOK
    <2>. QED
      BY <2>1, <2>2
  <1>. QED
    BY <1>2, <1>3, <1>4, <1>5, <1>6, <1>7 DEF IInv

\* A step of a handler leaves a settled trip settled.
LEMMA HandlerStepSettled ==
  ASSUME IInv, NEW w \in Workers, HandlerStep(w)
  PROVE  SettledStep
  <1>. SUFFICES ASSUME NEW t \in Trips, Settled(t)
                PROVE  /\ Settled(t)'
                       /\ status'[t] = status[t] /\ driver'[t] = driver[t]
    BY DEF SettledStep
  <1>1. Frame(w) /\ Becoming(w) /\ Only(w)
    BY DEF HandlerStep, Becoming
  <1>2. ASSUME NEW v \in Workers PROVE ~Writes(v, t)'
    <2>1. CASE v = w
      BY <1>1, <2>1 DEF Settled, Writes, Becoming
    <2>2. CASE v # w
      BY <1>1, <2>2 DEF Settled, Writes, Only
    <2>. QED
      BY <2>1, <2>2
  <1>3. \A d \in Drivers : Assigned(t, d) \notin events'
    BY <1>1 DEF Settled, Writes, Frame
  <1>4. status' = status /\ driver' = driver
    BY <1>1 DEF Frame
  <1>. QED
    BY <1>2, <1>3, <1>4 DEF Settled, Assigned

\* A step of a handler starts no acceptance of a trip that is not pending.
LEMMA HandlerStepDriver ==
  ASSUME IInv, NEW w \in Workers, HandlerStep(w)
  PROVE  DriverStep
  <1>. SUFFICES ASSUME NEW t \in Trips, status[t] \notin {"absent", "pending"},
                       ~Acceptance(t)
                PROVE  ~Acceptance(t)' /\ driver'[t] = driver[t]
    BY DEF DriverStep
  <1>1. Frame(w) /\ Becoming(w) /\ Only(w)
    BY DEF HandlerStep, Becoming
  <1>2. ASSUME NEW v \in Workers PROVE ~Accepts(v, t)'
    <2>1. CASE v = w
      BY <1>1, <2>1 DEF Acceptance, Accepts, Becoming
    <2>2. CASE v # w
      BY <1>1, <2>2 DEF Acceptance, Accepts, Only
    <2>. QED
      BY <2>1, <2>2
  <1>3. \A d \in Drivers : Assigned(t, d) \notin events'
    BY <1>1 DEF Acceptance, Accepts, Frame
  <1>4. driver' = driver
    BY <1>1 DEF Frame
  <1>. QED
    BY <1>2, <1>3, <1>4 DEF Acceptance, Assigned

Kept == IInv' /\ SettledStep /\ DriverStep

\* All three facts for every step of a handler that leaves `trips` alone.
LEMMA HandlerStepKept ==
  ASSUME IInv, NEW w \in Workers, HandlerStep(w)
  PROVE  Kept
  BY HandlerStepInv, HandlerStepSettled, HandlerStepDriver DEF Kept

------------------------------------------------------------------------------
(***************************************************************************)
(* The actions that write to `trips`.                                      *)
(***************************************************************************)
\* Every other handler stays as it is; `w` becomes consistent.
LEMMA OnlyHandlersOK ==
  ASSUME IInv, NEW w \in Workers, Only(w), Grows, HandlerOK(task[w])'
  PROVE  HandlersOK'
  <1>1. ASSUME NEW v \in Workers PROVE HandlerOK(task[v])'
    BY OthersOK DEF Only
  <1>. QED
    BY <1>1 DEF HandlersOK

\* A step that leaves the attempts and the locks alone and does not
\* leave "upsert" keeps every lock backed.
LEMMA OnlyLocksOK ==
  ASSUME IInv, NEW w \in Workers, Only(w), task[w].pc # "upsert",
         UNCHANGED <<attempt, lock, crashes>>
  PROVE  LockHasOffer'
  BY DEF IInv, LockHasOffer, At, Only

\* createTrip, the insert.
LEMMA CreateTripKept ==
  ASSUME IInv, NEW w \in Workers, NEW t \in Trips, CreateTrip(w, t)
  PROVE  Kept
  <1>1. "create" \in Ops /\ "details" \in Pcs /\ "pending" \in TripStatus
    BY DEF Ops, Pcs, TripStatus
  <1>2. /\ Only(w) /\ task'[w].op = "create" /\ task'[w].pc = "details"
        /\ task'[w].trip = t
    BY <1>1, StartType DEF CreateTrip, IInv
  <1>3. TypeOK'
    BY <1>1, <1>2 DEF CreateTrip, IInv, TypeOK, Only, time, redis
  <1>4. HandlersOK'
    <2>1. Grows
      BY DEF CreateTrip, Grows
    <2>2. HandlerOK(task[w])'
      BY <1>2 DEF HandlerOK, AcceptPcs, OfferPcs
    <2>. QED
      BY <1>2, <2>1, <2>2, OnlyHandlersOK
  <1>5. EventsOK' /\ AssignedWasNotified'
    BY DEF CreateTrip, IInv, EventsOK, AssignedWasNotified, Assigned
  <1>6. StatusMatchesDriver' /\ FailureSparesAssigned'
    BY DEF CreateTrip, IInv, TypeOK, StatusMatchesDriver, FailureSparesAssigned,
           Engaged
  <1>7. LockHasOffer'
    BY <1>2, OnlyLocksOK DEF CreateTrip, At, redis
  <1>8. SettledStep
    BY <1>2 DEF SettledStep, Settled, Writes, Only, CreateTrip, Terminal, Assigned,
                IInv, TypeOK
  <1>9. DriverStep
    BY <1>2 DEF DriverStep, Acceptance, Accepts, Only, CreateTrip, Assigned
  <1>. QED
    BY <1>3, <1>4, <1>5, <1>6, <1>7, <1>8, <1>9 DEF Kept, IInv

\* The write of updateStatus: what the handler checked still holds where the
\* invariant needs it, whatever happened to the trip since.
LEMMA WriteStatusKept ==
  ASSUME IInv, NEW w \in Workers, WriteStatus(w)
  PROVE  Kept
  <1>1. /\ task[w] \in Task /\ HandlerOK(task[w]) /\ task[w].pc = "write"
        /\ task[w].trip \in Trips /\ task[w].to \in TripStatus
        /\ task[w].op \in {"accept", "move", "cancel"}
    BY InHandler DEF WriteStatus, At, HandlerOK, Task
  <1>2. /\ task[w].op = "accept" =>
              /\ task[w].to = "accepted" /\ task[w].driver \in Drivers
              /\ attempt[task[w].trip][task[w].driver] # "none"
        /\ task[w].op = "move" =>
              task[w].to \in Moves /\ driver[task[w].trip] # NoDriver
        /\ task[w].op = "cancel" =>
              task[w].to \in {"cancelled_by_client", "cancelled_auto"}
    BY <1>1 DEF HandlerOK
  <1>3. task[w].to = "accepted" <=> task[w].op = "accept"
    BY <1>1, <1>2 DEF Moves
  <1>4. Becoming(w) /\ Only(w) /\ HandlerOK(task[w])' /\ task'[w] = Idle
    BY <1>1, ReturnBecoming, ReturnType DEF WriteStatus, Becoming, IInv
  <1>5. driver' \in [Trips -> Drivers \cup {NoDriver}]
    BY <1>1, <1>2, <1>3 DEF WriteStatus, IInv, TypeOK
  <1>6. Grows
    BY <1>1, <1>2, <1>3, <1>5, ConstantAssumption
    DEF WriteStatus, Grows, IInv, TypeOK
  <1>7. TypeOK'
    <2>1. reason' \in [Trips -> Reasons]
      BY DEF WriteStatus, IInv, TypeOK, Reasons
    <2>. QED
      BY <1>1, <1>4, <1>5, <2>1 DEF WriteStatus, IInv, TypeOK, Only, redis
  <1>8. HandlersOK'
    BY <1>4, <1>6, OnlyHandlersOK
  <1>9. EventsOK'
    BY DEF WriteStatus, IInv, EventsOK, Assigned
  <1>10. AssignedWasNotified'
    BY <1>1, <1>2, <1>3 DEF WriteStatus, IInv, TypeOK, AssignedWasNotified
  <1>11. StatusMatchesDriver'
    <2>1. ASSUME NEW u \in Trips, u # task[w].trip
          PROVE  status'[u] = status[u] /\ driver'[u] = driver[u]
      BY <1>1, <2>1 DEF WriteStatus, IInv, TypeOK
    <2>2. status'[task[w].trip] = task[w].to /\ task[w].to \notin {"absent", "pending"}
      BY <1>1, <1>2 DEF WriteStatus, IInv, TypeOK, Moves
    <2>3. task[w].op # "cancel" => driver'[task[w].trip] # NoDriver
      BY <1>1, <1>2, <1>3, ConstantAssumption DEF WriteStatus, IInv, TypeOK
    <2>4. task[w].op = "cancel" =>
            task[w].to \notin Engaged \cup {"completed", "cancelled_by_driver"}
      BY <1>2 DEF Engaged
    <2>. QED
      BY <1>1, <2>1, <2>2, <2>3, <2>4 DEF IInv, StatusMatchesDriver
  <1>12. FailureSparesAssigned'
    <2>1. ASSUME NEW u \in Trips, u # task[w].trip
          PROVE  /\ status'[u] = status[u] /\ driver'[u] = driver[u]
                 /\ reason'[u] = reason[u]
      BY <1>1, <2>1 DEF WriteStatus, IInv, TypeOK
    <2>2. /\ status'[task[w].trip] = task[w].to
          /\ task[w].to = "cancelled_auto" => reason'[task[w].trip] = "request"
      BY <1>1 DEF WriteStatus, IInv, TypeOK
    <2>. QED
      BY <1>1, <2>1, <2>2 DEF IInv, FailureSparesAssigned
  <1>13. LockHasOffer'
    BY <1>1, <1>4, OnlyLocksOK DEF WriteStatus, redis
  <1>14. SettledStep
    <2>. SUFFICES ASSUME NEW u \in Trips, Settled(u)
                  PROVE  /\ Settled(u)'
                         /\ status'[u] = status[u] /\ driver'[u] = driver[u]
      BY DEF SettledStep
    <2>1. u # task[w].trip
      BY <1>1 DEF Settled, Writes
    <2>2. status'[u] = status[u] /\ driver'[u] = driver[u]
      BY <1>1, <2>1 DEF WriteStatus, IInv, TypeOK
    <2>3. ASSUME NEW v \in Workers PROVE ~Writes(v, u)'
      BY <1>4 DEF Settled, Writes, Only, Idle
    <2>. QED
      BY <2>2, <2>3 DEF Settled, WriteStatus, Assigned
  <1>15. DriverStep
    <2>. SUFFICES ASSUME NEW u \in Trips, ~Acceptance(u)
                  PROVE  ~Acceptance(u)' /\ driver'[u] = driver[u]
      BY DEF DriverStep
    <2>1. driver'[u] = driver[u]
      BY <1>1, <1>3 DEF Acceptance, Accepts, WriteStatus, IInv, TypeOK
    <2>2. ASSUME NEW v \in Workers PROVE ~Accepts(v, u)'
      BY <1>4 DEF Acceptance, Accepts, Only, Idle
    <2>. QED
      BY <2>1, <2>2 DEF Acceptance, WriteStatus, Assigned
  <1>. QED
    BY <1>7, <1>8, <1>9, <1>10, <1>11, <1>12, <1>13, <1>14, <1>15 DEF Kept, IInv

\* A listener that leaves the handlers alone.
LEMMA SameTasksOK ==
  ASSUME IInv, UNCHANGED task, Grows
  PROVE  HandlersOK'
  BY OthersOK DEF HandlersOK

\* assignDriver: DriverAssigned remembers the offer its driver had.
LEMMA HandleDriverAssignedKept ==
  ASSUME IInv, NEW t \in Trips, NEW d \in Drivers, HandleDriverAssigned(t, d)
  PROVE  Kept
  <1>1. attempt[t][d] # "none" /\ attempt' = attempt
    BY DEF HandleDriverAssigned, IInv, EventsOK
  <1>2. TypeOK'
    BY DEF HandleDriverAssigned, IInv, TypeOK, TripStatus, redis
  <1>3. HandlersOK'
    <2>1. Grows
      BY <1>1, ConstantAssumption DEF HandleDriverAssigned, Grows, IInv, TypeOK
    <2>. QED
      BY <2>1, SameTasksOK DEF HandleDriverAssigned
  <1>4. EventsOK' /\ AssignedWasNotified'
    BY <1>1 DEF HandleDriverAssigned, IInv, TypeOK, EventsOK,
                AssignedWasNotified, Assigned
  <1>5. StatusMatchesDriver' /\ FailureSparesAssigned'
    BY ConstantAssumption DEF HandleDriverAssigned, IInv, TypeOK,
       StatusMatchesDriver, FailureSparesAssigned, Engaged
  <1>6. LockHasOffer'
    BY DEF HandleDriverAssigned, IInv, LockHasOffer, At, redis
  <1>7. SettledStep
    <2>. SUFFICES ASSUME NEW u \in Trips, Settled(u)
                  PROVE  /\ Settled(u)'
                         /\ status'[u] = status[u] /\ driver'[u] = driver[u]
      BY DEF SettledStep
    <2>1. u # t
      BY DEF Settled, HandleDriverAssigned
    <2>2. status'[u] = status[u] /\ driver'[u] = driver[u]
      BY <2>1 DEF HandleDriverAssigned, IInv, TypeOK
    <2>. QED
      BY <2>2 DEF Settled, Writes, HandleDriverAssigned, Assigned
  <1>8. DriverStep
    <2>. SUFFICES ASSUME NEW u \in Trips, ~Acceptance(u)
                  PROVE  ~Acceptance(u)' /\ driver'[u] = driver[u]
      BY DEF DriverStep
    <2>1. u # t
      BY DEF Acceptance, HandleDriverAssigned
    <2>2. driver'[u] = driver[u]
      BY <2>1 DEF HandleDriverAssigned, IInv, TypeOK
    <2>. QED
      BY <2>2 DEF Acceptance, Accepts, HandleDriverAssigned, Assigned
  <1>. QED
    BY <1>2, <1>3, <1>4, <1>5, <1>6, <1>7, <1>8 DEF Kept, IInv

\* updateStatusIfPending: a pending trip has no driver to spare.
LEMMA HandleDispatchFailedKept ==
  ASSUME IInv, NEW t \in Trips, HandleDispatchFailed(t)
  PROVE  Kept
  <1>1. CASE /\ status[t] = "pending"
             /\ status' = [status EXCEPT ![t] = "cancelled_auto"]
             /\ reason' = [reason EXCEPT ![t] = "dispatch_failed"]
             /\ idle' = [idle EXCEPT ![t] = FALSE]
    <2>1. driver[t] = NoDriver
      BY <1>1 DEF IInv, StatusMatchesDriver
    <2>2. TypeOK'
      BY <1>1 DEF HandleDispatchFailed, IInv, TypeOK, TripStatus, Reasons, redis
    <2>3. HandlersOK'
      BY SameTasksOK DEF HandleDispatchFailed, Grows
    <2>4. EventsOK' /\ AssignedWasNotified'
      BY DEF HandleDispatchFailed, IInv, EventsOK, AssignedWasNotified, Assigned
    <2>5. StatusMatchesDriver' /\ FailureSparesAssigned'
      BY <1>1, <2>1 DEF HandleDispatchFailed, IInv, TypeOK,
         StatusMatchesDriver, FailureSparesAssigned, Engaged
    <2>6. LockHasOffer'
      BY DEF HandleDispatchFailed, IInv, LockHasOffer, At, redis
    <2>7. SettledStep
      BY <1>1 DEF SettledStep, Settled, Writes, HandleDispatchFailed, Terminal,
                  Assigned, IInv, TypeOK
    <2>8. DriverStep
      BY DEF DriverStep, Acceptance, Accepts, HandleDispatchFailed, Assigned
    <2>. QED
      BY <2>2, <2>3, <2>4, <2>5, <2>6, <2>7, <2>8 DEF Kept, IInv
  <1>2. CASE UNCHANGED <<status, reason, idle>>
    <2>1. TypeOK'
      BY <1>2 DEF HandleDispatchFailed, IInv, TypeOK, redis
    <2>2. HandlersOK'
      BY SameTasksOK DEF HandleDispatchFailed, Grows
    <2>3. EventsOK' /\ AssignedWasNotified'
      BY DEF HandleDispatchFailed, IInv, EventsOK, AssignedWasNotified, Assigned
    <2>4. StatusMatchesDriver' /\ FailureSparesAssigned' /\ LockHasOffer'
      BY <1>2 DEF HandleDispatchFailed, IInv, StatusMatchesDriver,
         FailureSparesAssigned, LockHasOffer, At, redis
    <2>5. SettledStep /\ DriverStep
      BY <1>2 DEF SettledStep, Settled, Writes, DriverStep, Acceptance, Accepts,
         HandleDispatchFailed, Assigned
    <2>. QED
      BY <2>1, <2>2, <2>3, <2>4, <2>5 DEF Kept, IInv
  <1>. QED
    BY <1>1, <1>2 DEF HandleDispatchFailed, StillPending

\* sweepStaleAssigned, the write: it cancels with a reason of its own.
LEMMA CancelStaleKept ==
  ASSUME IInv, NEW w \in Workers, CancelStale(w)
  PROVE  Kept
  <1>1. /\ task[w] \in Task /\ task[w].pc = "next" /\ task[w].op = "stale"
        /\ task[w].queue \subseteq Trips
    BY InHandler DEF CancelStale, At, Task
  <1>2. PICK t \in task[w].queue :
          /\ status' = [status EXCEPT ![t] = "cancelled_auto"]
          /\ reason' = [reason EXCEPT ![t] = "driver_unresponsive"]
          /\ idle' = [idle EXCEPT ![t] = FALSE]
          /\ Becomes(w, [task[w] EXCEPT !.pc = "releaseFind", !.trip = t,
                                        !.queue = @ \ {t}])
    BY DEF CancelStale
  <1>3. PICK k : k = [task[w] EXCEPT !.pc = "releaseFind", !.trip = t,
                                     !.queue = @ \ {t}]
    OBVIOUS
  <1>4. "releaseFind" \in Pcs /\ t \in Trips
    BY <1>1 DEF Pcs
  <1>5. /\ k \in Task /\ k.pc = "releaseFind" /\ k.op = "stale" /\ k.trip = t
        /\ k.queue \subseteq task[w].queue
    BY <1>1, <1>3, <1>4 DEF Task
  <1>6. Only(w) /\ task'[w] = k
    BY <1>2, <1>3, <1>5, BecomesType DEF IInv
  <1>7. TypeOK'
    BY <1>2, <1>4, <1>6 DEF CancelStale, IInv, TypeOK, Only, TripStatus, Reasons, redis
  <1>8. HandlersOK'
    <2>1. Grows
      BY DEF CancelStale, Grows
    <2>2. HandlerOK(task[w])'
      BY <1>4, <1>5, <1>6 DEF HandlerOK, AcceptPcs, OfferPcs
    <2>. QED
      BY <1>6, <2>1, <2>2, OnlyHandlersOK
  <1>9. EventsOK' /\ AssignedWasNotified'
    BY DEF CancelStale, IInv, EventsOK, AssignedWasNotified, Assigned
  <1>10. StatusMatchesDriver' /\ FailureSparesAssigned'
    BY <1>2, <1>4 DEF CancelStale, IInv, TypeOK, StatusMatchesDriver,
       FailureSparesAssigned, Engaged
  <1>11. LockHasOffer'
    BY <1>1, <1>6, OnlyLocksOK DEF CancelStale, redis
  <1>12. SettledStep
    <2>. SUFFICES ASSUME NEW u \in Trips, Settled(u)
                  PROVE  /\ Settled(u)'
                         /\ status'[u] = status[u] /\ driver'[u] = driver[u]
      BY DEF SettledStep
    <2>1. u # t
      BY <1>1 DEF Settled, Writes
    <2>2. status'[u] = status[u] /\ driver'[u] = driver[u]
      BY <1>2, <1>4, <2>1 DEF CancelStale, IInv, TypeOK
    <2>3. ASSUME NEW v \in Workers PROVE ~Writes(v, u)'
      BY <1>1, <1>5, <1>6 DEF Settled, Writes, Only
    <2>. QED
      BY <2>2, <2>3 DEF Settled, CancelStale, Assigned
  <1>13. DriverStep
    <2>. SUFFICES ASSUME NEW u \in Trips, ~Acceptance(u)
                  PROVE  ~Acceptance(u)' /\ driver'[u] = driver[u]
      BY DEF DriverStep
    <2>1. ASSUME NEW v \in Workers PROVE ~Accepts(v, u)'
      BY <1>5, <1>6 DEF Acceptance, Accepts, Only
    <2>. QED
      BY <2>1 DEF Acceptance, CancelStale, Assigned
  <1>. QED
    BY <1>7, <1>8, <1>9, <1>10, <1>11, <1>12, <1>13 DEF Kept, IInv

------------------------------------------------------------------------------
(***************************************************************************)
(* The sweeps' start, time and the crash.                                  *)
(***************************************************************************)
\* The tick gives the stale sweep only trips whose status is not terminal.
LEMMA SweepTickKept ==
  ASSUME IInv, SweepTick
  PROVE  Kept
  <1>. DEFINE waiting == {t \in Pending : age[t] = 1}
  <1>1. /\ "sweep" \in Workers /\ "stale" \in Workers
        /\ task["sweep"].pc = "idle" /\ task["stale"].pc = "idle"
    BY DEF Workers, SweepTick, At
  <1>2. waiting \in SUBSET Trips /\ StaleAssigned \in SUBSET Trips
    BY DEF Pending, StaleAssigned
  <1>3. PICK a : a = Sweep(waiting, "run")
    OBVIOUS
  <1>4. PICK b : b = Sweep(StaleAssigned, "stale")
    OBVIOUS
  <1>5. a \in Task /\ (a = Idle \/ (a.op = "run" /\ a.pc = "next"))
    BY <1>2, <1>3, SweepTask
  <1>6. /\ b \in Task
        /\ b = Idle \/ (b.op = "stale" /\ b.pc = "next" /\ b.queue = StaleAssigned)
    BY <1>2, <1>4, SweepTask
  <1>7. /\ task' \in [Workers -> Task]
        /\ task'["sweep"] = a /\ task'["stale"] = b
        /\ \A v \in Workers \ {"sweep", "stale"} : task'[v] = task[v]
    <2>1. task' = [task EXCEPT !["sweep"] = a, !["stale"] = b]
      BY <1>3, <1>4 DEF SweepTick
    <2>. QED
      BY <1>1, <1>5, <1>6, <2>1 DEF IInv, TypeOK
  <1>8. UNCHANGED <<status, driver, reason, attempt, age, idle, newest, lock, timer,
                    crashes>>
    BY DEF SweepTick, db, time
  <1>9. /\ rounds' \in [Trips -> 0..MaxRounds]
        /\ events' \subseteq EventSet
        /\ \A t \in Trips, d \in Drivers :
              Assigned(t, d) \in events' => Assigned(t, d) \in events
    BY FailTooOldType DEF SweepTick
  <1>10. TypeOK'
    BY <1>7, <1>8, <1>9 DEF IInv, TypeOK
  <1>11. HandlersOK'
    <2>1. Grows
      BY <1>8 DEF Grows
    <2>2. HandlerOK(a)' /\ HandlerOK(b)'
      BY <1>5, <1>6 DEF HandlerOK, AcceptPcs, OfferPcs, Idle
    <2>3. ASSUME NEW v \in Workers PROVE HandlerOK(task[v])'
      <3>1. CASE v \in {"sweep", "stale"}
        BY <1>7, <2>2, <3>1 DEF HandlerOK
      <3>2. CASE v \notin {"sweep", "stale"}
        BY <1>7, <2>1, <3>2, OthersOK
      <3>. QED
        BY <3>1, <3>2
    <2>. QED
      BY <2>3 DEF HandlersOK
  <1>12. EventsOK'
    BY <1>8, <1>9 DEF IInv, EventsOK, Assigned
  <1>13. AssignedWasNotified' /\ StatusMatchesDriver' /\ FailureSparesAssigned'
    BY <1>8 DEF IInv, AssignedWasNotified, StatusMatchesDriver, FailureSparesAssigned
  <1>14. LockHasOffer'
    BY <1>1, <1>7, <1>8 DEF IInv, LockHasOffer, At
  <1>15. SettledStep
    <2>. SUFFICES ASSUME NEW u \in Trips, Settled(u)
                  PROVE  \A v \in Workers : ~Writes(v, u)'
      BY <1>8, <1>9 DEF SettledStep, Settled, Assigned
    <2>1. ~Writes("sweep", u)'
      BY <1>5, <1>7 DEF Writes, Idle
    <2>2. u \notin StaleAssigned
      BY DEF Settled, StaleAssigned, Terminal
    <2>3. ~Writes("stale", u)'
      BY <1>6, <1>7, <2>2 DEF Writes, Idle
    <2>4. \A v \in Workers \ {"sweep", "stale"} : ~Writes(v, u)'
      BY <1>7 DEF Settled, Writes
    <2>. QED
      BY <2>1, <2>3, <2>4
  <1>16. DriverStep
    <2>. SUFFICES ASSUME NEW u \in Trips, ~Acceptance(u)
                  PROVE  \A v \in Workers : ~Accepts(v, u)'
      BY <1>8, <1>9 DEF DriverStep, Acceptance, Assigned
    <2>1. a.op # "accept" /\ b.op # "accept"
      BY <1>5, <1>6 DEF Idle
    <2>. QED
      BY <1>7, <2>1 DEF Acceptance, Accepts
  <1>. QED
    BY <1>10, <1>11, <1>12, <1>13, <1>14, <1>15, <1>16 DEF Kept, IInv

\* The clock.
LEMMA ClockKept ==
  ASSUME IInv, NEW t \in Trips, GrowOlder(t) \/ StandStill(t)
  PROVE  Kept
  <1>1. UNCHANGED <<status, driver, reason, attempt, newest, lock, timer, rounds,
                    task, events, crashes>>
    BY DEF GrowOlder, StandStill, db, redis
  <1>2. age' \in [Trips -> 0..3] /\ idle' \in [Trips -> BOOLEAN]
    <2>1. CASE GrowOlder(t)
      <3>1. age[t] \in 0..3 /\ age[t] < MaxAge /\ MaxAge \in 0..3
        BY <2>1, ConstantAssumption DEF GrowOlder, IInv, TypeOK
      <3>2. age[t] + 1 \in 0..3
        BY <3>1
      <3>. QED
        BY <2>1, <3>2 DEF GrowOlder, IInv, TypeOK
    <2>2. CASE StandStill(t)
      BY <2>2 DEF StandStill, IInv, TypeOK
    <2>. QED
      BY <2>1, <2>2
  <1>3. TypeOK'
    BY <1>1, <1>2 DEF IInv, TypeOK
  <1>4. HandlersOK'
    BY <1>1, SameTasksOK DEF Grows
  <1>5. /\ EventsOK' /\ AssignedWasNotified' /\ StatusMatchesDriver'
        /\ FailureSparesAssigned' /\ LockHasOffer'
    BY <1>1 DEF IInv, EventsOK, AssignedWasNotified, StatusMatchesDriver,
                FailureSparesAssigned, LockHasOffer, At, Assigned
  <1>6. SettledStep /\ DriverStep
    BY <1>1 DEF SettledStep, Settled, Writes, DriverStep, Acceptance, Accepts, Assigned
  <1>. QED
    BY <1>3, <1>4, <1>5, <1>6 DEF Kept, IInv

\* A lock that expires takes no offer with it.
LEMMA LockExpiresKept ==
  ASSUME IInv, NEW d \in Drivers, LockExpires(d)
  PROVE  Kept
  <1>1. UNCHANGED <<status, driver, reason, attempt, age, idle, newest, timer,
                    rounds, task, events, crashes>>
    BY DEF LockExpires, db, time
  <1>2. lock' \in [Drivers -> Trips \cup {NoTrip}] /\ Frees
    BY DEF LockExpires, IInv, TypeOK, Frees
  <1>3. TypeOK'
    BY <1>1, <1>2 DEF IInv, TypeOK
  <1>4. HandlersOK'
    BY <1>1, SameTasksOK DEF Grows
  <1>5. /\ EventsOK' /\ AssignedWasNotified' /\ StatusMatchesDriver'
        /\ FailureSparesAssigned'
    BY <1>1 DEF IInv, EventsOK, AssignedWasNotified, StatusMatchesDriver,
                FailureSparesAssigned, Assigned
  <1>6. LockHasOffer'
    BY <1>1, <1>2 DEF IInv, LockHasOffer, At, Frees
  <1>7. SettledStep /\ DriverStep
    BY <1>1 DEF SettledStep, Settled, Writes, DriverStep, Acceptance, Accepts, Assigned
  <1>. QED
    BY <1>3, <1>4, <1>5, <1>6, <1>7 DEF Kept, IInv

\* The process dies: every handler and every event is forgotten.
LEMMA CrashKept ==
  ASSUME IInv, Crash
  PROVE  Kept
  <1>1. UNCHANGED <<status, driver, reason, attempt, age, idle, newest>> /\ events' = {}
    BY DEF Crash, db, time
  <1>2. crashes' \in 0..MaxCrashes /\ crashes' # 0
    BY ConstantAssumption DEF Crash, IInv, TypeOK
  <1>3. PICK k : k = [Idle EXCEPT !.op = "run", !.pc = "boot"]
    OBVIOUS
  <1>4. "run" \in Ops /\ "boot" \in Pcs
    BY DEF Ops, Pcs
  <1>5. k \in Task /\ k.op = "run" /\ k.pc = "boot"
    BY <1>3, <1>4, IdleType DEF Idle, Task
  <1>6. /\ task' \in [Workers -> Task]
        /\ \A w \in Workers : task'[w] \in {Idle, k}
    BY <1>3, <1>5, IdleType DEF Crash
  <1>7. /\ lock' \in [Drivers -> Trips \cup {NoTrip}]
        /\ rounds' \in [Trips -> 0..MaxRounds]
    <2>1. CASE UNCHANGED <<lock, rounds>>
      BY <2>1 DEF IInv, TypeOK
    <2>2. CASE /\ lock' = [d \in Drivers |-> NoTrip]
               /\ rounds' = [t \in Trips |-> 0]
      BY <2>2, ConstantAssumption
    <2>. QED
      BY <2>1, <2>2 DEF Crash
  <1>8. timer' \in [Trips -> [Drivers -> TimerState]]
    <2>1. CASE timer' = [t \in Trips |-> [d \in Drivers |->
                    IF timer[t][d] = "active" THEN "delayed" ELSE timer[t][d]]]
      BY <2>1 DEF IInv, TypeOK, TimerState
    <2>2. CASE timer' = [t \in Trips |-> [d \in Drivers |-> "none"]]
      BY <2>2 DEF TimerState
    <2>. QED
      BY <2>1, <2>2 DEF Crash
  <1>9. TypeOK'
    BY <1>1, <1>2, <1>6, <1>7, <1>8 DEF IInv, TypeOK
  <1>10. HandlersOK'
    <2>1. HandlerOK(Idle)' /\ HandlerOK(k)'
      BY <1>5 DEF HandlerOK, AcceptPcs, OfferPcs, Idle
    <2>. QED
      BY <1>6, <2>1 DEF HandlersOK, HandlerOK
  <1>11. EventsOK' /\ LockHasOffer'
    BY <1>1, <1>2 DEF EventsOK, LockHasOffer
  <1>12. AssignedWasNotified' /\ StatusMatchesDriver' /\ FailureSparesAssigned'
    BY <1>1 DEF IInv, AssignedWasNotified, StatusMatchesDriver, FailureSparesAssigned
  <1>13. \A w \in Workers : task'[w].op \in {"none", "run"}
    BY <1>5, <1>6 DEF Idle
  <1>14. SettledStep
    BY <1>1, <1>13 DEF SettledStep, Settled, Writes
  <1>15. DriverStep
    BY <1>1, <1>13 DEF DriverStep, Acceptance, Accepts
  <1>. QED
    BY <1>9, <1>10, <1>11, <1>12, <1>14, <1>15 DEF Kept, IInv

------------------------------------------------------------------------------
(***************************************************************************)
(* The theorems.                                                           *)
(***************************************************************************)
LEMMA InitInv == Init => IInv
  <1>. SUFFICES ASSUME Init PROVE IInv
    OBVIOUS
  <1>1. TypeOK
    BY IdleType, ConstantAssumption
    DEF Init, TypeOK, Reasons, AttemptStatus, TimerState
  <1>2. HandlersOK
    BY DEF Init, HandlersOK, HandlerOK, AcceptPcs, OfferPcs, Idle
  <1>3. EventsOK /\ AssignedWasNotified /\ StatusMatchesDriver
        /\ FailureSparesAssigned /\ LockHasOffer
    BY DEF Init, EventsOK, AssignedWasNotified, StatusMatchesDriver,
           FailureSparesAssigned, LockHasOffer, Engaged
  <1>. QED
    BY <1>1, <1>2, <1>3 DEF IInv

\* Every action is a handler's step or one of the lemmas above.
LEMMA NextKept ==
  ASSUME IInv, Next
  PROVE  Kept
  <1>1. ASSUME NEW w \in Workers, Step(w) PROVE Kept
    <2>1. CASE CreateDetails(w)
      BY <2>1, CreateDetailsStep, HandlerStepKept
    <2>2. CASE WriteStatus(w)
      BY <2>2, WriteStatusKept
    <2>3. CASE Dispatching(w)
      BY <2>3, CountRoundStep, FindNearbyDriversStep, AcquireLockStep,
         UpsertAttemptStep, ArmTimeoutStep, EndDispatchStep, HandlerStepKept
      DEF Dispatching
    <2>4. CASE Closing(w)
      BY <2>4, ExpireAttemptStep, FreeExpiredStep, MarkDeclinedStep,
         FreeDeclinedStep, CheckPendingStep, CountRemainingStep,
         RetryOrGiveUpStep, HandlerStepKept
      DEF Closing
    <2>5. CASE Accepting(w)
      BY <2>5, HasActiveDispatchAttemptStep, ReadLockStep, MarkAcceptedStep,
         CancelOwnTimeoutStep, FindOtherLocksStep, FreeOtherLockStep,
         EmitDriverAssignedStep, HandlerStepKept
      DEF Accepting
    <2>6. CASE Rearming(w)
      BY <2>6, AnotherAcceptedStep, RearmAttemptStep, RearmLockStep,
         HandlerStepKept
      DEF Rearming
    <2>7. CASE Releasing(w)
      BY <2>7, ReleaseFindStep, ReleaseLockStep, ReleaseMarkStep, HandlerStepKept
      DEF Releasing
    <2>8. CASE Sweeping(w)
      BY <2>8, NextPendingStep, CancelStaleKept, EndSweepStep, HandlerStepKept
      DEF Sweeping
    <2>. QED
      BY <1>1, <2>1, <2>2, <2>3, <2>4, <2>5, <2>6, <2>7, <2>8 DEF Step
  <1>2. ASSUME NEW w \in Slots, Request(w) PROVE Kept
    <2>1. w \in Workers
      BY DEF Workers
    <2>2. PICK t \in Trips :
            \/ CreateTrip(w, t)
            \/ \E to \in {"cancelled_by_client", "cancelled_auto"} :
                  CancelTrip(w, t, to)
            \/ \E d \in Drivers :
                  \/ AcceptTrip(w, t, d) \/ DeclineTrip(w, t, d)
                  \/ GetPendingRequest(w, t, d)
                  \/ \E to \in Moves : MoveTrip(w, t, d, to)
      BY <1>2 DEF Request
    <2>. QED
      BY <2>1, <2>2, CreateTripKept, CancelTripStep, AcceptTripStep,
         DeclineTripStep, GetPendingRequestStep, MoveTripStep, HandlerStepKept
  <1>3. ASSUME NEW w \in Slots, TakeWork(w) PROVE Kept
    <2>1. w \in Workers
      BY DEF Workers
    <2>. QED
      BY <1>3, <2>1, HandleTripCreatedStep, FireTimeoutStep, HandlerStepKept
      DEF TakeWork
  <1>4. ASSUME NEW t \in Trips, HandleEvent(t) PROVE Kept
    BY <1>4, HandleDispatchFailedKept, HandleDriverAssignedKept DEF HandleEvent
  <1>5. CASE SweepTick
    BY <1>5, SweepTickKept
  <1>6. CASE BootRun
    <2>1. "boot" \in Workers
      BY DEF Workers
    <2>. QED
      BY <1>6, <2>1, BootRunStep, HandlerStepKept
  <1>7. CASE Time
    BY <1>7, ClockKept, LockExpiresKept DEF Time
  <1>8. CASE Crash
    BY <1>8, CrashKept
  <1>. QED
    BY <1>1, <1>2, <1>3, <1>4, <1>5, <1>6, <1>7, <1>8 DEF Next

\* A step that changes nothing keeps everything.
LEMMA StutterKept ==
  ASSUME IInv, UNCHANGED vars
  PROVE  Kept
  <1>1. UNCHANGED <<status, driver, reason, attempt, age, idle, newest, lock, timer,
                    rounds, task, events, crashes>>
    BY DEF vars
  <1>2. TypeOK' /\ HandlersOK' /\ EventsOK'
    BY <1>1, SameTasksOK DEF IInv, TypeOK, EventsOK, Assigned, Grows
  <1>3. /\ AssignedWasNotified' /\ StatusMatchesDriver'
        /\ FailureSparesAssigned' /\ LockHasOffer'
    BY <1>1 DEF IInv, AssignedWasNotified, StatusMatchesDriver,
                FailureSparesAssigned, LockHasOffer, At
  <1>4. SettledStep /\ DriverStep
    BY <1>1 DEF SettledStep, Settled, Writes, DriverStep, Acceptance, Accepts, Assigned
  <1>. QED
    BY <1>2, <1>3, <1>4 DEF Kept, IInv

\* The inductive invariant holds in every state of TripDispatch: in every order
\* of the handlers' steps, events, jobs, sweeps, expiries and crashes.
THEOREM Invariance == Spec => []IInv
  <1>1. IInv /\ [Next]_vars => IInv'
    BY NextKept, StutterKept DEF Kept
  <1>. QED
    BY <1>1, InitInv, PTL DEF Spec

\* Types.
THEOREM TypeCorrect == Spec => []TypeOK
  <1>1. IInv => TypeOK
    BY DEF IInv
  <1>. QED
    BY <1>1, Invariance, PTL

\* A driver on a trip was offered the trip, whichever of updateStatus and
\* assignDriver wrote it and however long after the check.
THEOREM OnlyNotifiedDrivers == Spec => []AssignedWasNotified
  <1>1. IInv => AssignedWasNotified
    BY DEF IInv
  <1>. QED
    BY <1>1, Invariance, PTL

\* trips.status and trips.driver_id agree, although each is written by handlers
\* that read the other some awaits before.
THEOREM StatusAgreesWithDriver == Spec => []StatusMatchesDriver
  <1>1. IInv => StatusMatchesDriver
    BY DEF IInv
  <1>. QED
    BY <1>1, Invariance, PTL

\* DispatchFailed, handled late or twice, never leaves a trip that a driver has
\* cancelled for lack of a driver.
THEOREM FailureIsHarmless == Spec => []FailureSparesAssigned
  <1>1. IInv => FailureSparesAssigned
    BY DEF IInv
  <1>. QED
    BY <1>1, Invariance, PTL

\* While the process lives, every dispatch lock stands for an offer.
THEOREM LocksAreBacked == Spec => []LockHasOffer
  <1>1. IInv => LockHasOffer
    BY DEF IInv
  <1>. QED
    BY <1>1, Invariance, PTL

\* No request, retry, timeout, sweep or restart revives a settled trip.
THEOREM SettledForGood == Spec => SettledIsFinal
  <1>1. IInv /\ [Next]_vars => SettledStep
    BY NextKept, StutterKept DEF Kept
  <1>. QED
    BY <1>1, Invariance, PTL DEF Spec, SettledIsFinal, SettledStep

\* Only acceptances in flight change the driver of a trip that is taken.
THEOREM DriverIsStable == Spec => DriverStays
  <1>1. IInv /\ [Next]_vars => DriverStep
    BY NextKept, StutterKept DEF Kept
  <1>. QED
    BY <1>1, Invariance, PTL DEF Spec, DriverStays, DriverStep

------------------------------------------------------------------------------
(***************************************************************************)
(* TripDispatch implements TripLedger.  A step of a handler that leaves    *)
(* `trips` alone is a look of the ledger; the writers commit an intent     *)
(* they had; the sweeps' start looks on behalf of the stale sweep; a crash *)
(* gives intents up.                                                       *)
(***************************************************************************)

(***************************************************************************)
(* Intents.                                                                *)
(***************************************************************************)
Wish(w) == [to |-> task[w].to, driver |-> task[w].driver]
Announced(d) == [to |-> "accepted", driver |-> d]
Unresponsive == [to |-> "cancelled_auto", driver |-> NoDriver]
Writing == {"accept", "move", "cancel"}

\* The three sources of an intent.
Wishes(w, t, i) == task[w].trip = t /\ task[w].op \in Writing /\ i = Wish(w)
Announces(d, t, i) == Assigned(t, d) \in events /\ i = Announced(d)
Sweeps(w, t, i) == task[w].op = "stale" /\ t \in task[w].queue /\ i = Unresponsive

Source(t, i) ==
    \/ \E w \in Workers : Wishes(w, t, i) \/ Sweeps(w, t, i)
    \/ \E d \in Drivers : Announces(d, t, i)

\* An intent has a source.
LEMMA IntentSource ==
  ASSUME NEW t \in Trips, NEW i
  PROVE  i \in Intents(t) <=> Source(t, i)
  BY DEF Intents, Source, Wishes, Announces, Sweeps, Wish, Announced,
         Unresponsive, Writing

\* ... after a step too.
LEMMA IntentSourceNext ==
  ASSUME NEW t \in Trips, NEW i
  PROVE  i \in Intents(t)' <=> Source(t, i)'
  BY DEF Intents, Source, Wishes, Announces, Sweeps, Wish, Announced,
         Unresponsive, Writing

\* No trip is ever taken back from a driver it was offered to.
OffersGrow == \A t \in Trips : OfferedTo(t) \subseteq OfferedTo(t)'

LEMMA AttemptsGrow ==
  ASSUME \A t \in Trips, d \in Drivers :
            attempt[t][d] # "none" => attempt'[t][d] # "none"
  PROVE  OffersGrow
  BY DEF OffersGrow, OfferedTo

------------------------------------------------------------------------------
(***************************************************************************)
(* The steps of the ledger, spelled out for TripDispatch's variables.      *)
(***************************************************************************)
LooksAt(t) ==
    /\ status'[t] = status[t] /\ driver'[t] = driver[t]
    /\ \A i \in Intents(t)' : i \in Intents(t) \/ Ledger!Allows(status[t], i.to)

\* Looking at every trip is a step of the ledger.
LEMMA LookStep ==
  ASSUME NEW t \in Trips, LooksAt(t), OffersGrow
  PROVE  Ledger!TripStep(t)
  <1>1. Ledger!Look(t)
    BY DEF LooksAt, Ledger!Look
  <1>. QED
    BY <1>1 DEF Ledger!TripStep, OffersGrow

\* A step that leaves `trips` alone and makes no intent is a look.
LEMMA QuietLook ==
  ASSUME NEW t \in Trips, status'[t] = status[t], driver'[t] = driver[t],
         OffersGrow, \A i : Source(t, i)' => Source(t, i)
  PROVE  Ledger!TripStep(t)
  <1>1. LooksAt(t)
    BY IntentSource, IntentSourceNext DEF LooksAt
  <1>. QED
    BY <1>1, LookStep

\* A handler's step makes no intent but one the row allows.
LEMMA HandlerStepLedger ==
  ASSUME IInv, NEW w \in Workers, HandlerStep(w)
  PROVE  Ledger!LedgerNext
  <1>1. Frame(w) /\ Becoming(w) /\ Only(w)
    BY DEF HandlerStep, Becoming
  <1>2. OffersGrow
    BY <1>1, AttemptsGrow DEF Frame
  <1>3. ASSUME NEW t \in Trips, NEW i, Source(t, i)'
        PROVE  Source(t, i) \/ Ledger!Allows(status[t], i.to)
    <2>1. ASSUME NEW v \in Workers, v # w, Wishes(v, t, i)' \/ Sweeps(v, t, i)'
          PROVE  Source(t, i)
      BY <1>1, <2>1 DEF Only, Source, Wishes, Sweeps, Wish, Unresponsive
    <2>2. CASE Wishes(w, t, i)'
      <3>1. /\ task'[w].trip = t /\ task'[w].op \in Writing
            /\ i = [to |-> task'[w].to, driver |-> task'[w].driver]
        BY <2>2 DEF Wishes, Wish, Writing
      <3>2. CASE /\ task'[w].op = task[w].op /\ task'[w].trip = task[w].trip
                 /\ task'[w].to = task[w].to /\ task'[w].driver = task[w].driver
        BY <3>1, <3>2 DEF Source, Wishes, Wish
      <3>3. CASE canTransition(status[task'[w].trip], task'[w].to)
        BY <3>1, <3>3 DEF Ledger!Allows, Ledger!canTransition, canTransition,
                          Ledger!TRANSITIONS, TRANSITIONS, Ledger!TripStatus, TripStatus
      <3>. QED
        BY <1>1, <3>1, <3>2, <3>3 DEF Becoming, Writing
    <2>3. CASE Sweeps(w, t, i)'
      BY <1>1, <2>3 DEF Becoming, Source, Sweeps, Unresponsive
    <2>4. ASSUME NEW d \in Drivers, Announces(d, t, i)'
          PROVE  Source(t, i)
      <3>1. i = Announced(d)
        BY <2>4 DEF Announces, Announced
      <3>2. CASE Assigned(t, d) \in events
        BY <3>1, <3>2 DEF Source, Announces
      <3>3. CASE /\ task[w].op = "accept" /\ task[w].trip = t
                 /\ task[w].driver = d
        <4>1. task[w].to = "accepted"
          BY <3>3, InHandler DEF HandlerOK
        <4>. QED
          BY <3>1, <3>3, <4>1 DEF Source, Wishes, Wish, Writing, Announced
      <3>. QED
        BY <1>1, <2>4, <3>2, <3>3 DEF Frame, Announces, Assigned
    <2>. QED
      BY <1>3, <2>1, <2>2, <2>3, <2>4 DEF Source
  <1>4. ASSUME NEW t \in Trips PROVE Ledger!TripStep(t)
    <2>1. LooksAt(t)
      BY <1>1, <1>3, IntentSource, IntentSourceNext DEF LooksAt, Frame
    <2>. QED
      BY <1>2, <2>1, LookStep
  <1>. QED
    BY <1>4 DEF Ledger!LedgerNext

------------------------------------------------------------------------------
(***************************************************************************)
(* The writers.                                                            *)
(***************************************************************************)
\* A step that commits an intent on one trip and makes none on any.
LEMMA CommitStep ==
  ASSUME NEW t \in Trips, NEW i, Source(t, i), Ledger!Commit(t, i),
         OffersGrow,
         \A u \in Trips \ {t} : status'[u] = status[u] /\ driver'[u] = driver[u],
         \A u \in Trips : \A j : Source(u, j)' => Source(u, j)
  PROVE  Ledger!LedgerNext
  <1>1. i \in Intents(t)
    BY IntentSource
  <1>2. Ledger!TripStep(t)
    BY <1>1 DEF Ledger!TripStep, OffersGrow
  <1>3. ASSUME NEW u \in Trips, u # t PROVE Ledger!TripStep(u)
    BY <1>3, QuietLook
  <1>. QED
    BY <1>2, <1>3 DEF Ledger!LedgerNext

\* What a commit of `i` on `t` is for TripDispatch.
LEMMA CommitType ==
  ASSUME NEW t \in Trips, NEW i, status'[t] = i.to,
         \/ /\ i.to = "accepted" /\ i.driver \in Drivers
            /\ attempt[t][i.driver] # "none" /\ driver'[t] = i.driver
         \/ i.to # "accepted" /\ driver'[t] = driver[t],
         i.to \in Moves => driver[t] # NoDriver,
         \A j : Source(t, j)' => Source(t, j)
  PROVE  Ledger!Commit(t, i)
  <1>1. Intents(t)' \subseteq Intents(t)
    BY IntentSource, IntentSourceNext
  <1>2. i.to = "accepted" /\ i.driver \in Drivers /\ attempt[t][i.driver] # "none"
          => i.driver \in OfferedTo(t)
    BY DEF OfferedTo
  <1>. QED
    BY <1>1, <1>2 DEF Ledger!Commit, Moves

\* A handler that ends takes its intents with it.
LEMMA NoNewSource ==
  ASSUME NEW w \in Workers, Only(w), task'[w].op \notin Writing,
         task'[w].op = "stale" =>
            task[w].op = "stale" /\ task'[w].queue \subseteq task[w].queue,
         \A t \in Trips, d \in Drivers :
            Assigned(t, d) \in events' => Assigned(t, d) \in events
  PROVE  \A u \in Trips : \A j : Source(u, j)' => Source(u, j)
  <1>. SUFFICES ASSUME NEW u \in Trips, NEW j, Source(u, j)' PROVE Source(u, j)
    OBVIOUS
  <1>1. ASSUME NEW v \in Workers, v # w, Wishes(v, u, j)' \/ Sweeps(v, u, j)'
        PROVE  Source(u, j)
    BY <1>1 DEF Only, Source, Wishes, Sweeps, Wish, Unresponsive
  <1>2. ~Wishes(w, u, j)'
    BY DEF Wishes, Writing
  <1>3. Sweeps(w, u, j)' => Source(u, j)
    BY DEF Source, Sweeps, Unresponsive
  <1>4. ASSUME NEW d \in Drivers, Announces(d, u, j)' PROVE Source(u, j)
    BY <1>4 DEF Source, Announces, Assigned, Announced
  <1>. QED
    BY <1>1, <1>2, <1>3, <1>4 DEF Source

\* The write of updateStatus commits what the handler checked.
LEMMA WriteStatusLedger ==
  ASSUME IInv, NEW w \in Workers, WriteStatus(w)
  PROVE  Ledger!LedgerNext
  <1>. DEFINE t == task[w].trip
              i == Wish(w)
  <1>1. /\ task[w] \in Task /\ HandlerOK(task[w]) /\ task[w].pc = "write"
        /\ t \in Trips /\ task[w].op \in Writing
    BY InHandler DEF WriteStatus, At, HandlerOK, Writing
  <1>2. /\ task[w].op = "accept" =>
              /\ task[w].to = "accepted" /\ task[w].driver \in Drivers
              /\ attempt[t][task[w].driver] # "none"
        /\ task[w].op = "move" => task[w].to \in Moves /\ driver[t] # NoDriver
        /\ task[w].op = "cancel" =>
              task[w].to \in {"cancelled_by_client", "cancelled_auto"}
    BY <1>1 DEF HandlerOK
  <1>3. task[w].to = "accepted" <=> task[w].op = "accept"
    BY <1>1, <1>2 DEF Moves, Writing
  <1>4. Only(w) /\ task'[w].op = "none"
    BY <1>1, ReturnType DEF WriteStatus, IInv, Writing, Idle
  <1>5. \A u \in Trips : \A j : Source(u, j)' => Source(u, j)
    <2>1. task'[w].op \notin Writing /\ task'[w].op # "stale"
      BY <1>4 DEF Writing
    <2>2. events' = events
      BY DEF WriteStatus
    <2>. QED
      BY <1>4, <2>1, <2>2, NoNewSource
  <1>6. i.to = task[w].to /\ i.driver = task[w].driver
    BY DEF Wish
  <1>7. /\ status'[t] = i.to
        /\ driver'[t] = IF i.to = "accepted" THEN i.driver ELSE driver[t]
        /\ \A u \in Trips \ {t} : status'[u] = status[u] /\ driver'[u] = driver[u]
    BY <1>1, <1>6 DEF WriteStatus, IInv, TypeOK
  <1>8. i.to \in Moves => driver[t] # NoDriver
    BY <1>1, <1>2, <1>3, <1>6 DEF Moves, Writing
  <1>9. Ledger!Commit(t, i)
    <2>1. i.to = "accepted" =>
             i.driver \in Drivers /\ attempt[t][i.driver] # "none"
      BY <1>2, <1>3, <1>6
    <2>. QED
      BY <1>1, <1>5, <1>7, <1>8, <2>1, CommitType
  <1>10. Source(t, i)
    BY <1>1 DEF Source, Wishes
  <1>11. OffersGrow
    BY AttemptsGrow DEF WriteStatus
  <1>. QED
    BY <1>1, <1>5, <1>7, <1>9, <1>10, <1>11, CommitStep

\* assignDriver commits what DriverAssigned announced.
LEMMA HandleDriverAssignedLedger ==
  ASSUME IInv, NEW t \in Trips, NEW d \in Drivers, HandleDriverAssigned(t, d)
  PROVE  Ledger!LedgerNext
  <1>. DEFINE i == Announced(d)
  <1>1. attempt[t][d] # "none" /\ attempt' = attempt /\ i.to = "accepted" /\ i.driver = d
    BY DEF HandleDriverAssigned, IInv, EventsOK, Announced
  <1>2. /\ status'[t] = "accepted" /\ driver'[t] = d
        /\ \A u \in Trips \ {t} : status'[u] = status[u] /\ driver'[u] = driver[u]
    BY DEF HandleDriverAssigned, IInv, TypeOK
  <1>3. ASSUME NEW u \in Trips, NEW j, Source(u, j)' PROVE Source(u, j)
    BY <1>3 DEF HandleDriverAssigned, Source, Wishes, Sweeps, Announces, Wish,
                Unresponsive, Announced, Assigned
  <1>4. Ledger!Commit(t, i)
    <2>1. i.to \notin Moves
      BY <1>1 DEF Moves
    <2>. QED
      BY <1>1, <1>2, <1>3, <2>1, CommitType
  <1>5. Source(t, i)
    BY DEF HandleDriverAssigned, Source, Announces
  <1>6. OffersGrow
    BY <1>1, AttemptsGrow
  <1>. QED
    BY <1>2, <1>3, <1>4, <1>5, <1>6, CommitStep

\* sweepStaleAssigned commits what it read.
LEMMA CancelStaleLedger ==
  ASSUME IInv, NEW w \in Workers, CancelStale(w)
  PROVE  Ledger!LedgerNext
  <1>1. /\ task[w] \in Task /\ task[w].pc = "next" /\ task[w].op = "stale"
        /\ task[w].queue \subseteq Trips
    BY InHandler DEF CancelStale, At, Task
  <1>2. PICK t \in task[w].queue :
          /\ status' = [status EXCEPT ![t] = "cancelled_auto"]
          /\ Becomes(w, [task[w] EXCEPT !.pc = "releaseFind", !.trip = t,
                                        !.queue = @ \ {t}])
    BY DEF CancelStale
  <1>3. PICK k : k = [task[w] EXCEPT !.pc = "releaseFind", !.trip = t,
                                     !.queue = @ \ {t}]
    OBVIOUS
  <1>4. "releaseFind" \in Pcs /\ t \in Trips
    BY <1>1 DEF Pcs
  <1>5. k \in Task /\ k.op = "stale" /\ k.queue \subseteq task[w].queue
    BY <1>1, <1>3, <1>4 DEF Task
  <1>6. Only(w) /\ task'[w] = k
    BY <1>2, <1>3, <1>5, BecomesType DEF IInv
  <1>7. \A u \in Trips : \A j : Source(u, j)' => Source(u, j)
    <2>1. task'[w].op \notin Writing
      BY <1>5, <1>6 DEF Writing
    <2>2. events' = events
      BY DEF CancelStale
    <2>. QED
      BY <1>1, <1>5, <1>6, <2>1, <2>2, NoNewSource
  <1>8. /\ status'[t] = "cancelled_auto" /\ driver'[t] = driver[t]
        /\ \A u \in Trips \ {t} : status'[u] = status[u] /\ driver'[u] = driver[u]
    BY <1>2, <1>4 DEF CancelStale, IInv, TypeOK
  <1>9. Ledger!Commit(t, Unresponsive)
    <2>1. Unresponsive.to = "cancelled_auto" /\ "cancelled_auto" \notin Moves
      BY DEF Unresponsive, Moves
    <2>. QED
      BY <1>4, <1>7, <1>8, <2>1, CommitType
  <1>10. Source(t, Unresponsive)
    BY <1>1 DEF Source, Sweeps
  <1>11. OffersGrow
    BY AttemptsGrow DEF CancelStale
  <1>. QED
    BY <1>4, <1>7, <1>8, <1>9, <1>10, <1>11, CommitStep

\* The insert of createTrip opens the trip.
LEMMA CreateTripLedger ==
  ASSUME IInv, NEW w \in Workers, NEW t \in Trips, CreateTrip(w, t)
  PROVE  Ledger!LedgerNext
  <1>1. "create" \in Ops /\ "details" \in Pcs /\ "pending" \in TripStatus
    BY DEF Ops, Pcs, TripStatus
  <1>2. Only(w) /\ task'[w].op = "create"
    BY <1>1, StartType DEF CreateTrip, IInv
  <1>3. \A u \in Trips : \A j : Source(u, j)' => Source(u, j)
    <2>1. task'[w].op \notin Writing /\ task'[w].op # "stale"
      BY <1>2 DEF Writing
    <2>2. events' = events
      BY DEF CreateTrip
    <2>. QED
      BY <1>2, <2>1, <2>2, NoNewSource
  <1>4. OffersGrow
    BY AttemptsGrow DEF CreateTrip
  <1>5. Ledger!TripStep(t)
    <2>1. status[t] = "absent" /\ status'[t] = "pending" /\ driver'[t] = driver[t]
      BY DEF CreateTrip, IInv, TypeOK
    <2>2. Intents(t)' \subseteq Intents(t)
      BY <1>3, IntentSource, IntentSourceNext
    <2>3. Ledger!Open(t)
      BY <2>1, <2>2 DEF Ledger!Open
    <2>. QED
      BY <1>4, <2>3 DEF Ledger!TripStep, OffersGrow
  <1>6. ASSUME NEW u \in Trips, u # t PROVE Ledger!TripStep(u)
    <2>1. status'[u] = status[u] /\ driver'[u] = driver[u]
      BY <1>6 DEF CreateTrip, IInv, TypeOK
    <2>. QED
      BY <1>3, <1>4, <2>1, QuietLook
  <1>. QED
    BY <1>5, <1>6 DEF Ledger!LedgerNext

\* updateStatusIfPending gives up on a trip nobody has taken, or does nothing.
LEMMA HandleDispatchFailedLedger ==
  ASSUME IInv, NEW t \in Trips, HandleDispatchFailed(t)
  PROVE  Ledger!LedgerNext
  <1>1. ASSUME NEW u \in Trips, NEW j, Source(u, j)' PROVE Source(u, j)
    BY <1>1 DEF HandleDispatchFailed, Source, Wishes, Sweeps, Announces, Wish,
                Unresponsive, Announced, Assigned
  <1>2. OffersGrow
    BY AttemptsGrow DEF HandleDispatchFailed
  <1>3. CASE status[t] = "pending" /\ status' = [status EXCEPT ![t] = "cancelled_auto"]
    <2>1. Ledger!GiveUp(t)
      <3>1. Intents(t)' \subseteq Intents(t)
        BY <1>1, IntentSource, IntentSourceNext
      <3>. QED
        BY <1>3, <3>1 DEF Ledger!GiveUp, HandleDispatchFailed, IInv, TypeOK
    <2>2. Ledger!TripStep(t)
      BY <1>2, <2>1 DEF Ledger!TripStep, OffersGrow
    <2>3. ASSUME NEW u \in Trips, u # t PROVE Ledger!TripStep(u)
      <3>1. status'[u] = status[u] /\ driver'[u] = driver[u]
        BY <1>3, <2>3 DEF HandleDispatchFailed, IInv, TypeOK
      <3>. QED
        BY <1>1, <1>2, <3>1, QuietLook
    <2>. QED
      BY <2>2, <2>3 DEF Ledger!LedgerNext
  <1>4. CASE UNCHANGED status
    BY <1>1, <1>2, <1>4, QuietLook DEF HandleDispatchFailed, Ledger!LedgerNext
  <1>. QED
    BY <1>3, <1>4 DEF HandleDispatchFailed, StillPending

------------------------------------------------------------------------------
(***************************************************************************)
(* Sweeps, time and failure.                                               *)
(***************************************************************************)
\* A step that changes neither `trips` nor a handler, nor announces anything.
LEMMA IdleLedger ==
  ASSUME UNCHANGED <<status, driver, attempt, task, events>>
  PROVE  Ledger!LedgerNext
  <1>1. OffersGrow
    BY AttemptsGrow
  <1>2. ASSUME NEW u \in Trips, NEW j, Source(u, j)' PROVE Source(u, j)
    BY <1>2 DEF Source, Wishes, Sweeps, Announces, Wish, Unresponsive,
                Announced, Assigned
  <1>. QED
    BY <1>1, <1>2, QuietLook DEF Ledger!LedgerNext

\* The stale sweep decides to cancel trips that the ledger lets it cancel.
LEMMA SweepTickLedger ==
  ASSUME IInv, SweepTick
  PROVE  Ledger!LedgerNext
  <1>. DEFINE waiting == {t \in Pending : age[t] = 1}
  <1>1. "sweep" \in Workers /\ "stale" \in Workers
    BY DEF Workers
  <1>2. waiting \in SUBSET Trips /\ StaleAssigned \in SUBSET Trips
    BY DEF Pending, StaleAssigned
  <1>3. PICK a : a = Sweep(waiting, "run")
    OBVIOUS
  <1>4. PICK b : b = Sweep(StaleAssigned, "stale")
    OBVIOUS
  <1>5. a.op \in {"none", "run"}
    BY <1>2, <1>3, SweepTask DEF Idle
  <1>6. \/ b.op = "none"
        \/ b.op = "stale" /\ b.queue = StaleAssigned
    BY <1>2, <1>4, SweepTask DEF Idle
  <1>7. /\ task'["sweep"] = a /\ task'["stale"] = b
        /\ \A v \in Workers \ {"sweep", "stale"} : task'[v] = task[v]
    <2>1. task' = [task EXCEPT !["sweep"] = a, !["stale"] = b]
      BY <1>3, <1>4 DEF SweepTick
    <2>. QED
      BY <1>1, <2>1 DEF IInv, TypeOK
  <1>8. UNCHANGED <<status, driver, attempt>>
    BY DEF SweepTick, db
  <1>9. \A t \in Trips, d \in Drivers :
           Assigned(t, d) \in events' => Assigned(t, d) \in events
    BY FailTooOldType DEF SweepTick
  <1>10. OffersGrow
    BY <1>8, AttemptsGrow
  <1>11. ASSUME NEW t \in Trips, NEW i, Source(t, i)'
         PROVE  Source(t, i) \/ Ledger!Allows(status[t], i.to)
    <2>1. ASSUME NEW v \in Workers \ {"sweep", "stale"},
                 Wishes(v, t, i)' \/ Sweeps(v, t, i)'
          PROVE  Source(t, i)
      BY <1>7, <2>1 DEF Source, Wishes, Sweeps, Wish, Unresponsive
    <2>2. ~Wishes("sweep", t, i)' /\ ~Sweeps("sweep", t, i)' /\ ~Wishes("stale", t, i)'
      BY <1>5, <1>6, <1>7 DEF Wishes, Sweeps, Writing
    <2>3. CASE Sweeps("stale", t, i)'
      <3>1. t \in StaleAssigned /\ i = Unresponsive
        BY <1>6, <1>7, <2>3 DEF Sweeps, Unresponsive
      <3>. QED
        BY <3>1 DEF StaleAssigned, Unresponsive, Ledger!Allows
    <2>4. ASSUME NEW d \in Drivers, Announces(d, t, i)' PROVE Source(t, i)
      BY <1>9, <2>4 DEF Announces, Source, Announced, Assigned
    <2>. QED
      BY <1>11, <2>1, <2>2, <2>3, <2>4 DEF Source
  <1>12. ASSUME NEW t \in Trips PROVE Ledger!TripStep(t)
    <2>1. LooksAt(t)
      BY <1>8, <1>11, IntentSource, IntentSourceNext DEF LooksAt
    <2>. QED
      BY <1>10, <2>1, LookStep
  <1>. QED
    BY <1>12 DEF Ledger!LedgerNext

\* A crash gives every intent up.
LEMMA CrashLedger ==
  ASSUME IInv, Crash
  PROVE  Ledger!LedgerNext
  <1>1. UNCHANGED <<status, driver, attempt>> /\ events' = {}
    BY DEF Crash, db
  <1>2. \A w \in Workers : task'[w].op \in {"none", "run"}
    BY DEF Crash, Idle
  <1>3. OffersGrow
    BY <1>1, AttemptsGrow
  <1>4. ASSUME NEW t \in Trips, NEW i PROVE ~Source(t, i)'
    BY <1>1, <1>2 DEF Source, Wishes, Sweeps, Announces, Writing
  <1>. QED
    BY <1>1, <1>3, <1>4, QuietLook DEF Ledger!LedgerNext

------------------------------------------------------------------------------
(***************************************************************************)
(* The refinement.                                                         *)
(***************************************************************************)
\* No trip, no offer, no intent.
LEMMA InitLedger == Init => Ledger!LedgerInit
  <1>. SUFFICES ASSUME Init PROVE Ledger!LedgerInit
    OBVIOUS
  <1>1. ASSUME NEW t \in Trips PROVE OfferedTo(t) = {} /\ Intents(t) = {}
    BY DEF Init, Idle, OfferedTo, Intents
  <1>. QED
    BY <1>1 DEF Init, Ledger!LedgerInit

\* Every step of TripDispatch is a step of the ledger.
LEMMA NextLedger ==
  ASSUME IInv, Next
  PROVE  Ledger!LedgerNext
  <1>1. ASSUME NEW w \in Workers, Step(w) PROVE Ledger!LedgerNext
    <2>1. CASE CreateDetails(w)
      BY <2>1, CreateDetailsStep, HandlerStepLedger
    <2>2. CASE WriteStatus(w)
      BY <2>2, WriteStatusLedger
    <2>3. CASE Dispatching(w)
      BY <2>3, CountRoundStep, FindNearbyDriversStep, AcquireLockStep,
         UpsertAttemptStep, ArmTimeoutStep, EndDispatchStep, HandlerStepLedger
      DEF Dispatching
    <2>4. CASE Closing(w)
      BY <2>4, ExpireAttemptStep, FreeExpiredStep, MarkDeclinedStep,
         FreeDeclinedStep, CheckPendingStep, CountRemainingStep,
         RetryOrGiveUpStep, HandlerStepLedger
      DEF Closing
    <2>5. CASE Accepting(w)
      BY <2>5, HasActiveDispatchAttemptStep, ReadLockStep, MarkAcceptedStep,
         CancelOwnTimeoutStep, FindOtherLocksStep, FreeOtherLockStep,
         EmitDriverAssignedStep, HandlerStepLedger
      DEF Accepting
    <2>6. CASE Rearming(w)
      BY <2>6, AnotherAcceptedStep, RearmAttemptStep, RearmLockStep,
         HandlerStepLedger
      DEF Rearming
    <2>7. CASE Releasing(w)
      BY <2>7, ReleaseFindStep, ReleaseLockStep, ReleaseMarkStep, HandlerStepLedger
      DEF Releasing
    <2>8. CASE Sweeping(w)
      BY <2>8, NextPendingStep, CancelStaleLedger, EndSweepStep, HandlerStepLedger
      DEF Sweeping
    <2>. QED
      BY <1>1, <2>1, <2>2, <2>3, <2>4, <2>5, <2>6, <2>7, <2>8 DEF Step
  <1>2. ASSUME NEW w \in Slots, Request(w) PROVE Ledger!LedgerNext
    <2>1. w \in Workers
      BY DEF Workers
    <2>2. PICK t \in Trips :
            \/ CreateTrip(w, t)
            \/ \E to \in {"cancelled_by_client", "cancelled_auto"} :
                  CancelTrip(w, t, to)
            \/ \E d \in Drivers :
                  \/ AcceptTrip(w, t, d) \/ DeclineTrip(w, t, d)
                  \/ GetPendingRequest(w, t, d)
                  \/ \E to \in Moves : MoveTrip(w, t, d, to)
      BY <1>2 DEF Request
    <2>. QED
      BY <2>1, <2>2, CreateTripLedger, CancelTripStep, AcceptTripStep,
         DeclineTripStep, GetPendingRequestStep, MoveTripStep, HandlerStepLedger
  <1>3. ASSUME NEW w \in Slots, TakeWork(w) PROVE Ledger!LedgerNext
    <2>1. w \in Workers
      BY DEF Workers
    <2>. QED
      BY <1>3, <2>1, HandleTripCreatedStep, FireTimeoutStep, HandlerStepLedger
      DEF TakeWork
  <1>4. ASSUME NEW t \in Trips, HandleEvent(t) PROVE Ledger!LedgerNext
    BY <1>4, HandleDispatchFailedLedger, HandleDriverAssignedLedger DEF HandleEvent
  <1>5. CASE SweepTick
    BY <1>5, SweepTickLedger
  <1>6. CASE BootRun
    <2>1. "boot" \in Workers
      BY DEF Workers
    <2>. QED
      BY <1>6, <2>1, BootRunStep, HandlerStepLedger
  <1>7. CASE Time
    <2>1. UNCHANGED <<status, driver, attempt, task, events>>
      BY <1>7 DEF Time, GrowOlder, StandStill, LockExpires, db
    <2>. QED
      BY <2>1, IdleLedger
  <1>8. CASE Crash
    BY <1>8, CrashLedger
  <1>. QED
    BY <1>1, <1>2, <1>3, <1>4, <1>5, <1>6, <1>7, <1>8 DEF Next

\* Every behaviour of dispatch, acceptance, cancellation, recovery and crash is
\* one of the ledger: no writer of `trips` writes a status that the row, as
\* that writer had read it, did not allow, or a driver the trip was not
\* offered to.
THEOREM DispatchKeepsTheLedger == Spec => ImplementsLedger
  <1>1. IInv /\ [Next]_vars => [Ledger!LedgerNext]_(Ledger!ledger)
    <2>. SUFFICES ASSUME IInv, [Next]_vars PROVE Ledger!LedgerNext
      OBVIOUS
    <2>1. CASE Next
      BY <2>1, NextLedger
    <2>2. CASE UNCHANGED vars
      BY <2>2, IdleLedger DEF vars
    <2>. QED
      BY <2>1, <2>2
  <1>. QED
    BY <1>1, InitLedger, Invariance, PTL DEF Spec, ImplementsLedger, Ledger!LedgerSpec

==============================================================================
