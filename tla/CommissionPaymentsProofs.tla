----------------------- MODULE CommissionPaymentsProofs -----------------------
(***************************************************************************)
(* CommissionPayments, for every set of payments, trips and workers and    *)
(* any number of faults: IInv is inductive, a confirmed payment stays      *)
(* confirmed, and counting ends with the handlers already at work.         *)
(***************************************************************************)
EXTENDS CommissionPayments, TLAPS

\* The two action properties, as facts about one step.
SucceededStep ==
    \A p \in Payments : payment[p] = "succeeded" => payment'[p] = "succeeded"
CountingStep ==
    /\ \A p \in Payments : payment[p] = "succeeded" /\ ~Busy(p)
                              => ~Busy(p)' /\ counted'[p] = counted[p]
    /\ \A t \in Trips : trip[t] = "completed" /\ ~Busy(t)
                           => ~Busy(t)' /\ charged'[t] = charged[t]

\* What every step does.
Kept == IInv' /\ SucceededStep /\ CountingStep

\* A worker that is not idle has a payment or a trip, and a status.
LEMMA TaskFields ==
  ASSUME IInv, NEW w \in Workers, task[w].pc # "idle"
  PROVE  /\ task[w].of \in Payments \cup Trips
         /\ task[w].status \in Outcomes \cup {"pending"} \cup TripMoves
         /\ HandlerOK(w)
  <1>1. task[w] \in Task
    BY DEF IInv, TypeOK
  <1>2. task[w] \in [pc : Places, of : Payments \cup Trips,
                     status : Outcomes \cup {"pending"} \cup TripMoves]
    BY <1>1 DEF Task
  <1>. QED
    BY <1>2 DEF IInv

\* A worker is given a task: the others keep theirs, and it is a task.
LEMMA RunType ==
  ASSUME TypeOK, NEW w \in Workers, NEW pc \in Places,
         NEW x \in Payments \cup Trips, NEW s \in Outcomes \cup {"pending"} \cup TripMoves,
         Run(w, pc, x, s)
  PROVE  /\ task' \in [Workers -> Task]
         /\ \A v \in Workers \ {w} : task'[v] = task[v]
         /\ task'[w].pc = pc /\ task'[w].of = x /\ task'[w].status = s
  <1>1. [pc |-> pc, of |-> x, status |-> s] \in Task
    BY DEF Task
  <1>. QED
    BY <1>1 DEF Run, Becomes, TypeOK

\* A worker becomes idle.
LEMMA IdleType ==
  ASSUME TypeOK, NEW w \in Workers, Becomes(w, Idle)
  PROVE  /\ task' \in [Workers -> Task]
         /\ \A v \in Workers \ {w} : task'[v] = task[v]
         /\ task'[w].pc = "idle"
  BY DEF Becomes, TypeOK, Task, Idle

\* Tasks that are free to come and go: not before the answer is stored.
Moves(w) ==
    /\ task' \in [Workers -> Task]
    /\ \A v \in Workers \ {w} : task'[v] = task[v]
    /\ task'[w].pc \notin {"initiate", "store"}

\* Nobody else starts an initiation.
LEMMA MovesInitiation ==
  ASSUME IInv, NEW w \in Workers, Moves(w)
  PROVE  OneInitiation'
  BY DEF IInv, OneInitiation, Moves

\* The handlers that went on keep their facts if the tables keep theirs.
LEMMA OthersOK ==
  ASSUME IInv, NEW w \in Workers, Moves(w),
         UNCHANGED <<payment, refs, outcome>>, HandlerOK(w)'
  PROVE  \A v \in Workers : HandlerOK(v)'
  <1>1. ASSUME NEW v \in Workers \ {w} PROVE HandlerOK(v)'
    BY <1>1 DEF Moves, HandlerOK, IInv
  <1>. QED
    BY <1>1

------------------------------------------------------------------------------
\* A request starts nothing that is counted already.
LEMMA PayCommissionKept ==
  ASSUME IInv, NEW w \in Workers, NEW p \in Payments, PayCommission(w, p)
  PROVE  Kept
  <1>1. /\ task' \in [Workers -> Task]
        /\ \A v \in Workers \ {w} : task'[v] = task[v]
        /\ task'[w].pc = "initiate" /\ task'[w].of = p /\ task'[w].status = "pending"
    BY RunType DEF PayCommission, IInv, Places
  <1>2. payment[p] = "absent" /\ ~refs[p] /\ task[w].pc = "idle"
    BY DEF PayCommission, IInv, RowOK, At
  <1>3. /\ payment' = [payment EXCEPT ![p] = "pending"]
        /\ UNCHANGED <<provider, refs, outcome, counted, trip, charged, faults>>
    BY DEF PayCommission
  <1>4. TypeOK'
    BY <1>1, <1>3 DEF IInv, TypeOK
  <1>5. \A v \in Workers : task[v].pc # "idle" => task[v].of # p
    <2>1. ASSUME NEW v \in Workers, task[v].pc # "idle", task[v].of = p PROVE FALSE
      <3>1. task[v].pc \in Places /\ HandlerOK(v)
        BY <2>1, TaskFields DEF IInv, TypeOK, Task, Places
      <3>2. p \notin Trips
        BY ConstantAssumption
      <3>. QED
        BY <1>2, <2>1, <3>1, <3>2 DEF HandlerOK, Places
    <2>. QED
      BY <2>1
  <1>6. OneInitiation'
    BY <1>1, <1>2, <1>5 DEF IInv, OneInitiation
  <1>7. ASSUME NEW v \in Workers PROVE HandlerOK(v)'
    <2>1. CASE v = w
      BY <1>1, <1>2, <1>3, <2>1 DEF HandlerOK, IInv, TypeOK
    <2>2. CASE v # w
      BY <1>1, <1>2, <1>3, <1>5, <2>2 DEF HandlerOK, IInv, TypeOK
    <2>. QED
      BY <2>1, <2>2
  <1>8. (\A q \in Payments : RowOK(q)') /\ CountedWasPaid'
    BY <1>2, <1>3 DEF IInv, TypeOK, RowOK, CountedWasPaid, Outcomes
  <1>9. SucceededStep
    BY <1>2, <1>3 DEF SucceededStep, IInv, TypeOK
  <1>10. CountingStep
    <2>1. \A x : ~Busy(x) /\ x # p => ~Busy(x)'
      BY <1>1, <1>2 DEF Busy
    <2>2. p \notin Trips
      BY ConstantAssumption
    <2>. QED
      BY <1>2, <1>3, <2>1, <2>2 DEF CountingStep
  <1>. QED
    BY <1>4, <1>6, <1>7, <1>8, <1>9, <1>10 DEF Kept, IInv

\* A step that only moves a worker on, for an item that it worked on before or
\* that is not settled yet.
LEMMA QuietKept ==
  ASSUME IInv, NEW w \in Workers, Moves(w), HandlerOK(w)',
         UNCHANGED <<provider, payment, refs, outcome, counted, trip, charged>>,
         faults' \in 0..MaxFaults,
         \/ task'[w].pc = "idle"
         \/ task[w].pc # "idle" /\ task'[w].of = task[w].of
         \/ /\ task'[w].of \in Payments => payment[task'[w].of] # "succeeded"
            /\ task'[w].of \in Trips => trip[task'[w].of] # "completed"
  PROVE  Kept
  <1>1. TypeOK'
    BY DEF IInv, TypeOK, Moves
  <1>2. OneInitiation' /\ \A v \in Workers : HandlerOK(v)'
    BY MovesInitiation, OthersOK
  <1>3. (\A p \in Payments : RowOK(p)') /\ CountedWasPaid' /\ SucceededStep
    BY DEF IInv, RowOK, CountedWasPaid, SucceededStep
  <1>4. CountingStep
    BY DEF CountingStep, Busy, Moves
  <1>. QED
    BY <1>1, <1>2, <1>3, <1>4 DEF Kept, IInv

\* handleWebhook reads a payment not yet succeeded, and the provider's outcome.
LEMMA HandleWebhookKept ==
  ASSUME IInv, NEW w \in Workers, NEW p \in Payments, HandleWebhook(w, p)
  PROVE  Kept
  <1>1. outcome[p] \in Outcomes /\ refs[p] /\ payment[p] # "succeeded" /\ p \notin Trips
    BY ConstantAssumption DEF HandleWebhook, Notified, Findable, AlreadyProcessed
  <1>2. /\ task' \in [Workers -> Task]
        /\ \A v \in Workers \ {w} : task'[v] = task[v]
        /\ task'[w].pc = "update" /\ task'[w].of = p /\ task'[w].status = outcome[p]
    BY <1>1, RunType DEF HandleWebhook, IInv, Places
  <1>3. UNCHANGED <<provider, payment, refs, outcome, counted, trip, charged, faults>>
    BY DEF HandleWebhook
  <1>4. Moves(w) /\ HandlerOK(w)'
    BY <1>1, <1>2, <1>3 DEF Moves, HandlerOK
  <1>. QED
    BY <1>1, <1>2, <1>3, <1>4, QuietKept DEF IInv, TypeOK

\* checkPaymentStatus goes on with a payment that is pending.
LEMMA CheckPaymentStatusKept ==
  ASSUME IInv, NEW w \in Workers, NEW p \in Payments, CheckPaymentStatus(w, p)
  PROVE  Kept
  <1>1. refs[p] /\ payment[p] # "succeeded" /\ p \notin Trips
    BY ConstantAssumption DEF CheckPaymentStatus
  <1>2. /\ task' \in [Workers -> Task]
        /\ \A v \in Workers \ {w} : task'[v] = task[v]
        /\ task'[w].pc = "ask" /\ task'[w].of = p
    BY RunType DEF CheckPaymentStatus, IInv, Places
  <1>3. UNCHANGED <<provider, payment, refs, outcome, counted, trip, charged, faults>>
    BY DEF CheckPaymentStatus
  <1>4. Moves(w) /\ HandlerOK(w)'
    BY <1>1, <1>2, <1>3 DEF Moves, HandlerOK
  <1>. QED
    BY <1>1, <1>2, <1>3, <1>4, QuietKept DEF IInv, TypeOK

\* No move starts on a completed trip.
LEMMA UpdateStatusKept ==
  ASSUME IInv, NEW w \in Workers, NEW t \in Trips, NEW s \in TripMoves, UpdateStatus(w, t, s)
  PROVE  Kept
  <1>1. trip[t] # "completed" /\ t \notin Payments
    BY ConstantAssumption DEF UpdateStatus, canTransition, TRANSITIONS
  <1>2. /\ task' \in [Workers -> Task]
        /\ \A v \in Workers \ {w} : task'[v] = task[v]
        /\ task'[w].pc = "write" /\ task'[w].of = t /\ task'[w].status = s
    BY RunType DEF UpdateStatus, IInv, Places
  <1>3. UNCHANGED <<provider, payment, refs, outcome, counted, trip, charged, faults>>
    BY DEF UpdateStatus
  <1>4. Moves(w) /\ HandlerOK(w)'
    BY <1>2, <1>3 DEF Moves, HandlerOK
  <1>. QED
    BY <1>1, <1>2, <1>3, <1>4, QuietKept DEF IInv, TypeOK

\* A handler that ends, by an error or not, leaves all facts to the others.
LEMMA EndKept ==
  ASSUME IInv, NEW w \in Workers, Becomes(w, Idle), faults' \in 0..MaxFaults,
         UNCHANGED <<provider, payment, refs, outcome, counted, trip, charged>>
  PROVE  Kept
  <1>1. Moves(w) /\ HandlerOK(w)' /\ task'[w].pc = "idle"
    BY IdleType DEF IInv, Moves, HandlerOK
  <1>. QED
    BY <1>1, QuietKept

\* checkTransactionStatus tells what the provider has decided.
LEMMA AskProviderKept ==
  ASSUME IInv, NEW w \in Workers, AskProvider(w)
  PROVE  Kept
  <1>1. /\ task[w].pc = "ask" /\ task[w].of \in Payments /\ refs[task[w].of]
        /\ UNCHANGED <<provider, payment, refs, outcome, counted, trip, charged, faults>>
    BY TaskFields DEF AskProvider, At, HandlerOK
  <1>2. CASE Becomes(w, Idle)
    BY <1>1, <1>2, EndKept DEF IInv, TypeOK
  <1>3. CASE /\ outcome[task[w].of] \in Outcomes
             /\ Run(w, "update", task[w].of, outcome[task[w].of])
    <2>1. /\ task' \in [Workers -> Task]
          /\ \A v \in Workers \ {w} : task'[v] = task[v]
          /\ task'[w].pc = "update" /\ task'[w].of = task[w].of
          /\ task'[w].status = outcome[task[w].of]
      BY <1>1, <1>3, RunType DEF IInv, Places
    <2>2. Moves(w) /\ HandlerOK(w)'
      BY <1>1, <1>3, <2>1 DEF Moves, HandlerOK
    <2>. QED
      BY <1>1, <2>1, <2>2, QuietKept DEF IInv, TypeOK
  <1>. QED
    BY <1>2, <1>3 DEF AskProvider

\* The worker is at an item already: nothing else gets busy.
LEMMA BusyKept ==
  ASSUME IInv, NEW w \in Workers, task[w].pc # "idle",
         \A v \in Workers \ {w} : task'[v] = task[v],
         task'[w].pc # "idle" => task'[w].of = task[w].of
  PROVE  \A x : ~Busy(x) => ~Busy(x)' /\ x # task[w].of
  BY DEF Busy

\* The provider registers a payment that nobody can find yet.
LEMMA InitiateKept ==
  ASSUME IInv, NEW w \in Workers, Initiate(w)
  PROVE  Kept
  <1> DEFINE p == task[w].of
  <1>1. /\ task[w].pc = "initiate" /\ p \in Payments
        /\ payment[p] = "pending" /\ ~refs[p]
    BY TaskFields DEF Initiate, At, HandlerOK
  <1>2. UNCHANGED <<provider, payment, refs, counted, trip, charged, faults>>
    BY DEF Initiate
  <1>3. CASE Becomes(w, Idle) /\ UNCHANGED outcome
    BY <1>2, <1>3, EndKept DEF IInv, TypeOK
  <1>4. ASSUME NEW o \in {"pending", "succeeded"},
               outcome' = [outcome EXCEPT ![p] = o],
               Becomes(w, Idle) \/ Run(w, "store", p, o)
        PROVE  Kept
    <2>1. /\ task' \in [Workers -> Task]
          /\ \A v \in Workers \ {w} : task'[v] = task[v]
          /\ \/ task'[w].pc = "idle"
             \/ task'[w].pc = "store" /\ task'[w].of = p /\ task'[w].status = o
      BY <1>1, <1>4, RunType, IdleType DEF IInv, Places, Outcomes
    <2>2. TypeOK'
      BY <1>1, <1>2, <1>4, <2>1 DEF IInv, TypeOK, Outcomes
    <2>3. OneInitiation'
      BY <1>1, <2>1 DEF IInv, OneInitiation
    <2>4. ASSUME NEW v \in Workers PROVE HandlerOK(v)'
      <3>1. CASE v = w
        BY <1>1, <1>2, <1>4, <2>1, <3>1 DEF HandlerOK, IInv, TypeOK
      <3>2. CASE v # w
        <4>1. HandlerOK(v) /\ task'[v] = task[v]
          BY <2>1, <3>2 DEF IInv
        <4>2. task[v].pc = "store" => task[v].of # p
          BY <1>1, <3>2 DEF IInv, OneInitiation
        <4>. QED
          BY <1>1, <1>2, <1>4, <4>1, <4>2 DEF HandlerOK, IInv, TypeOK
      <3>. QED
        BY <3>1, <3>2
    <2>5. (\A q \in Payments : RowOK(q)') /\ CountedWasPaid'
      BY <1>1, <1>2, <1>4 DEF IInv, TypeOK, RowOK, CountedWasPaid, Outcomes
    <2>6. SucceededStep /\ CountingStep
      BY <1>1, <1>2, <2>1, BusyKept DEF SucceededStep, CountingStep
    <2>. QED
      BY <2>2, <2>3, <2>4, <2>5, <2>6 DEF Kept, IInv
  <1>. QED
    BY <1>3, <1>4 DEF Initiate

\* A statement that writes the status s on payment p, as the handler at w was
\* told: the outcome is s, or nobody has found the payment.
LEMMA WriteKept ==
  ASSUME IInv, NEW w \in Workers, NEW p \in Payments, NEW s \in Outcomes \cup {"pending"},
         task[w].pc # "idle", task[w].of = p,
         payment' = [payment EXCEPT ![p] = s],
         refs' = [refs EXCEPT ![p] = TRUE],
         ApplyOrReturn(w, p, s),
         s \in Outcomes => outcome[p] = s,
         refs[p] => s \in Outcomes,
         \A v \in Workers \ {w} :
            task[v].pc \in {"initiate", "store"} => task[v].of # p,
         UNCHANGED <<provider, outcome, counted, trip, charged, faults>>
  PROVE  Kept
  <1>1. /\ Moves(w)
        /\ \/ task'[w].pc = "idle"
           \/ /\ task'[w].pc = "apply" /\ task'[w].of = p /\ task'[w].status = s
              /\ s = "succeeded"
    <2>1. CASE Succeeds(s)
      BY <2>1, RunType DEF ApplyOrReturn, Moves, IInv, Places, Succeeds
    <2>2. CASE ~Succeeds(s)
      BY <2>2, IdleType DEF ApplyOrReturn, Moves, IInv
    <2>. QED
      BY <2>1, <2>2
  <1>2. TypeOK'
    BY <1>1 DEF IInv, TypeOK, Moves
  <1>3. OneInitiation'
    BY <1>1, MovesInitiation
  <1>4. ASSUME NEW v \in Workers PROVE HandlerOK(v)'
    <2>1. CASE v = w
      BY <1>1, <2>1 DEF HandlerOK, IInv, TypeOK, Outcomes
    <2>2. CASE v # w
      <3>1. HandlerOK(v) /\ task'[v] = task[v]
        BY <1>1, <2>2 DEF IInv, Moves
      <3>2. task[v].pc = "apply" /\ task[v].of = p => s = "succeeded"
        BY <3>1 DEF HandlerOK
      <3>. QED
        BY <2>2, <3>1, <3>2 DEF HandlerOK, IInv, TypeOK
    <2>. QED
      BY <2>1, <2>2
  <1>5. \A q \in Payments : RowOK(q)'
    BY DEF IInv, TypeOK, RowOK, Outcomes
  <1>6. payment[p] = "succeeded" => s = "succeeded"
    BY DEF IInv, RowOK, Outcomes
  <1>7. CountedWasPaid' /\ SucceededStep
    BY <1>6 DEF IInv, TypeOK, CountedWasPaid, SucceededStep
  <1>8. CountingStep
    BY <1>1, BusyKept DEF CountingStep, Moves
  <1>. QED
    BY <1>2, <1>3, <1>4, <1>5, <1>7, <1>8 DEF Kept, IInv

\* payCommission's update: the first write that lets the payment be found.
LEMMA StoreAnswerKept ==
  ASSUME IInv, NEW w \in Workers, StoreAnswer(w)
  PROVE  Kept
  <1>1. task[w].pc = "store" /\ HandlerOK(w)
        /\ task[w].status \in Outcomes \cup {"pending"}
    <2>1. /\ task[w].pc = "store" /\ HandlerOK(w)
          /\ task[w].status \in Outcomes \cup {"pending"} \cup TripMoves
      BY TaskFields DEF StoreAnswer, At
    <2>2. outcome[task[w].of] \in Outcomes \cup {"none", "pending"}
      BY <2>1 DEF HandlerOK, IInv, TypeOK
    <2>. QED
      BY <2>1, <2>2 DEF HandlerOK, Outcomes, TripMoves
  <1>2. \A v \in Workers \ {w} :
           task[v].pc \in {"initiate", "store"} => task[v].of # task[w].of
    BY <1>1 DEF IInv, OneInitiation
  <1>. QED
    BY <1>1, <1>2, WriteKept DEF StoreAnswer, HandlerOK, Outcomes

\* The update of a webhook or a poll: the outcome has not changed since.
LEMMA UpdatePaymentKept ==
  ASSUME IInv, NEW w \in Workers, UpdatePayment(w)
  PROVE  Kept
  <1>1. /\ task[w].pc = "update" /\ task[w].of \in Payments /\ refs[task[w].of]
        /\ task[w].status = outcome[task[w].of] /\ task[w].status \in Outcomes
    BY TaskFields DEF UpdatePayment, At, HandlerOK
  <1>2. \A v \in Workers : task[v].pc \in {"initiate", "store"} => task[v].of # task[w].of
    BY <1>1 DEF IInv, HandlerOK
  <1>3. refs' = [refs EXCEPT ![task[w].of] = TRUE]
    BY <1>1 DEF UpdatePayment, IInv, TypeOK
  <1>. QED
    BY <1>1, <1>2, <1>3, WriteKept DEF UpdatePayment

\* The payment is subtracted: it is confirmed.
LEMMA MarkCommissionPaidKept ==
  ASSUME IInv, NEW w \in Workers, MarkCommissionPaid(w)
  PROVE  Kept
  <1> DEFINE p == task[w].of
  <1>1. /\ task[w].pc = "apply" /\ p \in Payments /\ p \notin Trips
        /\ payment[p] = "succeeded" /\ outcome[p] = "succeeded"
    BY TaskFields, ConstantAssumption DEF MarkCommissionPaid, At, HandlerOK
  <1>2. /\ Moves(w) /\ task'[w].pc = "idle" /\ HandlerOK(w)'
        /\ counted' = [counted EXCEPT ![p] = @ + 1]
        /\ UNCHANGED <<provider, payment, refs, outcome, trip, charged, faults>>
    BY IdleType DEF MarkCommissionPaid, Moves, HandlerOK, IInv
  <1>3. TypeOK'
    BY <1>1, <1>2 DEF IInv, TypeOK, Moves
  <1>4. OneInitiation' /\ \A v \in Workers : HandlerOK(v)'
    BY <1>2, MovesInitiation, OthersOK
  <1>5. (\A q \in Payments : RowOK(q)') /\ CountedWasPaid' /\ SucceededStep
    BY <1>1, <1>2 DEF IInv, TypeOK, RowOK, CountedWasPaid, SucceededStep
  <1>6. CountingStep
    BY <1>1, <1>2, BusyKept DEF CountingStep, IInv, TypeOK, Moves
  <1>. QED
    BY <1>3, <1>4, <1>5, <1>6 DEF Kept, IInv

\* The trip is moved by a handler at work on it.
LEMMA WriteStatusKept ==
  ASSUME IInv, NEW w \in Workers, WriteStatus(w)
  PROVE  Kept
  <1> DEFINE t == task[w].of  s == task[w].status
  <1>1. task[w].pc = "write" /\ t \in Trips /\ t \notin Payments /\ s \in TripMoves
    BY TaskFields, ConstantAssumption DEF WriteStatus, At, HandlerOK
  <1>2. /\ trip' = [trip EXCEPT ![t] = s]
        /\ UNCHANGED <<provider, payment, refs, outcome, counted, charged, faults>>
        /\ Run(w, "announce", t, s) \/ Becomes(w, Idle)
    BY DEF WriteStatus
  <1>3. /\ Moves(w) /\ HandlerOK(w)'
        /\ task'[w].pc = "idle" \/ (task'[w].pc = "announce" /\ task'[w].of = t)
    <2>1. CASE Run(w, "announce", t, s)
      BY <1>1, <2>1, RunType DEF Moves, HandlerOK, IInv, Places
    <2>2. CASE Becomes(w, Idle)
      BY <2>2, IdleType DEF Moves, HandlerOK, IInv
    <2>. QED
      BY <1>2, <2>1, <2>2
  <1>4. TypeOK'
    BY <1>1, <1>2, <1>3 DEF IInv, TypeOK, Moves
  <1>5. OneInitiation' /\ \A v \in Workers : HandlerOK(v)'
    BY <1>2, <1>3, MovesInitiation, OthersOK
  <1>6. (\A q \in Payments : RowOK(q)') /\ CountedWasPaid' /\ SucceededStep
    BY <1>2 DEF IInv, RowOK, CountedWasPaid, SucceededStep
  <1>7. CountingStep
    BY <1>1, <1>2, <1>3, BusyKept DEF CountingStep, Moves
  <1>. QED
    BY <1>4, <1>5, <1>6, <1>7 DEF Kept, IInv

\* The event goes by what is read again; the handler stays at its trip.
LEMMA EmitStatusEventKept ==
  ASSUME IInv, NEW w \in Workers, EmitStatusEvent(w)
  PROVE  Kept
  <1> DEFINE t == task[w].of
  <1>1. /\ task[w].pc = "announce" /\ t \in Trips
        /\ UNCHANGED <<provider, payment, refs, outcome, counted, trip, charged, faults>>
    BY TaskFields DEF EmitStatusEvent, At, HandlerOK
  <1>2. CASE Becomes(w, Idle)
    BY <1>1, <1>2, EndKept DEF IInv, TypeOK
  <1>3. CASE Run(w, "charge", t, "completed")
    <2>1. /\ task' \in [Workers -> Task]
          /\ \A v \in Workers \ {w} : task'[v] = task[v]
          /\ task'[w].pc = "charge" /\ task'[w].of = t /\ task'[w].status = "completed"
      BY <1>1, <1>3, RunType DEF IInv, Places, TripMoves
    <2>2. Moves(w) /\ HandlerOK(w)'
      BY <1>1, <2>1 DEF Moves, HandlerOK, TripMoves
    <2>. QED
      BY <1>1, <2>1, <2>2, QuietKept DEF IInv, TypeOK
  <1>. QED
    BY <1>2, <1>3 DEF EmitStatusEvent

\* The commission is added by a handler at work on the trip.
LEMMA HandleTripCompletedKept ==
  ASSUME IInv, NEW w \in Workers, HandleTripCompleted(w)
  PROVE  Kept
  <1> DEFINE t == task[w].of
  <1>1. task[w].pc = "charge" /\ t \in Trips
    BY TaskFields DEF HandleTripCompleted, At, HandlerOK
  <1>2. /\ Moves(w) /\ task'[w].pc = "idle" /\ HandlerOK(w)'
        /\ charged' = [charged EXCEPT ![t] = @ + 1]
        /\ UNCHANGED <<provider, payment, refs, outcome, counted, trip, faults>>
    BY IdleType DEF HandleTripCompleted, Moves, HandlerOK, IInv
  <1>3. TypeOK'
    BY <1>1, <1>2 DEF IInv, TypeOK, Moves
  <1>4. OneInitiation' /\ \A v \in Workers : HandlerOK(v)'
    BY <1>2, MovesInitiation, OthersOK
  <1>5. (\A q \in Payments : RowOK(q)') /\ CountedWasPaid' /\ SucceededStep
    BY <1>2 DEF IInv, RowOK, CountedWasPaid, SucceededStep
  <1>6. CountingStep
    BY <1>1, <1>2, BusyKept DEF CountingStep, IInv, TypeOK, Moves
  <1>. QED
    BY <1>3, <1>4, <1>5, <1>6 DEF Kept, IInv

\* The provider settles a payment whose status nobody was told yet.
LEMMA SettleKept ==
  ASSUME IInv, NEW p \in Payments, Settle(p)
  PROVE  Kept
  <1>1. PICK o \in Outcomes : outcome' = [outcome EXCEPT ![p] = o]
    BY DEF Settle
  <1>2. /\ outcome[p] = "pending"
        /\ UNCHANGED <<provider, payment, refs, counted, trip, charged, task, faults>>
    BY DEF Settle
  <1>3. TypeOK' /\ OneInitiation'
    BY <1>1, <1>2 DEF IInv, TypeOK, OneInitiation
  <1>4. ASSUME NEW v \in Workers PROVE HandlerOK(v)'
    <2>1. HandlerOK(v)
      BY DEF IInv
    <2>2. task[v].pc \in {"update", "apply"} => task[v].of # p
      BY <1>2, <2>1 DEF HandlerOK, Outcomes
    <2>3. CASE task[v].pc = "store" /\ task[v].of = p
      <3>1. task[v].status = "pending"
        BY <1>2, <2>1, <2>3 DEF HandlerOK
      <3>. QED
        BY <1>2, <2>1, <2>3, <3>1 DEF HandlerOK
    <2>4. CASE ~(task[v].pc = "store" /\ task[v].of = p)
      BY <1>1, <1>2, <2>1, <2>2, <2>4 DEF HandlerOK, IInv, TypeOK
    <2>. QED
      BY <2>3, <2>4
  <1>5. (\A q \in Payments : RowOK(q)') /\ CountedWasPaid'
    BY <1>1, <1>2 DEF IInv, TypeOK, RowOK, CountedWasPaid, Outcomes
  <1>6. SucceededStep /\ CountingStep
    BY <1>2 DEF SucceededStep, CountingStep, Busy
  <1>. QED
    BY <1>3, <1>4, <1>5, <1>6 DEF Kept, IInv

------------------------------------------------------------------------------
\* The initial states.
LEMMA InitInv == Init => IInv
  BY ConstantAssumption
  DEF Init, IInv, TypeOK, CountedWasPaid, OneInitiation, HandlerOK, RowOK, Outcomes,
      Task, Idle

\* Every step keeps the invariant and satisfies both action properties.
LEMMA NextKept ==
  ASSUME IInv, [Next]_vars
  PROVE  Kept
  <1>1. ASSUME NEW w \in Workers, Request(w) PROVE Kept
    BY <1>1, PayCommissionKept, HandleWebhookKept, CheckPaymentStatusKept,
       UpdateStatusKept DEF Request
  <1>2. ASSUME NEW w \in Workers, Step(w) PROVE Kept
    BY <1>2, InitiateKept, StoreAnswerKept, AskProviderKept, UpdatePaymentKept,
       MarkCommissionPaidKept, WriteStatusKept, EmitStatusEventKept, HandleTripCompletedKept
       DEF Step
  <1>3. ASSUME NEW w \in Workers, Fail(w) PROVE Kept
    <2>1. faults' \in 0..MaxFaults
      BY <1>3, ConstantAssumption DEF Fail, IInv, TypeOK
    <2>. QED
      BY <1>3, <2>1, EndKept DEF Fail
  <1>4. ASSUME NEW p \in Payments, Settle(p) PROVE Kept
    BY <1>4, SettleKept
  <1>5. CASE UNCHANGED vars
    BY <1>5 DEF vars, Kept, IInv, TypeOK, CountedWasPaid, OneInitiation, HandlerOK,
                RowOK, SucceededStep, CountingStep, Busy
  <1>. QED
    BY <1>1, <1>2, <1>3, <1>4, <1>5 DEF Next

\* The inductive invariant holds in every order of the requests, webhooks, polls
\* and errors.
THEOREM Invariance == Spec => []IInv
  <1>1. IInv /\ [Next]_vars => IInv'
    BY NextKept DEF Kept
  <1>. QED
    BY <1>1, InitInv, PTL DEF Spec

\* commission_due is lowered only for payments that the provider confirmed.
THEOREM OnlyPaidIsCounted == Spec => []CountedWasPaid
  <1>1. IInv => CountedWasPaid
    BY DEF IInv
  <1>. QED
    BY <1>1, Invariance, PTL

\* No handler takes a confirmation back.
THEOREM ConfirmedForGood == Spec => SucceededStays
  <1>1. IInv /\ [Next]_vars => SucceededStep
    BY NextKept DEF Kept
  <1>. QED
    BY <1>1, Invariance, PTL DEF Spec, SucceededStays, SucceededStep

\* Later webhooks, polls and completions count nothing.
THEOREM CountingIsOver == Spec => CountingEnds
  <1>1. IInv /\ [Next]_vars => CountingStep
    BY NextKept DEF Kept
  <1>. QED
    BY <1>1, Invariance, PTL DEF Spec, CountingEnds, CountingStep
==============================================================================
