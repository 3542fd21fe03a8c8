-------------------------- MODULE CommissionPayments --------------------------
(***************************************************************************)
(* What a driver owes the platform: CommissionsService adds the commission *)
(* of every completed trip to drivers.commission_due, PaymentsService      *)
(* subtracts every payment that the provider confirms, at once (mock), by  *)
(* a webhook or when polled (Orange Money).                                *)
(*                                                                         *)
(* The column is changed by atomic increments only, so it is the sum of    *)
(* what was charged and counted; `charged` and `counted` say how often     *)
(* each trip and each payment went into it.                                *)
(***************************************************************************)
EXTENDS TripLifecycle, Naturals

CONSTANTS
    Payments,   \* ids of commission_payments
    Trips,      \* trips whose driver is arriving
    Workers,    \* requests the process serves at once
    MaxFaults   \* bound: how many handlers an error or a crash may end

ASSUME ConstantAssumption ==
    /\ Payments \cap Trips = {}
    /\ MaxFaults \in Nat

VARIABLES
    provider,   \* PAYMENT_PROVIDER, set when the process starts
    payment,    \* commission_payments.status, "absent" before the insert
    refs,       \* transaction_ref, order_id and notif_token are stored
    outcome,    \* what the provider has made of the payment
    counted,    \* how often markCommissionPaid subtracted the payment
    trip,       \* trips.status
    charged,    \* how often handleTripCompleted added the trip's commission
    task,       \* the handler each worker is running
    faults      \* how many handlers were ended by an error

vars == <<provider, payment, refs, outcome, counted, trip, charged, task, faults>>

Outcomes == {"succeeded", "failed", "expired"}
Places == {"idle", "initiate", "store", "ask", "update", "apply", "write", "announce", "charge"}

\* What a trip may become; one cancellation stands for all.
TripMoves == {"in_progress", "completed", "cancelled_by_client"}

\* A handler in progress: where it is, its payment or trip, and the status it
\* was told.
Task == [pc : Places, of : Payments \cup Trips, status : Outcomes \cup {"pending"} \cup TripMoves]
        \cup {[pc |-> "idle"]}
Idle == [pc |-> "idle"]

TypeOK ==
    /\ provider \in {"mock", "orange"}
    /\ payment \in [Payments -> Outcomes \cup {"absent", "pending"}]
    /\ refs \in [Payments -> BOOLEAN]
    /\ outcome \in [Payments -> Outcomes \cup {"none", "pending"}]
    /\ counted \in [Payments -> Nat]
    /\ trip \in [Trips -> {"driver_arriving"} \cup TripMoves]
    /\ charged \in [Trips -> Nat]
    /\ task \in [Workers -> Task]
    /\ faults \in 0..MaxFaults

Init ==
    /\ provider \in {"mock", "orange"}
    /\ payment = [p \in Payments |-> "absent"]
    /\ refs = [p \in Payments |-> FALSE]
    /\ outcome = [p \in Payments |-> "none"]
    /\ counted = [p \in Payments |-> 0]
    /\ trip = [t \in Trips |-> "driver_arriving"]
    /\ charged = [t \in Trips |-> 0]
    /\ task = [w \in Workers |-> Idle]
    /\ faults = 0

At(w, pc) == task[w].pc = pc
Becomes(w, k) == task' = [task EXCEPT ![w] = k]
Run(w, pc, x, s) == Becomes(w, [pc |-> pc, of |-> x, status |-> s])

\* What confirms a payment.
SucceedsUnlessFailed(s) == s \notin {"failed", "pending"}
SucceedsNever(s) == FALSE
Succeeds(s) == s = "succeeded"

\* A handler told the status s goes on to subtract the payment, or returns.
ApplyOrReturn(w, p, s) ==
    IF Succeeds(s) THEN Run(w, "apply", p, s) ELSE Becomes(w, Idle)

------------------------------------------------------------------------------
(***************************************************************************)
(* payCommission: insert, ask the provider, store what it answered.        *)
(***************************************************************************)
PayCommission(w, p) ==
    /\ At(w, "idle")
    /\ payment[p] = "absent"
    /\ payment' = [payment EXCEPT ![p] = "pending"]
    /\ Run(w, "initiate", p, "pending")
    /\ UNCHANGED <<provider, refs, outcome, counted, trip, charged, faults>>

\* Orange Money answers pending, or does not answer although it may have
\* registered the payment; the mock confirms at once.
Initiate(w) ==
    LET p == task[w].of IN
    /\ At(w, "initiate")
    /\ \/ /\ provider = "orange"
          /\ outcome' = [outcome EXCEPT ![p] = "pending"]
          /\ Run(w, "store", p, "pending") \/ Becomes(w, Idle)
       \/ /\ provider = "orange"
          /\ Becomes(w, Idle)
          /\ UNCHANGED outcome
       \/ /\ provider = "mock"
          /\ outcome' = [outcome EXCEPT ![p] = "succeeded"]
          /\ Run(w, "store", p, "succeeded")
    /\ UNCHANGED <<provider, payment, refs, counted, trip, charged, faults>>

StoreAnswer(w) ==
    LET p == task[w].of  s == task[w].status IN
    /\ At(w, "store")
    /\ payment' = [payment EXCEPT ![p] = s]
    /\ refs' = [refs EXCEPT ![p] = TRUE]
    /\ ApplyOrReturn(w, p, s)
    /\ UNCHANGED <<provider, outcome, counted, trip, charged, faults>>

\* The payer confirms or refuses, or the payment lapses; the outcome is final.
Settle(p) ==
    /\ outcome[p] = "pending"
    /\ \E o \in Outcomes : outcome' = [outcome EXCEPT ![p] = o]
    /\ UNCHANGED <<provider, payment, refs, counted, trip, charged, task, faults>>

------------------------------------------------------------------------------
(***************************************************************************)
(* The provider may notify an outcome any number of times, or never.       *)
(***************************************************************************)
\* The payment is found by what payCommission stored last.
FindableAtOnce(p) == payment[p] # "absent"
Findable(p) == refs[p]

\* "Idempotence": what the webhook reads of the payment.
AlreadyProcessedNever(p) == FALSE
AlreadyProcessed(p) == payment[p] = "succeeded"

\* verifyWebhook lets through the notices of an outcome; the mock sends none.
Notified(p) == provider = "orange" /\ outcome[p] \in Outcomes

\* handleWebhook, up to its update; the other cases change nothing.
HandleWebhook(w, p) ==
    /\ At(w, "idle")
    /\ Notified(p)
    /\ Findable(p)
    /\ ~AlreadyProcessed(p)
    /\ Run(w, "update", p, outcome[p])
    /\ UNCHANGED <<provider, payment, refs, outcome, counted, trip, charged, faults>>

\* checkPaymentStatus: a payment with a terminal status is returned as it is;
\* the mock gives no order_id to ask with.
CheckPaymentStatus(w, p) ==
    /\ At(w, "idle")
    /\ provider = "orange"
    /\ payment[p] = "pending"
    /\ refs[p]
    /\ Run(w, "ask", p, "pending")
    /\ UNCHANGED <<provider, payment, refs, outcome, counted, trip, charged, faults>>

\* checkTransactionStatus; an error is logged and the status read is returned.
AskProvider(w) ==
    LET p == task[w].of IN
    /\ At(w, "ask")
    /\ \/ outcome[p] \in Outcomes /\ Run(w, "update", p, outcome[p])
       \/ Becomes(w, Idle)
    /\ UNCHANGED <<provider, payment, refs, outcome, counted, trip, charged, faults>>

\* commissionPayment.update by id, whatever the status is by now.
UpdatePayment(w) ==
    LET p == task[w].of  s == task[w].status IN
    /\ At(w, "update")
    /\ payment' = [payment EXCEPT ![p] = s]
    /\ ApplyOrReturn(w, p, s)
    /\ UNCHANGED <<provider, refs, outcome, counted, trip, charged, faults>>

\* applyPaymentSuccess, markCommissionPaid
MarkCommissionPaid(w) ==
    /\ At(w, "apply")
    /\ counted' = [counted EXCEPT ![task[w].of] = @ + 1]
    /\ Becomes(w, Idle)
    /\ UNCHANGED <<provider, payment, refs, outcome, trip, charged, faults>>

------------------------------------------------------------------------------
(***************************************************************************)
(* updateStatus and completeTrip: read the trip and check; write by id;    *)
(* read again, and emit TripCompleted if the trip is completed by then,    *)
(* whoever completed it.  The listener reads the trip and adds its         *)
(* commission.                                                             *)
(***************************************************************************)
UpdateStatus(w, t, s) ==
    /\ At(w, "idle")
    /\ canTransition(trip[t], s)
    /\ Run(w, "write", t, s)
    /\ UNCHANGED <<provider, payment, refs, outcome, counted, trip, charged, faults>>

\* A cancellation by the stale sweep emits no event.
WriteStatus(w) ==
    LET t == task[w].of  s == task[w].status IN
    /\ At(w, "write")
    /\ trip' = [trip EXCEPT ![t] = s]
    /\ \/ Run(w, "announce", t, s)
       \/ s = "cancelled_by_client" /\ Becomes(w, Idle)
    /\ UNCHANGED <<provider, payment, refs, outcome, counted, charged, faults>>

\* By the status that is read again, not by the one that was asked for.
EmitStatusEvent(w) ==
    LET t == task[w].of IN
    /\ At(w, "announce")
    /\ IF trip[t] = "completed" THEN Run(w, "charge", t, "completed") ELSE Becomes(w, Idle)
    /\ UNCHANGED <<provider, payment, refs, outcome, counted, trip, charged, faults>>

\* handleTripCompleted
HandleTripCompleted(w) ==
    /\ At(w, "charge")
    /\ charged' = [charged EXCEPT ![task[w].of] = @ + 1]
    /\ Becomes(w, Idle)
    /\ UNCHANGED <<provider, payment, refs, outcome, counted, trip, faults>>

\* A statement fails, or the process dies: the handler does not go on.
Fail(w) ==
    /\ ~At(w, "idle")
    /\ faults < MaxFaults
    /\ faults' = faults + 1
    /\ Becomes(w, Idle)
    /\ UNCHANGED <<provider, payment, refs, outcome, counted, trip, charged>>

------------------------------------------------------------------------------
Step(w) ==
    \/ Initiate(w) \/ StoreAnswer(w) \/ AskProvider(w) \/ UpdatePayment(w)
    \/ MarkCommissionPaid(w) \/ WriteStatus(w) \/ EmitStatusEvent(w)
    \/ HandleTripCompleted(w)

Request(w) ==
    \/ \E p \in Payments : PayCommission(w, p) \/ HandleWebhook(w, p)
                           \/ CheckPaymentStatus(w, p)
    \/ \E t \in Trips, s \in TripMoves : UpdateStatus(w, t, s)

Next ==
    \/ \E w \in Workers : Request(w) \/ Step(w) \/ Fail(w)
    \/ \E p \in Payments : Settle(p)

Spec == Init /\ [][Next]_vars

\* The event loop goes on with every handler; no request is ever due.
FairSpec == Spec /\ \A w \in Workers : WF_vars(Step(w))

------------------------------------------------------------------------------
(***************************************************************************)
(* Properties.                                                             *)
(***************************************************************************)

\* Only a payment that the provider confirmed is subtracted, and it is then
\* shown as succeeded, in every order of webhooks, polls and the answer to the
\* initiation (payments.service.ts, applyPaymentSuccess and its three callers).
CountedWasPaid ==
    \A p \in Payments :
        counted[p] > 0 => outcome[p] = "succeeded" /\ payment[p] = "succeeded"

\* What a handler still knows when it goes on: the strengthening that makes
\* CountedWasPaid inductive.  Nothing finds a payment before its answer is
\* stored, and from then on only the provider's outcome is written.
HandlerOK(w) ==
    LET k == task[w] IN
    /\ k.pc \in {"initiate", "store"} =>
          k.of \in Payments /\ payment[k.of] = "pending" /\ ~refs[k.of]
    /\ k.pc = "store" => k.status = "pending" \/ k.status = outcome[k.of]
    /\ k.pc \in {"ask", "update", "apply"} => k.of \in Payments /\ refs[k.of]
    /\ k.pc \in {"update", "apply"} => k.status = outcome[k.of] /\ k.status \in Outcomes
    /\ k.pc = "apply" => k.status = "succeeded" /\ payment[k.of] = "succeeded"
    /\ k.pc \in {"write", "announce", "charge"} => k.of \in Trips /\ k.status \in TripMoves
OneInitiation ==
    \A v, w \in Workers :
        /\ task[v].pc \in {"initiate", "store"} /\ task[w].pc \in {"initiate", "store"}
        /\ task[v].of = task[w].of
        => v = w
RowOK(p) ==
    /\ payment[p] = "absent" => ~refs[p]
    /\ payment[p] \in Outcomes => refs[p] /\ outcome[p] = payment[p]

\* The inductive invariant.
IInv ==
    /\ TypeOK /\ CountedWasPaid /\ OneInitiation
    /\ \A w \in Workers : HandlerOK(w)
    /\ \A p \in Payments : RowOK(p)

\* A confirmed payment stays confirmed: no late answer of the initiation, poll
\* or webhook takes it back (payCommission's update writes the status it was
\* told before any of them could find the payment).
SucceededStays ==
    [][\A p \in Payments : payment[p] = "succeeded" => payment'[p] = "succeeded"]_vars

\* A handler that could still count the payment, or charge the trip.
Busy(x) == \E w \in Workers : task[w].pc # "idle" /\ task[w].of = x

\* Once a payment is confirmed and a trip completed, only the handlers that are
\* already at work on it may count it: a webhook, a poll or a completion that
\* comes later does not (payments.service.ts, 120-124; trips.service.ts, 478).  A
\* cancellation that overlapped the completion may, which reads it completed.
CountingEnds ==
    [][/\ \A p \in Payments :
             payment[p] = "succeeded" /\ ~Busy(p)
                => ~Busy(p)' /\ counted'[p] = counted[p]
       /\ \A t \in Trips :
             trip[t] = "completed" /\ ~Busy(t)
                => ~Busy(t)' /\ charged'[t] = charged[t]]_vars

\* Without errors, what is confirmed, or completed and not overwritten by a
\* handler that overlaps, is counted in the end: the status and the amount due are
\* written by two statements (payments.service.ts, 143-146; trips.service.ts, 214
\* and 497).
CountedInTheEnd ==
    /\ \A p \in Payments : payment[p] = "succeeded" ~> counted[p] > 0 \/ faults > 0
    /\ \A t \in Trips :
          trip[t] = "completed" ~> charged[t] > 0 \/ trip[t] # "completed" \/ faults > 0

\* A webhook that is sent again does not subtract the payment again
\* (payments.service.ts, 120).
CountedOnce == \A p \in Payments : counted[p] <= 1

==============================================================================
