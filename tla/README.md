# telima-backend, specified

TLA+ modules, TLC configurations and TLAPS proofs for the Telima backend (NestJS,
PostgreSQL through Prisma, Redis, BullMQ). They sit beside the code: every
definition is a translation of lines of `src/`, listed in `PROJECT.json` under
`map`.

## 1. The system

One Node process serves a REST API and a WebSocket gateway, runs the listeners of
an in-process event emitter, and works off a BullMQ queue. It keeps its state in

| store | what |
|---|---|
| PostgreSQL | `trips`, `dispatch_attempts`, `drivers` (balances, online flag), `commission_payments`, `otp_codes`, `refresh_tokens`, pricing rules and zones, messages, ratings |
| Redis | dispatch locks `telima:driver:dispatch:{driver}`, timeout-job keys, round counters, presence, idempotency keys, the BullMQ jobs |
| the process | handlers between two awaits, emitted events, grace timers, the `sweeping` flag, caches of pricing rules and service settings |

None of it is protected by a transaction that spans a check and the write that
relies on it (the only transaction is the commission's pair of increments). All
hard behaviour comes from there: a handler reads, awaits, and writes on the
strength of what it read.

### Components

| component | state | operations | correct when |
|---|---|---|---|
| Trips service (`modules/trips`) | `trips` | `createTrip`, `updateStatus` (accept, arrive, start, complete, cancel), `completeTrip`, `declineTrip`; listeners `handleDriverAssigned`, `handleDispatchFailed`; ratings, delivery confirmation, SOS | the status machine is followed, status and driver agree, a terminal trip is final |
| Dispatch (`modules/dispatch`) | `dispatch_attempts`, locks, job keys, rounds | `attemptDispatch`, `handleDriverTimeout`, `handleDriverDecline`, `checkAndRetryDispatch`, `handleDriverAccept`, `releaseLocksForTrip`, `getPendingRequestForDriver` | only a driver who was offered the trip gets it, one offer per driver, the search ends |
| Dispatch recovery | the `sweeping` flag | run after a restart, periodic run, stale-assigned sweep | nothing stays pending or assigned for ever; a trip in progress is left alone |
| Timeout queue (`modules/queue`) | BullMQ jobs | schedule, cancel, process | one timeout per offer |
| Nearby-driver search (`modules/geolocation`) | none | `findNearbyDrivers` | an engaged driver is not offered another trip |
| Idempotency interceptor | keys in Redis | `intercept` | a request sent twice is executed once |
| Payments, commissions | `commission_payments`, `drivers.commission_due`, `balance` | `payCommission`, `handleWebhook`, `checkPaymentStatus`, `handleTripCompleted` | a payment is counted once |
| Authentication | `otp_codes`, `refresh_tokens`, `users` | `requestOtp`, `verifyOtp`, `refresh`, `logout` | a code and a refresh token are used once, attempts are limited |
| Presence, gateway, drivers | online set, `drivers.is_online`, grace timers | connect, disconnect, heartbeat, `updateOnlineStatus` | a connected driver is online, a disconnected one eventually is not |
| Pricing, service settings | caches | load, invalidate, quote | a quote uses the current rules; amounts are rounded as documented |
| Chat, tracking, notifications, admin, storage, users, devices, vehicle types, stations | their tables | CRUD, messages | (no interaction of their own) |

### How they interact

`createTrip` emits TripCreated; its listener starts `attemptDispatch`. The drivers'
answers arrive by REST or WebSocket, their silence as a job of the queue; each
closes an attempt and may start another round. An acceptance marks its attempt,
frees the other drivers, emits DriverAssigned and writes the trip; the listener of
DriverAssigned writes it again. Giving up emits DispatchFailed, whose listener
cancels the trip if it is still pending. The sweeps of the recovery service do all
of this beside the handlers. Completion emits TripCompleted, from which the
commission is computed; payments decrement it.

## 2. Plan

Order: the most important behaviour first.

1. `TripLifecycle`, `TripDispatch`, `MCTripDispatch`: trips, dispatch, queue,
   recovery. *Done.*
2. `TripDispatchProofs`: inductive invariant, safety and action properties. *Done.*
3. `CommissionPayments`, `CommissionPaymentsProofs`: initiation, webhook, poll,
   commission; how often a payment or a trip may be counted. *Done.*
4. `Idempotency`, `IdempotencyProofs`: the interceptor. *Done.*
5. `DriverPresence`, `DriverPresenceProofs`: sockets, grace timers, the online flag.
   *Done.*
6. `TripLedger`: an abstract row of `trips` that `TripDispatch` implements; the
   refinement is checked and proved. *Done.*
7. `Pricing`: the cache of zones and rules under invalidation, the distance, and the
   price as a function, checked against the exact one. *Done.*
8. `TripNews`: what the parties are told of a trip, payment receipt, confirmations,
   ratings and chat. *Done.*
9. `AuthSessions`, `AuthSessionsProofs`: the life of a code and of a refresh token.
   *Done.*
10. `PricingProofs`, `TripNewsProofs`: the freshness of prices, their rounding, and all
    that the parties are told, for every size. *Done.*
11. `Induction`: induction and recursion over numbers and finite sets, for the prices
    with their surge (`PricingProofs`) and the bound on wrong answers
    (`AuthSessionsProofs`). *Done.*
12. The offers as the drivers see them: who is told that an offer is gone.

## 3. TripDispatch

### State

| variable | code |
|---|---|
| `status`, `driver`, `reason` | `trips.status`, `driver_id`, `cancel_reason` |
| `attempt[t][d]` | `dispatch_attempts.status` of the pair, `none` without a row |
| `age`, `idle`, `newest` | what the queries compare: time since `created_at` and since `updated_at`, the order of `notified_at` |
| `lock[d]` | `telima:driver:dispatch:{d}` |
| `timer[t][d]` | the job that `telima:dispatch:timeout_job:{t}:{d}` names: delayed, active or gone |
| `rounds[t]` | `telima:dispatch:rounds:{t}` |
| `task[w]` | the handler that worker `w` runs: operation, place, local variables |
| `events` | events emitted whose listener has not passed its first await |
| `crashes` | a bound on the crashes |

A worker is one of `Slots` (concurrent requests, events and jobs) or one of the
three loops of the recovery service: `boot`, `sweep`, `stale`.

### Granularity

Between two awaits Node runs one handler alone, so an action is what a handler does
from one await to the next, and `task[w].pc` says which await it is at. Joined, to
keep the model checkable, are awaits whose separation no other handler can observe
or that only touch one pair's job:

- `cancelTimeoutJob`, `scheduleDispatchTimeout` and the job key's SET (`ArmTimeout`);
- DEL of a lock and the cancellation of the same pair's job (`FreeDeclined`,
  `FreeOtherLock`, `ReleaseLock`), and in `FreeOtherLock` the attempt's update;
- DEL of the lock and DEL of the job key after a timeout (`FreeExpired`), whose job is
  running;
- DEL of the lock, DEL of the rounds and the emission in `EmitDriverAssigned`;
- INCR and EXPIRE of the rounds;
- a listener's only write and the read before it, where the read decides nothing.

Left out: the contents of notices and pushes; the re-read of the trip to build
a broadcast; the TTL of the rounds (one hour) and of the job keys, longer than any
search; a job that an overlapping re-dispatch leaves behind without a key.
Abstract: positions and radius (any set of free drivers may be the candidates, in
any order); clock values (age levels: under 90 s, under 2 min, under 25 min, older;
`idle` after 45 minutes without an update); the order in which a sweep takes its
trips; among a driver's open requests the latest is taken if it is still open and
any other one otherwise. The INCR of the rounds has no limit in the code; `rounds`
saturates at the bound `MaxRounds`, which is the budget where only the comparison with
the budget matters, and above all that is reached in `dispatch_requests`.

A failing await ends a handler. It is modelled where the code makes it likely: the
detail rows of a creation, and `job.remove()` on a job that a worker holds. A crash
ends every handler at any await.

`LockOutlivesTimeout` says that the lock's TTL is longer than the timeout and that
jobs run on time (the default settings, 75 s and 60 s). It is FALSE in every run
that shows a property to hold, so that these do not depend on it, and TRUE in the
runs that refute a document, so that the refutation does not come from a slow
queue.

### Properties

| property | says |
|---|---|
| `AssignedWasNotified` | a driver on a trip had been offered it |
| `StatusMatchesDriver` | status and driver agree |
| `FailureSparesAssigned` | a trip cancelled for lack of a driver has none |
| `LockHasOffer` | until a crash, a lock stands for an offer |
| `RoundsInBudget` | until a sweep takes a trip up, overlapping handlers start at most one round each past the budget |
| `SettledIsFinal` | a terminal trip with no writer in flight never changes |
| `DriverStays` | only acceptances in flight change the driver of a taken trip |
| `NobodyWaitsForEver` | no trip searches for ever, and no driver stays on a trip that does not move |
| `ImplementsLedger` | every write of the row was legal for the row as its writer had read it |

`SettledIsFinal` and `DriverStays` are as strong as the code allows: the stronger
statements in the repository's documents do not hold (section 11).

### Fairness

Node runs every handler that can continue and every listener of an emitted event;
BullMQ delivers a due job; intervals fire; clocks run. Hence weak fairness of each
worker's `Step`, of `HandleEvent`, `TakeWork`, `SweepTick`, `BootRun`, `GrowOlder` and
`StandStill`. Nothing obliges a user to act, a lock to expire or a crash to come.

### TripLedger, the abstract specification

Six writers change the row of a trip: the creation, `updateStatus`, the listeners of
DriverAssigned and DispatchFailed, the stale sweep and the restart. `TripLedger` says on
one page what they keep to together. A request looks at the row, forms an intent
`[to, driver]` that the row allows (`Allows`: `TRANSITIONS`, or the cancellation of a driver
who does not move), and may commit it at any later moment without looking again.
Only a trip that is absent is opened, and only one that is pending is given up, without
an intent. So a status may be written that the current one does not allow, but none that
no earlier one allowed, and no driver is written whom the trip was not offered to.

`TripDispatch` implements it (`Ledger`, `INSTANCE TripLedger WITH ...`): `offered` is the
drivers with a row in `dispatch_attempts`, `intents` is what the handlers under way, the
DriverAssigned events and the stale sweep's queue are about to write. `ImplementsLedger` is
checked in `dispatch_requests` and proved in `TripDispatchProofs`.

## 4. CommissionPayments

`drivers.commission_due` is only changed by atomic increments, so it is the sum of
what went into it: `charged[t]` and `counted[p]` say how often the commission of trip
`t` was added and payment `p` subtracted. Amounts are left out.

| variable | code |
|---|---|
| `provider` | the provider that `PAYMENT_PROVIDER` selects |
| `payment[p]`, `refs[p]` | `commission_payments.status`; whether `transaction_ref`, `order_id` and `notif_token` are stored |
| `outcome[p]` | what the payment is at Orange Money |
| `counted`, `charged` | the increments of `drivers.commission_due` |
| `trip[t]` | `trips.status`, from the driver's way to the pickup on |
| `task[w]` | the handler that worker `w` runs, and what it was told |
| `faults` | a bound on the handlers that fail |

An action is again what a handler does up to its next await. `PayCommission`,
`Initiate` and `StoreAnswer` are `payCommission`; `HandleWebhook` is `handleWebhook` up to
its update; `CheckPaymentStatus` and `AskProvider` are `checkPaymentStatus` up to the same
update; `UpdatePayment` and `MarkCommissionPaid` are common to both. `UpdateStatus` is the
check of a request that starts, completes or cancels a trip (`updateStatus`,
`completeTrip`), `WriteStatus` its write by id, and `EmitStatusEvent` the read after it,
which decides whether the trip's completion is announced
(`trips.service.ts`, 214 and 497): a request may announce a completion that another one
wrote, or find its own overwritten. One cancellation stands for all; the stale sweep's
announces nothing. `HandleTripCompleted`, the listener, runs on in the worker that emitted
its event. The lookups of a webhook, each by a column that the same update stored, are one
read.

Assumed of Orange Money (external): a payment settles once and for good, and notices
and polls report that outcome. It may register a payment and lose the answer, send a
notice any number of times or never, and send it before its answer has been stored.
A failed initiation leaves a pending payment without references, as in the code.

| property | says |
|---|---|
| `CountedWasPaid` | what is subtracted was confirmed by the provider, and is shown so |
| `SucceededStays` | no late answer, notice or poll takes a confirmation back |
| `CountingEnds` | a confirmed payment and a completed trip are only counted by handlers already at work on them |
| `CountedInTheEnd` | without failures, what is confirmed or completed is counted |

`CountingEnds` is what the code's check is worth. The stronger statement, that a
payment is counted once, does not hold (section 11); and a cancellation that overlapped a
completion may charge its commission a second time. The exceptions in `CountedInTheEnd`
are needed: a handler that fails between its two statements is never made up for, and a
completion that an overlapping cancellation overwrites before it is read again is not
announced.

Fairness: Node runs every handler that can continue, hence weak fairness of each
worker's `Step`. No request, notice or poll is ever due; the run does not check deadlock
because all may stop once the payments are settled and no one asks.

## 5. Idempotency

`POST /trips` and `PATCH /trips/:id/status` pass through the interceptor when the
client sends an `Idempotency-Key`. Keys share nothing, so the module follows the
requests of one.

| variable | code |
|---|---|
| `locked` | `telima:idem:{key}:lock` is set |
| `cache` | whose response `telima:idem:{key}` holds |
| `pc[r]` | the await at which request `r` is |
| `answer[r]` | what the client of `r` got: a request's response, 409 or an error |
| `faults` | a bound on the failures |

`SetLock` to `DeleteLock` are the awaits of `intercept`; `Handle` stands for the whole
handler. The response leaves at `Handle`, before the `tap` has stored it, because the
`tap` awaits in a callback that nothing waits for. `Fail` is an exception of the handler,
an error of Redis or the end of the process: what would come after it never runs.
`LockExpires` waits until no request holds the lock: the TTL of 300 s is longer than any
handler takes. `ResponseExpires` may come at any time.

| property | says |
|---|---|
| `OneAtATime` | the handler never runs twice at a time, and the lock is held meanwhile |
| `LockedIsBusy` | a lock with nobody at work was left behind by a failure |
| `AnsweredInTheEnd` | a client that retries gets a response, after failures too |

What `OneAtATime` leaves open is the order one after the other: `doc_replay` shows that
a retry which comes after the answer runs the handler again.

Fairness: weak fairness of each request's `Step` (the client sends again until it has
a response, which is what the header is for; Node runs the rest) and of `LockExpires`.
All requests may be answered, so the run does not check deadlock.

## 6. DriverPresence

`drivers.is_online` is what the search for a driver reads. Five writers set it
without knowing of each other: the connection, the gateway's messages, the grace timer,
the driver's switch and a suspension. Drivers share nothing, so the module follows one.

| variable | code |
|---|---|
| `status`, `owes`, `isOnline` | `drivers.status`; `commission_due` above the threshold; `is_online` |
| `open`, `known` | connected sockets; those with `client.driverId` |
| `armed`, `entry` | running timers; the driver's entry of `graceTimers` |
| `task[w]` | the handler that worker `w` runs; `"grace"` is the timer's callback |
| `faults` | a bound on failed writes and crashes |

`HandleConnection` goes up to the driver's lookup and `Identify` from it to `setOnline`;
the socket may close in between. `SyncOnline` is the write of `setOnline` and `setOffline`,
which may fail and is then only logged. One `"grace"` handler is enough: the next timer
fires 60 s later at the earliest. Left out: the presence sorted set and the heartbeat
that refreshes it (no code reads `isOnline` or `getOnlineDriverIds`), rooms, and sockets
of other roles.

| property | says |
|---|---|
| `OneTimer` | the only running timer is the one the map knows, so that a reconnection cancels it |
| `GraceSpares` | no timer runs while all the driver's devices are connected and identified |
| `PresenceFollows` | who has left is taken offline, unless back; who is identified is set online |

The exceptions say what the code does not promise. `Returning` in `GoneIsOffline` excepts a
driver with a connected socket or a pending lookup: a socket that closes during its lookup
schedules nothing, and the lookup then cancels the timer and sets the driver online, with
nobody connected. A failed write or a crash (`faults`) is made up for by nothing: timers
are in memory and no code resets the flag at start-up. `GraceSpares` says *all* devices
because the timer is per driver: when a second device closes, or an old socket closes
late, the timer runs against a driver who is connected.

Fairness: Node runs every handler that can go on, and a timer that is due. No device is
obliged to connect or to close, and no user to act. Deadlock is checked.

## 7. AuthSessions

One account: accounts share nothing. A refresh token is a JWT that holds the account and
the second it was signed in, and nothing else that changes; `token_hash` is unique. So a
token is named by its second, and two that are signed in one second are the same.

| variable | code |
|---|---|
| `now` | the second that `signAsync` writes into a token |
| `user` | the row of `users`: none, active or not |
| `made`, `code[c]` | `otp_codes`, numbered as they are created: sent, consumed, locked, attempts, age |
| `token[k]` | `refresh_tokens`, with the reason of `revoked_at` kept apart |
| `replacedBy[k]` | `refresh_tokens.replaced_by` |
| `task[w]` | the handler that worker `w` runs, and what it has read |
| `parent`, `lost`, `wrong` | auxiliary: which token each was exchanged for, whose exchange failed, wrong answers compared |
| `faults` | a bound on the statements that fail |

An action is one statement with what follows it up to the next await. `RequestOtp` to
`UndoCode` are `requestOtp`; `VerifyOtp`, `CountFailure` and `ConsumeCode` are `verifyOtp`, and
`VerifiedByJulakai` its other branch; `FindUser` and `CreateUser` are the login that
follows; `Refresh` and `RevokeOld` are `refresh`, `SignTokens` to `LinkOld` are
`issueTokenPair`; `Logout` is one statement. `AdminCreateUser` and `UpdateUser` are what the
administration does to the same row. Left out: passwords, hashes, devices and the
access token, which nothing revokes; and the rethrow of a `ServiceUnavailableException` by
`requestOtp` (`auth.service.ts`, 98-100), which leaves the code as it is but which no SMS
provider of the repository throws. A lock outlives its code (30 and 5 minutes) and is
never lifted by time. `wrong` is counted where an answer is compared (`VerifyOtp`), also if
the update that should count it fails (`CountFailure`).

| property | says |
|---|---|
| `NoPenalty` | a code whose SMS was not taken is gone once its request is answered |
| `TriesAreBounded` | lost and failed updates of `attempts` and lifted locks still leave a bound on the wrong answers |
| `ExchangeLeavesHeir` | a client whose token was revoked got another, an error, or is waiting |
| `LinksFollowExchanges` | `replaced_by` only joins tokens of which one was issued for the other |
| `SpentIsFinal` | a spent token buys nothing, but for refreshes already past their check |

The bound of `TriesAreBounded` is a binomial coefficient: with N requests at a time, a
wrong answer either raises what the slowest of the others will write or is one of
`MaxAttempts`; each failure adds one, of an answer that was compared and not counted.
`ExchangeLeavesHeir` excepts `lost`, the exchanges that failed after the
revocation, a token of the same second among them: the client gets an error and logs in
again. Safety only: nobody has to type a code or to refresh.

## 8. Pricing

| variable | code |
|---|---|
| `zones`, `rules`, `tariff` | `service_zones`, `pricing_rules` and the vehicle type's row |
| `cache` | `DynamicPricingService.cache`: null, valid or expired, with the rows as they were loaded |
| `distance` | the trip's entry in Redis, from Google or estimated |
| `task[w]` | the handler that worker `w` runs, with its tariff, distance and data |
| `edits` | a bound on the changes |
| `overtaken`, in the data | auxiliary: an invalidation went by that the data may have missed |

`CalculatePrice` to `Answer` follow a quote from the tariff through the distance
(`GetDistanceMatrix`, `CallGoogleApi`, `SetDistance`) and the surge (`LoadData`; `FindZones`
and `FindRules` in either order, as `Promise.all` leaves it; `StoreCache`). `EditZone`,
`EditRule` and `InvalidateCache` are the administration's, `EditTariff` the vehicle types'.
`SurgeMultiplier`, `BaseTotal`, `Total` and `Commission` are the arithmetic, in whole francs
and hundredths. `Fail` is a statement that fails anywhere; of a change, the answer
of PostgreSQL, so that the change is made and nothing invalidated.

The place and the hour are no variables: a property quantifies over them when a
quote is answered. Zones come in any order (`Orders`), because the query names none. In
the code's doubles a product that is exactly a half may come out just below it and be
rounded down; `Rounded` takes the half up, and `PriceIsNear` would hold of either.

| property | says |
|---|---|
| `FreshUnlessOvertaken` | prices come from what the tables hold once a change is answered, unless a load was going on across the answer |
| `ChangesReachPrices` | whatever overlaps and fails, a change is in every price in the end |
| `SurgeOfOneZone` | the surge is that of one of the zones the pickup is in, with the rules for it and for the hour |
| `PriceIsNear` | the three roundings stay within half a franc each of the exact price |

Fairness: Node runs every handler that can go on, and the cache's minute goes by. No
quote is ever asked for. Deadlock is not checked: all may stop when the vehicle type is
withdrawn.

## 9. TripNews

One trip, its client and its driver. Dispatch is left open: it lets the driver accept,
gives up, or finds the trip stale, when it likes (module `TripDispatch` says when).

| variable | code |
|---|---|
| `status`, `driven`, `confirmed`, `rated`, `paid` | the trip's row and `trip_ratings` |
| `conn[p]` | the rooms of each party's socket: its own, and the trip's |
| `task[w]` | the handler that worker `w` runs |
| `listeners` | those of DriverAssigned and DispatchFailed and the stale sweep, before and after their write; two of one event count as one |
| `pushes` | listeners of the other events, which read the trip and push |
| `been`, `last`, `behind`, `outside`, `owed`, `unread`, `alone` | auxiliary: what the parties heard, and have to be told |
| `moves`, `asides`, `faults` | bounds |

`UpdateStatus`, `Accept` and `CompleteTrip` are the check of a request, `WriteStatus` its
write and `AnnounceStatus` what comes after it: the event goes by the status that is read
again, the broadcast by the one that was asked for. `AssignDriver` and `TellAccepted`,
`UpdateStatusIfPending` and `TellFailed` are the listeners; `FindStale`, `CancelStale` and
`TellStale` are the sweep of stale trips, which writes whatever the trip has become, tells
the trip's room and pushes to nobody. `ConfirmDelivery`,
`ConfirmPaymentReceived`, `RateTrip` and `SendMessage` read and check; `WriteConfirmed`,
`MarkPaymentReceived`, `CreateRating` and `CreateMessage` write. `SendToUser` is the push. A socket
that closes hears nothing; a crash closes all.

| property | says |
|---|---|
| `WordGetsRound` | whoever was connected when a request or an assignment changed the status is told; of what the service cancels by itself, whoever was in the trip's room |
| `TheOtherIsPushed` | the party that a request's or an assignment's status is to be pushed to gets it, also when another handler speaks for the change |
| `LastNewsIsTrue` | who has heard in the end of another status than the trip has, heard of changes that overlapped, or was `outside` of the trip's room when the service cancelled |
| `MessagesArePushed` | a message is pushed to the one who did not write it |
| `AfterTheFact` | nothing is confirmed or rated before it was completed, or paid before it began |

After a failure (`Forgiven`) nothing is owed for what the failed handler had to tell: the
code keeps no record of it. `LastNewsIsTrue` asks only of a handler that overlapped no
other (`alone`). A search that is given up and a stale trip that is cancelled
(`ServiceCancels`) are told to the trip's room alone and pushed to nobody: whoever is
connected elsewhere is counted as `outside`, and nothing is claimed for that party until
its next status (section 11). An acceptance whose lock has run out emits no DriverAssigned
(`dispatch.service.ts`, 258-261) and owes no push. `MessagesArePushed` is about clients with the client role (`ClientRole`). The
dashboard, which hears what the client's room hears, is left out.

## 10. Runs

| run | module | checks | shows |
|---|---|---|---|
| `dispatch_accept` | `MCTripDispatch` | `AssignedWasNotified`, `FailureSparesAssigned`, `DriverStays` | Two drivers offered one trip compete for it at every await, with timeouts, retries and a driver already on the way. |
| `dispatch_requests` | `MCTripDispatch` | `RoundsInBudget`, `StatusMatchesDriver`, `LockHasOffer`, `SettledIsFinal`, `ImplementsLedger` | Every operation of the interface, two at a time, against one driver's trip over two dispatch rounds, which may become four where handlers overlap; every step is one of the trip's row alone. |
| `dispatch_live` | `MCTripDispatch` | `NobodyWaitsForEver`, `SettledIsFinal` | From every state a crash may leave a pending trip in, and from accepted trips across one crash at any point, the loops of the recovery service alone end the search or free the driver, and leave a trip that ended alone. |
| `payments` | `CommissionPayments` | `CountedWasPaid`, `SucceededStays`, `CountingEnds`, `CountedInTheEnd` | The answer of an initiation, webhooks, polls and completions overlap in every order, with a handler that fails at any await. |
| `idempotency` | `Idempotency` | `OneAtATime`, `LockedIsBusy`, `AnsweredInTheEnd` | Three requests with one key, of which two may fail anywhere, and both keys expire at any time they may. |
| `presence` | `DriverPresence` | `OneTimer`, `GraceSpares`, `PresenceFollows` | Two devices of a driver connect, close and come back while the driver switches, an administrator decides, and one write fails or the process dies. |
| `auth` | `MCAuthSessions` | `TypeOK`, `NoPenalty`, `TriesAreBounded`, `ExchangeLeavesHeir`, `LinksFollowExchanges`, `SpentIsFinal` | Two requests at a time on one account, with one failure: two codes and wrong answers to them, or two seconds of logins, refreshes, logouts and lapses that overlap. |
| `pricing` | `MCPricing` | `FreshUnlessOvertaken`, `SurgeOfOneZone`, `PriceIsNear`, `ChangesReachPrices` | Quotes and a change of the zones, the rules or the tariff overlap at every await, with any failures, and every price that a place and an hour can have is compared with the exact one. |
| `trip_news` | `MCTripNews` | `TypeOK`, `WordGetsRound`, `TheOtherIsPushed`, `LastNewsIsTrue`, `MessagesArePushed`, `AfterTheFact` | Two requests at a time move one trip beside the listeners and the stale sweep: while a socket comes or goes, while a handler or the process fails, or while the parties pay, confirm, rate and write. |

Runs that refute a statement of the documents:

| run | module | refutes | shows |
|---|---|---|---|
| `doc_one_trip` | `MCTripDispatch` | `OneTripPerDriver` | The search for a second trip reads the driver as free while the acceptance of the first is under way; that acceptance deletes the lock before it writes the driver, so the second offer takes the lock and is accepted as well. |
| `doc_webhook` | `CommissionPayments` | `CountedOnce` | Two notices of one payment overlap, both read it as pending, and both subtract it. |
| `doc_replay` | `Idempotency` | `ExecutedOnce` | The first request is answered and its lock deleted; the second, with the same key, takes the lock and runs the handler again. |

Bounds: one trip and two drivers where drivers compete, one driver where requests,
sweeps and crashes of one trip do, two trips and one driver in `doc_one_trip`, where
nothing but a search and an acceptance overlap and no lock expires; two
slots where two requests must overlap, one beside the recovery service's
three loops. An overlap needs two handlers, and every table is keyed by trip, by
driver or by the pair. The proofs cover all other sizes for the safety properties but
`RoundsInBudget`, whose bound `dispatch_requests` reaches: two rounds, and one more for each
of two overlapping requests.
`MaxDispatchAttempts` is 1 or 2: at 1 the budget runs out in the first round, at 2
there is a retry. `MaxAge` is 0 where no sweep looks at ages and 3, the oldest level,
in `dispatch_live`. That run starts from two kinds of states. `RestartInit` is every state
that a crash may leave a pending trip in, which is more than the states a run could
reach: attempts, locks, jobs and rounds are arbitrary, because the crash may have come
between any two steps and Redis may have lost its data. `EngagedInit` is an accepted trip,
with a cancellation perhaps under way, and one crash still to come. Deadlock is
checked in all dispatch runs.

`payments` has two payments, one trip whose driver is arriving, two workers and one failure (`MaxFaults`): a race
takes two handlers, and the second payment shows that handlers do not mix them up.
`idempotency` has three requests and two failures: a first, one that overlaps it, one
that comes after; with two failures two requests in a row leave the lock behind.
`presence` has two devices (an old and a new socket), two handlers beside the timer's,
as many timer handles as may overlap, and one fault.

`auth` has two requests at a time, which every race here takes, two codes and two wrong
answers (`MaxAttempts`), three tokens and one failure. Codes and tokens meet only in the
login, so the run starts from two states the system comes to: either the session of the
last second is logged out and the codes are to come, or the codes are used up and the
tokens are to come (`MCInit`).

`pricing` has two requests, two zones that may overlap and one rule that is for a zone or
for an hour; one change (`MaxEdits`) is enough for a load to be overtaken, and changes
share nothing but the cache. Where the pickup is and what time it is are quantified in
the properties, so that every price a place and an hour can have is compared. Surges,
modifiers and tariffs are numbers whose products do not come out even.

`trip_news` has two requests at a time beside the listeners, and one listener of the
dispatch or the sweep, and one push, at a time (`MaxListeners`, `MaxPushes`). It explores
three parts (`MCInit`): a socket that comes or goes, or one failure (`MaxMoves`,
`MaxFaults`), without payments, confirmations, ratings and messages; one of those from a new trip on, with both
parties connected; or three of those (`MaxAsides`) from an accepted trip on, of which both
have heard. Rooms do not matter to the last two. All six properties are proved for any
number of requests, listeners, sweeps, pushes, sockets that move and failures together.

## 11. Where the code and its documents differ

- `OneTripPerDriver` (`doc_one_trip`, src/modules/trips/trips.service.ts:157): handleDriverAccept deletes the driver's lock (dispatch.service.ts:283) before updateStatus writes the driver to the trip (trips.service.ts:212), and neither looks at the driver's other trips: a search that read the driver as free (dispatch.service.ts:47) takes the lock in between (line 98), offers the second trip, and the driver accepts both. geolocation.service.ts:58-59 says of the search's exclusion "sans ce garde-fou il pouvait recevoir un 2e dispatch et se retrouver avec deux courses".
- `CountedOnce` (`doc_webhook`, src/modules/payments/payments.service.ts:121): handleWebhook reads the payment's status and updates it by id an await later, then decrements commission_due in another statement: two notices that overlap both read pending and both decrement. payments.service.ts:120 says "Idempotence : un webhook rejoue ne doit pas re-decrementer la commission." and payments.controller.ts:50 "Webhook Orange Money (confirmation paiement, idempotent)".
- `ExecutedOnce` (`doc_replay`, src/common/interceptors/idempotency.interceptor.ts:59): The cached response is only looked at by a request that finds the lock taken, and the lock is deleted as soon as the response is stored: a retry that arrives later takes the lock and executes again, so POST /trips creates a second trip. trips.controller.ts:34 says "Si fournie, une requête dupliquée retourne la réponse initiale."

Other statements of the documents that the models contradict have no run of their own:

- The lock is no condition of an acceptance: `handleDriverAccept` returns when the lock
  names another trip and `updateStatus` goes on (`ReadLock`; `ARCHITECTURE.md`, 762, says
  the driver is refused; the comment at `trips.service.ts`, 152-155, says it is not).
- A driver may have two open offers also without the overlap of `doc_one_trip`:
  `getPendingRequestForDriver` opens a closed offer again with a lock but no timeout job,
  so that the lock expires under an offer that stands (`dispatch.service.ts`, 402-412;
  ADR-004, context, point 1, says the lock excludes it).
- A code may be compared with more than three wrong answers: requests that overlap read
  the same `attempts`, and an update that fails counts nothing (`CountFailure`;
  `docs/API_CONTRACT.md`, 133-134, says three at most). `TriesAreBounded` says how many.
- The recovery service may cancel a trip in progress: `sweepStaleAssigned` reads the stale
  trips, then cancels each by id (`CancelStale`), and its driver may start one in between
  (`dispatch-recovery.service.ts`, 38, says "On ne touche JAMAIS `in_progress`").
- The commission threshold does not keep a driver offline: connecting sets `is_online`
  without looking at it (`Identify` against `UpdateOnlineStatus`;
  `drivers.service.ts`, 98-99).
- The grace period is a timer of the process that looks at no heartbeat
  (`ScheduleGracePeriod`; `ARCHITECTURE.md`, 384-389, describes a queued job that does).
- A cancelled trip may be revived: an acceptance that read it as pending writes
  `accepted` over the cancellation (`WriteStatus`; `docs/API_CONTRACT.md`, 298, calls
  `cancelled_*` terminal). `SettledIsFinal` therefore waits for the writers in flight.
- A refresh in the second of another token revokes the old token and stores no new one
  (`StoreToken`; `docs/CONFIGURATION.md`, 618, says that a new one is issued at every use).
- A change of a zone or a rule is not taken into account at once when a load was going on
  (`Overtaken`; `admin-pricing.controller.ts`, 11, says "prise en compte immediate"). The
  cache's minute ends it.
- The push for a message goes by the sender's role: a user with the driver role who ordered
  the trip gets it instead of the driver (`Target`; `notification.handler.ts`, 130).
- A search that is given up is told to the trip's room only, also when a driver was
  faster (`TellFailed`; `dispatch.service.ts`, 320-321, says that it tells the client). The
  stale sweep does the same (`TellStale`; `dispatch-recovery.service.ts`, 113): a client who
  never joined the trip's room goes on seeing the driver who was taken off the trip.

## 12. Proofs

`TripDispatchProofs` proves, for every choice of the constants that satisfies
`ConstantAssumption` (the nulls are no ids, the loops are no slots, the budget is
positive), that `IInv` is inductive, and from it the safety invariants
and both action properties.

Alone, none of the invariants is inductive: an acceptance writes the driver several
awaits after it checked the attempt. `HandlersOK` is what the handler still knows at
its write: past the check, the attempt of the pair is never `none` again; a move was
checked by a driver who is on the trip. `EventsOK` says the same of a DriverAssigned
not yet handled. `LockHasOffer` needs to know which places may set a lock.

Most actions do not write `trips`. `HandlerStep` describes such a step: one worker
moves, attempts that exist stay in existence, locks appear only with an offer,
events grow by harmless ones. One lemma per action shows it is a `HandlerStep`, and three lemmas
show once that a `HandlerStep` keeps the invariant and both action properties. The
actions that do write `trips` (`CreateTrip`, `WriteStatus`, `HandleDriverAssigned`,
`HandleDispatchFailed`, `CancelStale`) and `SweepTick`, the clock, `LockExpires` and
`Crash` have a proof of their own.

`CommissionPaymentsProofs` does the same for payments, for any sets of payments, trips
and workers. Its `IInv` rests on an order the code keeps: nothing finds a payment
before `payCommission` stored the answer it was given (`RowOK`, `OneInitiation`), so the
one write that could take a confirmation back comes before any confirmation; from then
on every handler writes the provider's outcome (`HandlerOK`), which does not change.
The proof has one lemma per action. Both action properties follow from the invariant.

In `IdempotencyProofs`, `OneAtATime` and `LockedIsBusy` are inductive with the types alone: a
request starts its handler only where the lock was free, and a free lock has no holder;
the lock goes away only at its holder's hand, or when it has none.

In `DriverPresenceProofs`, `GraceSpares` needs `OneTimer`: `cancelGracePeriod` clears the
timer that the map names, which stops all timers only because there is no other. The
proof groups the actions by what they touch: sockets and timers (`SocketKept`,
`GraceEndsKept`), or only the flag (`FlagKept`, `WriteKept`).

The last part of `TripDispatchProofs` shows, on its invariant, that the initial states
map to initial states and every step to a step of the ledger, for every trip at once. A
`HandlerStep` looks: it writes no row, and what it begins to intend is allowed by the row
it has just read (`IntentSource` names the three sources of an intent). The five writers
of `trips` each commit an intent they had, open or give up. A crash only gives
intents up.

In `AuthSessionsProofs`, the invariant adds three facts to the properties. `LocksFollow`:
`locked_until` is written with `attempts`, so a request that read no lock read less than
the limit, which is why lost updates never take `attempts` past it. `TaskOK`: a handler
past the revocation holds a token that was revoked, and one at the link has stored
the new token with the old one as its parent. `ParentOfIssued`: a second without a token has no parent,
so that storing a token takes no heir from another. The actions on codes keep
what is said of tokens and the other way round (`CodesKept`, `TokensKept`). `SpentIsFinal`
follows step by step: only a refresh in flight holds an old token.

In `PricingProofs`, `FreshUnlessOvertaken` needs to know what loads hold before they
store it (`LoadsFresh`): what a load has read is what the tables hold, unless a change is
about to be invalidated (`Invalidating`) or was while the load went on, which marks it.
A change makes every load wrong but ends in `invalidate`; the invalidation, or its
failure, marks them all. `RoundingIsNear` is about the arithmetic: for every tariff,
distance and surge the roundings leave a price within half a franc each of the exact one.
`PricesAreNear` says so of every answer: `QuotesOK` is that a quote has its tariff and its
distance by then, and the surge is a natural number because `Product` is one, which takes
induction over the zone and the rules it multiplies. `SurgeIsOfOneZone` compares the
product over the rules that match with the one over all rules, in which those that do
not match are 1: the code's loop and the property multiply different factors, in orders
nobody fixed, and come to the same.

`TriesBounded` is the bound on wrong answers for any number N of requests at a time. An
invariant on `attempts` alone cannot give it, because overlapping requests write old
values back. A worker *stands* at what it would write next, less one: at what it has read, if
that is less than what is stored, and at what is stored otherwise (`Levels`). A wrong
answer that is counted brings its worker up to what is stored then, and may bring others down to
it, but not further; nothing else brings anybody down, since a handler that begins to
count has read what is stored. `Rank` weighs the workers at each level by a binomial
coefficient, so that one worker more at a level outweighs all that is lost above it, and
`WrongCounted`, that a code's wrong answers are at most its rank, those compared and not
yet counted, and the failures so far, is inductive on top of `IInv`. The first two together
stay below the coefficient of `TriesAreBounded`. The lemmas on `choose` derive Pascal's triangle from the factorials of the community module's definition.

`Induction` holds what these two proofs need in general. The library's theorems on
induction and recursion take an operator as a parameter, which the provers cannot
instantiate; here the property is a set (`SetInduction`, `SubsetInduction`) and the step of
a recursion a function (`NatRecursion`, `SubsetRecursion`), derived from the library's
well-foundedness of numbers and of finite subsets. With them, the folds and recursive
functions of the community modules (`FoldFunctionOnSet`, `factorial`) are shown to be what
their recursions define.

In `TripNewsProofs`, the invariant says who is going to tell. Whoever is behind hears a
handler that will announce the trip's status, or a listener or sweep that will, or is
`outside` of the room the service told (`BehindCovered`);
a push that is owed is on its way, or its handler or listener is, and that one goes to the
same party although it reads the driver only later (`OwedCovered`, `EventIsPushed`);
a message that is unread is on its way to its reader (`UnreadCovered`). `TaskOK` is what a
handler still knows of the trip it once read, `StillThere` that who heard of a status is
where the next one is heard, and `AloneOK` follows the one handler that overlaps no other
to its end, through the listener that an acceptance leaves behind. Steps that write and
announce no status are `Steady`, which keeps the coverage; those that do have a
proof of their own.

The assumptions on constants are what the code has: ids are not the nulls, limits are
numbers, and requests served at a time, zones and rules are finitely many.

Every invariant but `RoundsInBudget` and every action property that a run checks is proved
for all values of the constants, and so is the refinement. Only model-checked are that
count of rounds and the liveness properties
(`NobodyWaitsForEver`, `CountedInTheEnd`, `AnsweredInTheEnd`, `PresenceFollows`,
`ChangesReachPrices`: the prover has no fairness) and the refuted statements.

## 13. Not modelled

`PROJECT.json` lists every component with its status. Left out are:

- what reads nothing that changes: delivery issues (a text that overwrites the last
  one), SOS (one message to the dashboard), uploads, registration beyond its initial
  values;
- positions: the last position of a driver, the heartbeat and the presence sorted
  set. The search that reads the positions may find any set of free drivers;
- the push of an offer and of a payment, and what Firebase makes of a push;
- the cache of service settings: any setting it may hold is a value of the constants;
- `getRouteDistance` and the earlier payment interface, which no service calls;
- CRUD, lists and statistics (users, devices, stations, administration), and wiring.

Within what is modelled, positions, texts, passwords, hashes and the wall clock
are abstracted as said in sections 3 to 9.
