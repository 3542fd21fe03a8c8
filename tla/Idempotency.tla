----------------------------- MODULE Idempotency -----------------------------
(***************************************************************************)
(* IdempotencyInterceptor: the requests that carry one Idempotency-Key.    *)
(* Keys share nothing, so one is enough.  A request takes the key's lock   *)
(* and runs its handler, or finds the lock taken and is answered from the  *)
(* key's cache, or told to come back.                                      *)
(***************************************************************************)
EXTENDS Naturals

CONSTANTS
    Requests,   \* requests sent with the key, retries under a name of their own
    NoResponse, \* nothing is cached under the key
    MaxFaults   \* bound: how many requests fail in the handler, in Redis or in a crash

ASSUME ConstantAssumption ==
    /\ NoResponse \notin Requests
    /\ {"none", "conflict", "error"} \cap Requests = {}
    /\ MaxFaults \in Nat

VARIABLES
    locked,     \* telima:idem:{key}:lock is set
    cache,      \* telima:idem:{key}: whose response is stored
    pc,         \* where each request is
    answer,     \* what it was answered: whose response, or why none
    faults

vars == <<locked, cache, pc, answer, faults>>

\* The places at which a request holds the lock.
Holding == {"handle", "store", "unlock"}

TypeOK ==
    /\ locked \in BOOLEAN
    /\ cache \in Requests \cup {NoResponse}
    /\ pc \in [Requests -> Holding \cup {"idle", "read"}]
    /\ answer \in [Requests -> Requests \cup {"none", "conflict", "error"}]
    /\ faults \in 0..MaxFaults

Init ==
    /\ locked = FALSE
    /\ cache = NoResponse
    /\ pc = [r \in Requests |-> "idle"]
    /\ answer = [r \in Requests |-> "none"]
    /\ faults = 0

Goto(r, place) == pc' = [pc EXCEPT ![r] = place]
Answer(r, a) == answer' = [answer EXCEPT ![r] = a]

\* SET lock NX.  A client sends a request again until it is answered.
AcquiredAnyway == TRUE
Acquired == ~locked

SetLock(r) ==
    /\ pc[r] = "idle" /\ answer[r] \notin Requests
    /\ locked' = TRUE
    /\ Goto(r, IF Acquired THEN "handle" ELSE "read")
    /\ UNCHANGED <<cache, answer, faults>>

\* The lock is taken: the cached response, or 409.
GetCached(r) ==
    /\ pc[r] = "read"
    /\ Answer(r, IF cache = NoResponse THEN "conflict" ELSE cache)
    /\ Goto(r, "idle")
    /\ UNCHANGED <<locked, cache, faults>>

\* next.handle(): the response leaves before the tap has stored it.
Handle(r) ==
    /\ pc[r] = "handle"
    /\ Answer(r, r)
    /\ Goto(r, "store")
    /\ UNCHANGED <<locked, cache, faults>>

StoreResponse(r) ==
    /\ pc[r] = "store"
    /\ cache' = r
    /\ Goto(r, "unlock")
    /\ UNCHANGED <<locked, answer, faults>>

\* DEL lock, whoever holds it by now.
DeleteLockForgotten(r) ==
    /\ pc[r] = "unlock"
    /\ Goto(r, "idle")
    /\ UNCHANGED <<locked, cache, answer, faults>>

DeleteLock(r) ==
    /\ pc[r] = "unlock"
    /\ locked' = FALSE
    /\ Goto(r, "idle")
    /\ UNCHANGED <<cache, answer, faults>>

\* The handler throws, Redis fails or the process dies: nothing after that runs,
\* and the lock stays.
Fail(r) ==
    /\ pc[r] # "idle" /\ faults < MaxFaults
    /\ faults' = faults + 1
    /\ Answer(r, IF answer[r] = r THEN r ELSE "error")
    /\ Goto(r, "idle")
    /\ UNCHANGED <<locked, cache>>

\* EX KEY_TTL: 300 s, more than any handler takes.
ExpiresNever == FALSE
Expires == \A r \in Requests : pc[r] \notin Holding

LockExpires ==
    /\ locked /\ Expires
    /\ locked' = FALSE
    /\ UNCHANGED <<cache, pc, answer, faults>>

ResponseExpires ==
    /\ cache # NoResponse
    /\ cache' = NoResponse
    /\ UNCHANGED <<locked, pc, answer, faults>>

Step(r) == SetLock(r) \/ GetCached(r) \/ Handle(r) \/ StoreResponse(r) \/ DeleteLock(r)

Next ==
    \/ \E r \in Requests : Step(r) \/ Fail(r)
    \/ LockExpires
    \/ ResponseExpires

Spec == Init /\ [][Next]_vars

\* Clients retry, Node runs the interceptor, Redis drops what has expired.
FairSpec == Spec /\ (\A r \in Requests : WF_vars(Step(r))) /\ WF_vars(LockExpires)

------------------------------------------------------------------------------
(***************************************************************************)
(* Properties.                                                             *)
(***************************************************************************)

\* The handler never runs for two requests of the key at the same time, and the
\* lock is held while it runs (idempotency.interceptor.ts, 59).
OneAtATime ==
    \A q, r \in Requests :
        pc[q] \in Holding => locked /\ (pc[r] \in Holding => q = r)

\* Only a failure leaves the lock behind: otherwise someone is at work on what a
\* 409 calls a request in progress (idempotency.interceptor.ts, 67).
LockedIsBusy == locked => faults > 0 \/ \E r \in Requests : pc[r] \in Holding

\* A client that retries is answered in the end, although a failed request keeps
\* the key locked for 300 s (idempotency.interceptor.ts, 59 and 72).
AnsweredInTheEnd == \A r \in Requests : <>(answer[r] \in Requests)

\* A request that is sent again gets the response of the first
\* (trips.controller.ts, 34).
ExecutedOnce == \A q, r \in Requests : answer[q] = q /\ answer[r] = r => q = r

==============================================================================
