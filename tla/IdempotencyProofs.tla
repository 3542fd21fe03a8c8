-------------------------- MODULE IdempotencyProofs --------------------------
(***************************************************************************)
(* The lock of an Idempotency-Key excludes a second execution, for any     *)
(* number of requests and failures.                                        *)
(***************************************************************************)
EXTENDS Idempotency, TLAPS

\* Both properties of the lock, and the types, are inductive together: a lock
\* that is free has no holder, so whoever takes it is alone.
IInv == TypeOK /\ OneAtATime /\ LockedIsBusy

\* Nothing holds the lock at first.
LEMMA InitInv == Init => IInv
  <1> SUFFICES ASSUME Init PROVE IInv
    OBVIOUS
  <1>1. TypeOK
    <2>1. 0 \in 0..MaxFaults
      BY ConstantAssumption DEF ConstantAssumption
    <2> QED
      BY <2>1 DEF Init, TypeOK
  <1>2. OneAtATime
    BY DEF Init, OneAtATime, Holding
  <1>3. LockedIsBusy
    BY DEF Init, LockedIsBusy
  <1> QED
    BY <1>1, <1>2, <1>3 DEF IInv

\* A step of the interceptor keeps the types.
LEMMA TypeKept == TypeOK /\ [Next]_vars => TypeOK'
  <1> SUFFICES ASSUME TypeOK, [Next]_vars PROVE TypeOK'
    OBVIOUS
  <1> USE ConstantAssumption DEF TypeOK, Holding, Goto, Answer
  <1>1. ASSUME NEW r \in Requests, Step(r) PROVE TypeOK'
    <2>1. CASE SetLock(r)
      BY <2>1 DEF SetLock
    <2>2. CASE GetCached(r)
      BY <2>2 DEF GetCached
    <2>3. CASE Handle(r)
      BY <2>3 DEF Handle
    <2>4. CASE StoreResponse(r)
      BY <2>4 DEF StoreResponse
    <2>5. CASE DeleteLock(r)
      BY <2>5 DEF DeleteLock
    <2> QED
      BY <1>1, <2>1, <2>2, <2>3, <2>4, <2>5 DEF Step
  <1>2. ASSUME NEW r \in Requests, Fail(r) PROVE TypeOK'
    BY <1>2 DEF Fail
  <1>3. CASE LockExpires
    BY <1>3 DEF LockExpires
  <1>4. CASE ResponseExpires
    BY <1>4 DEF ResponseExpires
  <1>5. CASE UNCHANGED vars
    BY <1>5 DEF vars
  <1> QED
    BY <1>1, <1>2, <1>3, <1>4, <1>5 DEF Next

\* A step keeps the lock exclusive and never leaves it behind unless it fails.
LEMMA LockKept == IInv /\ [Next]_vars => OneAtATime' /\ LockedIsBusy'
  <1> SUFFICES ASSUME IInv, [Next]_vars PROVE OneAtATime' /\ LockedIsBusy'
    OBVIOUS
  <1> USE DEF IInv, TypeOK, OneAtATime, LockedIsBusy, Holding, Goto
  <1>1. ASSUME NEW r \in Requests, Step(r) PROVE OneAtATime' /\ LockedIsBusy'
    <2>1. CASE SetLock(r)
      <3>1. CASE Acquired
        BY <2>1, <3>1 DEF SetLock, Acquired
      <3>2. CASE ~Acquired
        BY <2>1, <3>2 DEF SetLock, Acquired
      <3> QED
        BY <3>1, <3>2
    <2>2. CASE GetCached(r)
      BY <2>2 DEF GetCached
    <2>3. CASE Handle(r)
      BY <2>3 DEF Handle
    <2>4. CASE StoreResponse(r)
      BY <2>4 DEF StoreResponse
    <2>5. CASE DeleteLock(r)
      BY <2>5 DEF DeleteLock
    <2> QED
      BY <1>1, <2>1, <2>2, <2>3, <2>4, <2>5 DEF Step
  <1>2. ASSUME NEW r \in Requests, Fail(r) PROVE OneAtATime' /\ LockedIsBusy'
    BY <1>2, ConstantAssumption DEF Fail
  <1>3. CASE LockExpires
    BY <1>3 DEF LockExpires, Expires
  <1>4. CASE ResponseExpires
    BY <1>4 DEF ResponseExpires
  <1>5. CASE UNCHANGED vars
    BY <1>5 DEF vars
  <1> QED
    BY <1>1, <1>2, <1>3, <1>4, <1>5 DEF Next

\* The inductive invariant holds in every behaviour of the interceptor.
THEOREM Invariance == Spec => []IInv
  <1>1. IInv /\ [Next]_vars => IInv'
    BY TypeKept, LockKept DEF IInv
  <1> QED
    BY InitInv, <1>1, PTL DEF Spec

\* The handler never runs for two requests of one key at a time
\* (idempotency.interceptor.ts, SET ... NX).
THEOREM Exclusive == Spec => []OneAtATime
  <1>1. IInv => OneAtATime
    BY DEF IInv
  <1> QED
    BY Invariance, <1>1, PTL

\* A lock without a request at work was left behind by a failure
\* (idempotency.interceptor.ts, the tap that deletes it).
THEOREM LeftByFailure == Spec => []LockedIsBusy
  <1>1. IInv => LockedIsBusy
    BY DEF IInv
  <1> QED
    BY Invariance, <1>1, PTL

==============================================================================
