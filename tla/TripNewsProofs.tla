--------------------------- MODULE TripNewsProofs ---------------------------
(***************************************************************************)
(* TripNews, for any number of requests, listeners and pushes at once and  *)
(* any number of failures: who has to be told of a status is covered by    *)
(* a handler, a listener or a push that will tell it.                      *)
(***************************************************************************)
EXTENDS TripNews, FiniteSetTheorems, TLAPS

------------------------------------------------------------------------------
(***************************************************************************)
(* The inductive invariant.                                                *)
(***************************************************************************)
Announcing(w) == task[w].pc = "announce" /\ task[w].to = status

\* A move was allowed when it was requested; what is in the past stays there.
TaskOK(w) ==
    /\ task[w].pc \in Moving =>
          /\ task[w].to # "pending"
          /\ task[w].to \in Engaged \ {"accepted"} => driven
          /\ task[w].to = "completed" => "in_progress" \in been
    /\ task[w].pc = "announce" => status # "pending"
    /\ task[w].pc \in {"confirm", "findRating", "createRating"} => "completed" \in been
    /\ task[w].pc = "payment" => "in_progress" \in been

Confirming == {w \in Workers : task[w].pc = "confirm"}
PastOK ==
    /\ status = "in_progress" => "in_progress" \in been
    /\ status = "completed" => {"in_progress", "completed"} \subseteq been
    /\ rated # {} \/ confirmed > 0 => "completed" \in been
    /\ paid => "in_progress" \in been
    /\ confirmed + Cardinality(Confirming) <= Cardinality(Workers)

\* Before the first change there is no news.
Quiet ==
    /\ {"tell", "failTell", "staleTell"} \cap listeners # {} => status # "pending"
    /\ status = "pending" => \A p \in Parties : last[p] = "none"

\* Party p hears what is emitted to all.
Hears(p) ==
    \/ "trip" \in conn[p]
    \/ /\ "own" \in conn[p]
       /\ p = "client" \/ driven

\* Whoever heard of a status is still where the next one is heard.
StillThere == \A p \in Parties : last[p] # "none" => Hears(p)

\* A party that is behind will be told, by a handler, a listener or the sweep,
\* unless the service left it out.
Covered(p) ==
    \/ p \in outside
    \/ Hears(p) /\ \E w \in Workers : Announcing(w)
    \/ "tell" \in listeners /\ status = "accepted" /\ p = "client" /\ Hears(p)
    \/ /\ {"failTell", "staleTell"} \cap listeners # {}
       /\ status = "cancelled_auto" /\ "trip" \in conn[p]
BehindCovered == \A p \in behind : Covered(p)

\* A push that is owed is on its way, or its handler or listener is.
OwedCovered ==
    \/ owed = "none"
    \/ \E w \in Workers : Announcing(w) /\ PushTarget(status, task[w].by, driven) = owed
    \/ "tell" \in listeners /\ status = "accepted" /\ owed = "client"
    \/ \E x \in pushes : TellsOf(x, status) /\ Target(x) = owed

UnreadCovered ==
    ClientRole = "client" =>
        \A p \in unread : \E x \in pushes : x.kind = "message" /\ Target(x) = p

\* A handler that overlaps no other: the listener that an acceptance starts
\* writes and tells the same, and the sweep tells whom it has not left out.
Movers == {w \in Workers : task[w].pc \in Moving}
UpToDate ==
    \A p \in Parties :
        \/ last[p] \in {"none", status}
        \/ p \in outside
        \/ "staleTell" \in listeners /\ "trip" \in conn[p]
AloneOK ==
    alone =>
        /\ \A v, w \in Movers : v = w
        /\ \/ listeners = {}
           \/ listeners = {"fail"} /\ status = "pending" /\ Movers = {}
           \/ listeners = {"failTell"} /\ status = "cancelled_auto" /\ Movers = {}
           \/ /\ listeners = {"stale"} /\ status \in {"accepted", "driver_arriving"}
              /\ Movers = {}
           \/ listeners = {"staleTell"} /\ status = "cancelled_auto" /\ Movers = {}
           \/ /\ listeners \in {{"assign"}, {"tell"}}
              /\ listeners = {"tell"} \/ Movers = {} => status = "accepted"
              /\ \A w \in Movers : task[w].to = "accepted"
        /\ \A w \in Movers : task[w].pc = "announce" => task[w].to = status
        /\ Movers = {} /\ listeners # {"stale"} => UpToDate

IInv ==
    /\ TypeOK /\ IsFiniteSet(pushes) /\ PastOK /\ Quiet /\ StillThere
    /\ \A w \in Workers : TaskOK(w)
    /\ BehindCovered /\ OwedCovered /\ UnreadCovered /\ AloneOK

\* Worker w goes on to task k, and the others keep theirs.
Moved(w, k) ==
    /\ k \in Task /\ task' \in [Workers -> Task]
    /\ task'[w] = k
    /\ \A v \in Workers \ {w} : task'[v] = task[v]

------------------------------------------------------------------------------
(***************************************************************************)
(* Types.                                                                  *)
(***************************************************************************)
LEMMA Assumed ==
  /\ IsFiniteSet(Workers) /\ Cardinality(Workers) \in Nat
  /\ MaxListeners \in Nat /\ MaxPushes \in Nat
  /\ MaxMoves \in Nat /\ MaxAsides \in Nat /\ MaxFaults \in Nat
  BY ConstantAssumption, FS_CardinalityType DEF ConstantAssumption

LEMMA TaskTypes ==
  ASSUME NEW k \in Task
  PROVE  /\ k.pc \in {"idle", "confirm", "findRating", "createRating", "chat", "payment",
                      "write", "announce"}
         /\ k.pc # "idle" => k.by \in Parties
         /\ k.pc \in Moving => k.to \in TripStatus
         /\ k.pc = "idle" => k = Idle
  BY DEF Task, Idle, Moving

LEMMA TasksMade ==
  /\ Idle \in Task /\ Idle.pc = "idle"
  /\ \A u \in Parties :
        \A pc \in {"confirm", "findRating", "createRating", "chat", "payment"} :
            /\ At(pc, u) \in Task /\ At(pc, u).pc = pc /\ At(pc, u).by = u
  /\ \A u \in Parties, s \in TripStatus :
        /\ Write(s, u) \in Task /\ Write(s, u).pc = "write"
        /\ Write(s, u).by = u /\ Write(s, u).to = s
  BY DEF Task, Idle, At, Write, Moving

LEMMA TasksGoOn ==
  ASSUME NEW k \in Task
  PROVE  /\ k.pc = "write" =>
               /\ [k EXCEPT !.pc = "announce"] \in Task
               /\ [k EXCEPT !.pc = "announce"].pc = "announce"
               /\ [k EXCEPT !.pc = "announce"].by = k.by
               /\ [k EXCEPT !.pc = "announce"].to = k.to
         /\ k.pc = "findRating" =>
               /\ [k EXCEPT !.pc = "createRating"] \in Task
               /\ [k EXCEPT !.pc = "createRating"].pc = "createRating"
               /\ [k EXCEPT !.pc = "createRating"].by = k.by
  BY DEF Task, Idle, Moving

LEMMA BecomesMoves ==
  ASSUME TypeOK, NEW w \in Workers, NEW k \in Task, Becomes(w, k)
  PROVE  Moved(w, k)
  BY DEF TypeOK, Becomes, Moved

LEMMA EndsMoves ==
  ASSUME TypeOK, NEW w \in Workers, Ends(w)
  PROVE  Moved(w, Idle)
  BY TasksMade, BecomesMoves DEF Ends

\* A push that goes to somebody goes there as well once the driver is assigned.
LEMMA TargetStays ==
  ASSUME driven \in BOOLEAN, driven' \in BOOLEAN, driven => driven',
         NEW x, Target(x) # "none"
  PROVE  Target(x)' = Target(x)
  BY DEF Target

LEMMA PushTargetStays ==
  ASSUME driven \in BOOLEAN, driven' \in BOOLEAN, driven => driven',
         NEW s, NEW u, PushTarget(s, u, driven) # "none"
  PROVE  PushTarget(s, u, driven') = PushTarget(s, u, driven)
  BY DEF PushTarget

------------------------------------------------------------------------------
(***************************************************************************)
(* Steps that write and announce no status.                                *)
(***************************************************************************)
\* Nobody that will tell of the status, and no push that is owed, gets lost; a
\* party that leaves has nothing to hear.
Steady ==
    /\ UNCHANGED <<status, driven>>
    /\ \A v \in Workers : Announcing(v) => Announcing(v)' /\ task'[v].by = task[v].by
    /\ \A l \in {"tell", "failTell", "staleTell"} : l \in listeners <=> l \in listeners'
    /\ \A p \in Parties : /\ last'[p] \in {last[p], "none"}
                          /\ last'[p] # "none" \/ p \in behind' => conn[p] \subseteq conn'[p]
                          /\ p \in outside => p \in outside' \/ p \notin behind'
    /\ behind' \subseteq behind
    /\ owed' \in {owed, "none"}
    /\ \A x \in pushes : x \in pushes' \/ owed' = "none"
                         \/ ~(TellsOf(x, status) /\ Target(x) = owed)

LEMMA SteadyKept ==
  ASSUME IInv, Steady
  PROVE  Quiet' /\ StillThere' /\ BehindCovered' /\ OwedCovered'
  <1>1. Quiet'
    BY DEF IInv, Quiet, Steady
  <1>2. ASSUME NEW p \in Parties, Hears(p), conn[p] \subseteq conn'[p]
        PROVE  Hears(p)'
    BY <1>2 DEF Hears, Steady
  <1>3. StillThere'
    BY <1>2 DEF IInv, StillThere, Steady
  <1>4. BehindCovered'
    <2>. SUFFICES ASSUME NEW p \in behind' PROVE Covered(p)'
      BY DEF BehindCovered
    <2>1. p \in Parties /\ Covered(p) /\ conn[p] \subseteq conn'[p]
      BY DEF IInv, TypeOK, BehindCovered, Steady
    <2>. QED
      BY <2>1, <1>2 DEF Covered, Steady
  <1>5. OwedCovered'
    <2>1. CASE owed' = "none"
      BY <2>1 DEF OwedCovered
    <2>2. CASE owed' # "none" /\ owed # "none"
      <3>1. \A x : Target(x)' = Target(x)
        BY DEF Target, Steady
      <3>2. CASE \E w \in Workers : Announcing(w) /\ PushTarget(status, task[w].by, driven) = owed
        BY <2>2, <3>2 DEF OwedCovered, Steady
      <3>3. CASE "tell" \in listeners /\ status = "accepted" /\ owed = "client"
        BY <2>2, <3>3 DEF OwedCovered, Steady
      <3>4. CASE \E x \in pushes : TellsOf(x, status) /\ Target(x) = owed
        <4>1. PICK x \in pushes : TellsOf(x, status) /\ Target(x) = owed
          BY <3>4
        <4>2. x \in pushes' /\ TellsOf(x, status') /\ Target(x)' = owed'
          BY <2>2, <3>1, <4>1 DEF Steady
        <4>. QED
          BY <4>2 DEF OwedCovered
      <3>. QED
        BY <2>2, <3>2, <3>3, <3>4 DEF IInv, OwedCovered
    <2>. QED
      BY <2>1, <2>2 DEF Steady
  <1>. QED
    BY <1>1, <1>3, <1>4, <1>5

\* The movers are the same, and what the parties heard last, or less.
LEMMA AloneSame ==
  ASSUME IInv, UNCHANGED <<status, listeners, alone>>,
         \A w \in Workers : task[w].pc \in Moving \/ task'[w].pc \in Moving
                               => task'[w] = task[w],
         \A p \in Parties :
            \/ last'[p] = "none"
            \/ /\ last'[p] = last[p] /\ conn[p] \subseteq conn'[p]
               /\ p \in outside => p \in outside'
  PROVE  AloneOK'
  <1>1. Movers' = Movers
    BY DEF Movers
  <1>2. \A w \in Movers : task'[w] = task[w]
    BY DEF Movers
  <1>3. UpToDate => UpToDate'
    <2>. SUFFICES ASSUME UpToDate, NEW p \in Parties
                  PROVE  \/ last'[p] \in {"none", status'}
                         \/ p \in outside'
                         \/ "staleTell" \in listeners' /\ "trip" \in conn'[p]
      BY DEF UpToDate
    <2>1. \/ last[p] \in {"none", status}
          \/ p \in outside
          \/ "staleTell" \in listeners /\ "trip" \in conn[p]
      BY DEF UpToDate
    <2>. QED
      BY <2>1
  <1>. QED
    BY <1>1, <1>2, <1>3 DEF IInv, AloneOK

LEMMA UnreadSame ==
  ASSUME IInv, driven' \in BOOLEAN, driven => driven', unread' \subseteq unread,
         \A x \in pushes : x \in pushes' \/ x.kind # "message" \/ Target(x) \notin unread'
  PROVE  UnreadCovered'
  <1>. SUFFICES ASSUME ClientRole = "client", NEW p \in unread'
                PROVE  \E x \in pushes' : x.kind = "message" /\ Target(x)' = p
    BY DEF UnreadCovered
  <1>1. PICK x \in pushes : x.kind = "message" /\ Target(x) = p
    BY DEF IInv, UnreadCovered
  <1>2. p # "none"
    BY DEF IInv, TypeOK, Parties
  <1>3. Target(x)' = p
    BY <1>1, <1>2, TargetStays DEF IInv, TypeOK
  <1>4. x \in pushes'
    BY <1>1
  <1>. QED
    BY <1>1, <1>3, <1>4

\* What a handler knows of the past stays so.
LEMMA TaskStays ==
  ASSUME IInv, NEW v \in Workers, task'[v] = task[v], driven => driven',
         been \subseteq been', status' = "pending" => status = "pending"
  PROVE  TaskOK(v)'
  BY DEF IInv, TaskOK

LEMMA ConfirmingFinite ==
  IsFiniteSet(Confirming) /\ Cardinality(Confirming) \in Nat
  BY Assumed, FS_Subset, FS_CardinalityType DEF Confirming

LEMMA PastStays ==
  ASSUME IInv, been \subseteq been', UNCHANGED <<rated, confirmed>>,
         paid' => paid \/ "in_progress" \in been',
         Confirming' \subseteq Confirming,
         status' = "in_progress" => "in_progress" \in been',
         status' = "completed" => {"in_progress", "completed"} \subseteq been'
  PROVE  PastOK'
  <1>1. /\ Cardinality(Confirming') \in Nat
        /\ Cardinality(Confirming') <= Cardinality(Confirming)
    BY ConfirmingFinite, FS_Subset, FS_CardinalityType
  <1>. QED
    BY <1>1, ConfirmingFinite, Assumed DEF IInv, PastOK, TypeOK

\* One task changes.
LEMMA TasksStay ==
  ASSUME IInv, NEW w \in Workers, NEW k, Moved(w, k), driven => driven',
         been \subseteq been', status' = "pending" => status = "pending", TaskOK(w)'
  PROVE  \A v \in Workers : TaskOK(v)'
  BY TaskStays DEF Moved

\* The payments, confirmations, ratings and messages tell of no status.
LEMMA AsideKept ==
  ASSUME IInv, NEW w \in Workers, NEW k, Moved(w, k),
         task[w].pc \notin Moving, k.pc \notin Moving, pushes \subseteq pushes',
         UNCHANGED <<status, driven, conn, listeners, last, behind, outside, owed, alone>>
  PROVE  Quiet' /\ StillThere' /\ BehindCovered' /\ OwedCovered' /\ AloneOK'
  <1>1. Steady
    BY DEF Steady, Announcing, Moved, Moving
  <1>2. \A v \in Workers : task[v].pc \in Moving \/ task'[v].pc \in Moving
                               => task'[v] = task[v]
    BY DEF Moved
  <1>3. \A p \in Parties : /\ last'[p] = last[p] /\ conn[p] \subseteq conn'[p]
                           /\ p \in outside => p \in outside'
    OBVIOUS
  <1>. QED
    BY <1>1, <1>2, <1>3, SteadyKept, AloneSame

LEMMA PushesFinite ==
  ASSUME IInv, NEW x
  PROVE  IsFiniteSet(pushes \cup {x}) /\ IsFiniteSet(pushes \ {x})
  BY FS_AddElement, FS_Subset, pushes \ {x} \subseteq pushes DEF IInv

------------------------------------------------------------------------------
(***************************************************************************)
(* Payments, confirmations, ratings and messages.                          *)
(***************************************************************************)
LEMMA StartsInv ==
  ASSUME IInv, NEW w \in Workers, NEW u \in Parties,
         NEW pc \in {"confirm", "findRating", "chat", "payment"},
         Starts(w, At(pc, u)),
         pc = "confirm" => confirmed = 0,
         pc \in {"confirm", "findRating"} => status = "completed",
         pc = "payment" => status = "in_progress"
  PROVE  IInv'
  <1>. USE DEF Starts, trip, news
  <1>. DEFINE k == At(pc, u)
  <1>1. k \in Task /\ k.pc = pc
    BY TasksMade
  <1>2. Moved(w, k) /\ task[w].pc = "idle"
    BY <1>1, BecomesMoves, TasksMade DEF IInv
  <1>. HIDE DEF k
  <1>3. TypeOK'
    BY <1>2, Assumed DEF IInv, TypeOK, Moved
  <1>4. IsFiniteSet(pushes')
    BY DEF IInv
  <1>5. Quiet' /\ StillThere' /\ BehindCovered' /\ OwedCovered' /\ AloneOK'
    BY <1>1, <1>2, AsideKept DEF Moving, Moved
  <1>6. UnreadCovered'
    BY UnreadSame DEF IInv, TypeOK
  <1>7. TaskOK(w)'
    BY <1>1, <1>2 DEF TaskOK, IInv, PastOK, Moved, Moving
  <1>8. \A v \in Workers : TaskOK(v)'
    BY <1>2, <1>7, TasksStay
  <1>9. PastOK'
    <2>1. CASE pc = "confirm"
      <3>1. Cardinality(Confirming') \in Nat /\ Cardinality(Confirming') <= Cardinality(Workers)
        BY Assumed, FS_Subset, FS_CardinalityType, Confirming' \subseteq Workers DEF Confirming
      <3>. QED
        BY <2>1, <3>1, Assumed DEF IInv, PastOK
    <2>2. CASE pc # "confirm"
      <3>1. Confirming' \subseteq Confirming
        BY <1>1, <1>2, <2>2 DEF Confirming, Moved
      <3>. QED
        BY <3>1, PastStays DEF IInv, PastOK
    <2>. QED
      BY <2>1, <2>2
  <1>. QED
    BY <1>3, <1>4, <1>5, <1>6, <1>8, <1>9 DEF IInv

LEMMA WriteConfirmedInv ==
  ASSUME IInv, NEW w \in Workers, WriteConfirmed(w)
  PROVE  IInv'
  <1>. USE DEF WriteConfirmed, bounds, news
  <1>1. Moved(w, Idle) /\ Idle.pc = "idle" /\ task[w].pc = "confirm"
    BY EndsMoves, TasksMade DEF IInv
  <1>2. TypeOK'
    BY <1>1 DEF IInv, TypeOK, Moved
  <1>3. IsFiniteSet(pushes')
    BY DEF IInv
  <1>4. Quiet' /\ StillThere' /\ BehindCovered' /\ OwedCovered' /\ AloneOK'
    BY <1>1, AsideKept DEF Moving
  <1>5. UnreadCovered'
    BY UnreadSame DEF IInv, TypeOK
  <1>6. \A v \in Workers : TaskOK(v)'
    BY <1>1, TasksStay DEF TaskOK, Moved, Moving
  <1>7. PastOK'
    <2>1. Confirming' = Confirming \ {w} /\ w \in Confirming
      BY <1>1 DEF Confirming, Moved
    <2>2. Cardinality(Confirming') = Cardinality(Confirming) - 1
      BY <2>1, ConfirmingFinite, FS_RemoveElement
    <2>3. "completed" \in been
      BY <1>1 DEF IInv, TaskOK
    <2>. QED
      BY <2>2, <2>3, ConfirmingFinite, Assumed DEF IInv, PastOK, TypeOK
  <1>. QED
    BY <1>2, <1>3, <1>4, <1>5, <1>6, <1>7 DEF IInv

LEMMA MarkPaymentReceivedInv ==
  ASSUME IInv, NEW w \in Workers, MarkPaymentReceived(w)
  PROVE  IInv'
  <1>. USE DEF MarkPaymentReceived, bounds, news
  <1>1. Moved(w, Idle) /\ Idle.pc = "idle" /\ task[w].pc = "payment"
    BY EndsMoves, TasksMade DEF IInv
  <1>2. TypeOK'
    BY <1>1 DEF IInv, TypeOK, Moved
  <1>3. IsFiniteSet(pushes')
    BY DEF IInv
  <1>4. Quiet' /\ StillThere' /\ BehindCovered' /\ OwedCovered' /\ AloneOK'
    BY <1>1, AsideKept DEF Moving
  <1>5. UnreadCovered'
    BY UnreadSame DEF IInv, TypeOK
  <1>6. \A v \in Workers : TaskOK(v)'
    BY <1>1, TasksStay DEF TaskOK, Moved, Moving
  <1>7. PastOK'
    BY <1>1, PastStays DEF IInv, PastOK, TaskOK, Confirming, Moved
  <1>. QED
    BY <1>2, <1>3, <1>4, <1>5, <1>6, <1>7 DEF IInv

LEMMA RatingInv ==
  ASSUME IInv, NEW w \in Workers, FindRating(w) \/ CreateRating(w)
  PROVE  IInv'
  <1>. DEFINE k == IF FindRating(w) /\ task[w].by \notin rated
                   THEN [task[w] EXCEPT !.pc = "createRating"] ELSE Idle
  <1>1. /\ Moved(w, k) /\ k.pc \in {"idle", "createRating"}
        /\ task[w].pc \in {"findRating", "createRating"} /\ task[w].by \in Parties
    <2>1. task[w] \in Task
      BY DEF IInv, TypeOK
    <2>2. task[w].pc \in {"findRating", "createRating"} /\ task[w].by \in Parties
      BY <2>1, TaskTypes DEF FindRating, CreateRating
    <2>3. k \in Task /\ k.pc \in {"idle", "createRating"}
      BY <2>1, TasksGoOn, TasksMade DEF FindRating
    <2>4. Becomes(w, k)
      BY DEF FindRating, CreateRating, Ends
    <2>. QED
      BY <2>2, <2>3, <2>4, BecomesMoves DEF IInv
  <1>. HIDE DEF k
  <1>2. /\ UNCHANGED <<status, driven, confirmed, paid, conn, listeners, pushes, bounds, news>>
        /\ rated' = rated \/ rated' = rated \cup {task[w].by}
    BY DEF FindRating, CreateRating, trip
  <1>. USE DEF bounds, news
  <1>3. TypeOK'
    BY <1>1, <1>2 DEF IInv, TypeOK, Moved
  <1>4. IsFiniteSet(pushes')
    BY <1>2 DEF IInv
  <1>5. Quiet' /\ StillThere' /\ BehindCovered' /\ OwedCovered' /\ AloneOK'
    BY <1>1, <1>2, AsideKept DEF Moving
  <1>6. UnreadCovered'
    BY <1>2, UnreadSame DEF IInv, TypeOK
  <1>7. "completed" \in been
    BY <1>1 DEF IInv, TaskOK
  <1>8. \A v \in Workers : TaskOK(v)'
    BY <1>1, <1>2, <1>7, TasksStay DEF TaskOK, Moved, Moving
  <1>9. PastOK'
    <2>1. Confirming' = Confirming
      BY <1>1 DEF Confirming, Moved
    <2>. QED
      BY <1>2, <1>7, <2>1 DEF IInv, PastOK
  <1>. QED
    BY <1>3, <1>4, <1>5, <1>6, <1>8, <1>9 DEF IInv

LEMMA CreateMessageInv ==
  ASSUME IInv, NEW w \in Workers, CreateMessage(w)
  PROVE  IInv'
  <1>. USE DEF CreateMessage, trip, bounds
  <1>1. /\ Moved(w, Idle) /\ Idle.pc = "idle" /\ task[w].pc = "chat"
        /\ task[w].by \in Parties
    BY EndsMoves, TasksMade, TaskTypes DEF IInv, TypeOK
  <1>. PICK u \in Parties : u = task[w].by
    BY <1>1
  <1>. DEFINE x == [kind |-> "message", role |-> SenderRole(u)]
  <1>2. x \in Push /\ IsFiniteSet(pushes') /\ x \in pushes' /\ pushes \subseteq pushes'
    <2>1. SenderRole(u) \in Parties
      BY <1>1, ConstantAssumption DEF ConstantAssumption, SenderRole, Parties
    <2>2. IsFiniteSet(pushes')
      BY PushesFinite
    <2>. QED
      BY <2>1, <2>2 DEF Push
  <1>3. TypeOK'
    BY <1>1, <1>2 DEF IInv, TypeOK, Moved, Other, Parties
  <1>4. Quiet' /\ StillThere' /\ BehindCovered' /\ OwedCovered' /\ AloneOK'
    BY <1>1, <1>2, AsideKept DEF Moving
  <1>5. UnreadCovered'
    <2>. SUFFICES ASSUME ClientRole = "client", NEW p \in unread'
                  PROVE  \E y \in pushes' : y.kind = "message" /\ Target(y)' = p
      BY DEF UnreadCovered
    <2>1. CASE p \in unread
      <3>1. PICK y \in pushes : y.kind = "message" /\ Target(y) = p
        BY <2>1 DEF IInv, UnreadCovered
      <3>2. Target(y)' = Target(y)
        BY DEF Target
      <3>. QED
        BY <1>2, <3>1, <3>2
    <2>2. CASE p \notin unread
      <3>1. p = Other(u) /\ ~(u = "client" /\ ~driven)
        BY <2>2
      <3>2. x.kind = "message" /\ Target(x)' = p
        BY <3>1 DEF Target, SenderRole, Other, Parties, IInv, TypeOK
      <3>. QED
        BY <1>2, <3>2
    <2>. QED
      BY <2>1, <2>2
  <1>6. \A v \in Workers : TaskOK(v)'
    BY <1>1, TasksStay DEF TaskOK, Moved, Moving
  <1>7. PastOK'
    BY <1>1, PastStays DEF IInv, PastOK, Confirming, Moved
  <1>. QED
    BY <1>2, <1>3, <1>4, <1>5, <1>6, <1>7 DEF IInv

------------------------------------------------------------------------------
(***************************************************************************)
(* Sockets, pushes, and handlers that begin.                               *)
(***************************************************************************)
LEMMA SocketInv ==
  ASSUME IInv, Socket
  PROVE  IInv'
  <1>1. PICK p \in Parties : JoinOwnRoom(p) \/ TripJoin(p) \/ LeaveAllRooms(p)
    BY DEF Socket
  <1>2. /\ UNCHANGED <<trip, task, listeners, pushes, asides, faults, been, owed, unread, alone>>
        /\ moves' \in 0..MaxMoves
        /\ conn' \in [Parties -> SUBSET {"own", "trip"}]
        /\ \A q \in Parties \ {p} : conn'[q] = conn[q] /\ last'[q] = last[q]
        /\ \/ /\ conn[p] \subseteq conn'[p]
              /\ last' = last /\ behind' = behind /\ outside' = outside
           \/ last'[p] = "none" /\ behind' = behind \ {p} /\ outside' = outside \ {p}
        /\ last' \in [Parties -> TripStatus \cup {"none"}]
    <2>1. CASE JoinOwnRoom(p) \/ TripJoin(p)
      BY <2>1, Assumed DEF IInv, TypeOK, JoinOwnRoom, TripJoin, Joins, Moves, news
    <2>2. CASE LeaveAllRooms(p)
      BY <2>2, Assumed DEF IInv, TypeOK, LeaveAllRooms, Moves
    <2>. QED
      BY <1>1, <2>1, <2>2
  <1>. USE DEF trip
  <1>3. Steady
    BY <1>2 DEF Steady, Announcing, IInv, TypeOK
  <1>4. TypeOK' /\ IsFiniteSet(pushes')
    BY <1>2 DEF IInv, TypeOK
  <1>5. AloneOK'
    BY <1>2, AloneSame
  <1>6. UnreadCovered'
    BY <1>2, UnreadSame DEF IInv, TypeOK
  <1>7. \A v \in Workers : TaskOK(v)'
    BY <1>2, TaskStays
  <1>8. PastOK'
    BY <1>2, PastStays DEF IInv, PastOK, Confirming
  <1>. QED
    BY <1>3, <1>4, <1>5, <1>6, <1>7, <1>8, SteadyKept DEF IInv

LEMMA SendToUserInv ==
  ASSUME IInv, NEW x \in pushes, SendToUser(x)
  PROVE  IInv'
  <1>. USE DEF SendToUser, trip, bounds
  <1>1. Steady
    BY DEF Steady, Announcing
  <1>2. IsFiniteSet(pushes') /\ Cardinality(pushes') <= MaxPushes
    <2>1. IsFiniteSet(pushes) /\ Cardinality(pushes) <= MaxPushes /\ pushes' = pushes \ {x}
      BY DEF IInv, TypeOK
    <2>2. Cardinality(pushes') = Cardinality(pushes) - 1 /\ IsFiniteSet(pushes')
      BY <2>1, FS_RemoveElement
    <2>3. Cardinality(pushes) \in Nat
      BY <2>1, FS_CardinalityType
    <2>. QED
      BY <2>1, <2>2, <2>3, Assumed
  <1>3. TypeOK'
    BY <1>2 DEF IInv, TypeOK
  <1>4. AloneOK'
    BY AloneSame
  <1>5. UnreadCovered'
    BY UnreadSame DEF IInv, TypeOK
  <1>6. \A v \in Workers : TaskOK(v)'
    BY TaskStays
  <1>7. PastOK'
    BY PastStays DEF IInv, PastOK, Confirming
  <1>. QED
    BY <1>1, <1>2, <1>3, <1>4, <1>5, <1>6, <1>7, SteadyKept DEF IInv

\* A move was allowed by what the trip is now.
LEMMA MayMoveOK ==
  ASSUME IInv, NEW s, NEW u \in Parties, canTransition(status, s), MayMove(u, s)
  PROVE  /\ s \in TripStatus \ {"pending"}
         /\ s \in Engaged \ {"accepted"} => driven
         /\ s = "completed" => "in_progress" \in been
  BY DEF IInv, PastOK, canTransition, TRANSITIONS, TripStatus, MayMove, Engaged

LEMMA BeginsInv ==
  ASSUME IInv, NEW w \in Workers, NEW u \in Parties, NEW s,
         canTransition(status, s), MayMove(u, s), Begins(w, Write(s, u)),
         \/ listeners' = listeners
         \/ s = "accepted" /\ listeners' = listeners \cup {"assign"}
  PROVE  IInv'
  <1>. USE DEF Begins, trip, bounds
  <1>1. s \in TripStatus \ {"pending"}
    BY MayMoveOK
  <1>. PICK k \in Task : k = Write(s, u)
    BY <1>1, TasksMade
  <1>2. k.pc = "write" /\ k.to = s /\ Moved(w, k) /\ task[w].pc = "idle"
    BY <1>1, TasksMade, BecomesMoves DEF IInv
  <1>3. Steady
    BY <1>2 DEF Steady, Announcing, Moved
  <1>4. TypeOK' /\ IsFiniteSet(pushes')
    BY <1>2 DEF IInv, TypeOK, Moved
  <1>5. AloneOK'
    <2>. SUFFICES ASSUME alone' PROVE AloneOK'
      BY DEF AloneOK
    <2>1. listeners = {} /\ Movers = {}
      BY DEF Telling, Movers
    <2>2. Movers' = {w} /\ task'[w].pc = "write" /\ task'[w].to = s
      BY <1>2, <2>1 DEF Movers, Moved, Moving
    <2>3. listeners' = {} \/ (s = "accepted" /\ listeners' = {"assign"})
      BY <2>1
    <2>. QED
      BY <2>2, <2>3 DEF AloneOK
  <1>6. UnreadCovered'
    BY UnreadSame DEF IInv, TypeOK
  <1>7. TaskOK(w)'
    BY <1>2, MayMoveOK DEF TaskOK, Moved
  <1>8. \A v \in Workers : TaskOK(v)'
    BY <1>2, <1>7, TasksStay
  <1>9. PastOK'
    BY <1>2, PastStays DEF IInv, PastOK, Confirming, Moved
  <1>. QED
    BY <1>3, <1>4, <1>5, <1>6, <1>8, <1>9, SteadyKept DEF IInv

LEMMA DispatchFailedInv ==
  ASSUME IInv, DispatchFailed
  PROVE  IInv'
  <1>. USE DEF DispatchFailed, trip, bounds
  <1>1. Steady
    BY DEF Steady, Announcing
  <1>2. TypeOK' /\ IsFiniteSet(pushes')
    BY DEF IInv, TypeOK
  <1>3. AloneOK'
    <2>. SUFFICES ASSUME alone' PROVE AloneOK'
      BY DEF AloneOK
    <2>1. listeners' = {"fail"} /\ Movers' = {} /\ status' = "pending"
      BY DEF Telling, Movers
    <2>2. UpToDate'
      <3>1. \A p \in Parties : last'[p] = "none"
        BY DEF IInv, Quiet
      <3>. QED
        BY <3>1 DEF UpToDate
    <2>. QED
      BY <2>1, <2>2 DEF AloneOK
  <1>4. UnreadCovered'
    BY UnreadSame DEF IInv, TypeOK
  <1>5. \A v \in Workers : TaskOK(v)'
    BY TaskStays
  <1>6. PastOK'
    BY PastStays DEF IInv, PastOK, Confirming
  <1>. QED
    BY <1>1, <1>2, <1>3, <1>4, <1>5, <1>6, SteadyKept DEF IInv

LEMMA FindStaleInv ==
  ASSUME IInv, FindStale
  PROVE  IInv'
  <1>. USE DEF FindStale, trip, bounds
  <1>1. Steady
    BY DEF Steady, Announcing
  <1>2. TypeOK' /\ IsFiniteSet(pushes')
    BY DEF IInv, TypeOK
  <1>3. AloneOK'
    <2>. SUFFICES ASSUME alone' PROVE AloneOK'
      BY DEF AloneOK
    <2>1. listeners' = {"stale"} /\ Movers' = {} /\ status' \in {"accepted", "driver_arriving"}
      BY DEF Telling, Movers
    <2>. QED
      BY <2>1 DEF AloneOK
  <1>4. UnreadCovered'
    BY UnreadSame DEF IInv, TypeOK
  <1>5. \A v \in Workers : TaskOK(v)'
    BY TaskStays
  <1>6. PastOK'
    BY PastStays DEF IInv, PastOK, Confirming
  <1>. QED
    BY <1>1, <1>2, <1>3, <1>4, <1>5, <1>6, SteadyKept DEF IInv

------------------------------------------------------------------------------
(***************************************************************************)
(* A status is written.                                                    *)
(***************************************************************************)
LEMMA WriteStatusInv ==
  ASSUME IInv, NEW w \in Workers, WriteStatus(w)
  PROVE  IInv'
  <1>. USE DEF WriteStatus, Changes, bounds
  <1>. PICK s \in TripStatus, u \in Parties, k \in Task :
          /\ s = task[w].to /\ u = task[w].by /\ k = [task[w] EXCEPT !.pc = "announce"]
          /\ k.pc = "announce" /\ k.to = s /\ k.by = u
    <2>1. task[w] \in Task /\ task[w].pc = "write"
      BY DEF IInv, TypeOK
    <2>2. /\ task[w].to \in TripStatus /\ task[w].by \in Parties
          /\ [task[w] EXCEPT !.pc = "announce"] \in Task
          /\ [task[w] EXCEPT !.pc = "announce"].pc = "announce"
          /\ [task[w] EXCEPT !.pc = "announce"].by = task[w].by
          /\ [task[w] EXCEPT !.pc = "announce"].to = task[w].to
      BY <2>1, TaskTypes, TasksGoOn DEF Moving
    <2>. HIDE DEF WriteStatus
    <2>. QED
      BY <2>2
  <1>1. Moved(w, k) /\ task[w].pc = "write"
    BY BecomesMoves DEF IInv
  <1>2. /\ s # "pending" /\ status' = s
        /\ s \in Engaged \ {"accepted"} => driven
        /\ s = "completed" => "in_progress" \in been
    BY <1>1 DEF IInv, TaskOK, Moving
  <1>3. driven \in BOOLEAN /\ driven' \in BOOLEAN /\ (driven => driven')
    BY DEF IInv, TypeOK, Assigned
  <1>4. Announcing(w)' /\ task'[w].by = u
    BY <1>1, <1>2 DEF Announcing, Moved
  <1>5. TypeOK' /\ IsFiniteSet(pushes')
    <2>1. status' \in TripStatus /\ (status' \in Engaged => driven')
      BY <1>2 DEF Assigned
    <2>2. owed' \in Parties \cup {"none"}
      BY DEF IInv, TypeOK, PushTarget, Parties
    <2>3. paid' \in BOOLEAN /\ task' \in [Workers -> Task]
      BY <1>1 DEF IInv, TypeOK, Moved
    <2>4. behind' \subseteq Parties /\ outside' \subseteq Parties
      <3>1. behind' \in {behind, Concerned(driven')} /\ outside' \in {outside, {}}
        OBVIOUS
      <3>. HIDE DEF WriteStatus, Changes
      <3>. QED
        BY <3>1 DEF IInv, TypeOK, Concerned
    <2>. QED
      BY <1>3, <2>1, <2>2, <2>3, <2>4 DEF IInv, TypeOK
  <1>6. \A p \in Parties : Hears(p) => Hears(p)'
    BY <1>3 DEF Hears
  <1>7. Quiet' /\ StillThere'
    BY <1>2, <1>6 DEF IInv, Quiet, StillThere
  <1>8. BehindCovered'
    <2>. SUFFICES ASSUME NEW p \in behind' PROVE Hears(p)' \/ p \in outside'
      BY <1>4 DEF BehindCovered, Covered
    <2>1. CASE s = status
      BY <2>1, <1>6 DEF IInv, TypeOK, BehindCovered, Covered, Hears
    <2>2. CASE s # status
      BY <2>2, <1>3 DEF Concerned, Hears, IInv, TypeOK
    <2>. QED
      BY <2>1, <2>2
  <1>9. OwedCovered'
    <2>1. CASE s # status
      <3>1. owed' = PushTarget(s, u, driven)
        BY <2>1
      <3>2. owed' = "none" \/ PushTarget(s, u, driven') = owed'
        BY <1>3, <3>1, PushTargetStays
      <3>. QED
        BY <1>2, <1>4, <3>2 DEF OwedCovered
    <2>2. CASE s = status /\ owed # "none"
      <3>1. owed' = owed /\ status' = status
        BY <2>2
      <3>2. CASE \E v \in Workers : Announcing(v) /\ PushTarget(status, task[v].by, driven) = owed
        <4>1. PICK v \in Workers : Announcing(v) /\ PushTarget(status, task[v].by, driven) = owed
          BY <3>2
        <4>2. Announcing(v)' /\ task'[v].by = task[v].by
          BY <1>1, <3>1, <4>1 DEF Announcing, Moved
        <4>3. PushTarget(status', task'[v].by, driven') = owed'
          BY <1>3, <2>2, <3>1, <4>1, <4>2, PushTargetStays
        <4>. QED
          BY <4>2, <4>3 DEF OwedCovered
      <3>3. CASE "tell" \in listeners /\ status = "accepted" /\ owed = "client"
        BY <3>1, <3>3 DEF OwedCovered
      <3>4. CASE \E x \in pushes : TellsOf(x, status) /\ Target(x) = owed
        <4>1. PICK x \in pushes : TellsOf(x, status) /\ Target(x) = owed
          BY <3>4
        <4>2. Target(x)' = owed'
          BY <1>3, <2>2, <3>1, <4>1, TargetStays
        <4>. QED
          BY <3>1, <4>1, <4>2 DEF OwedCovered
      <3>. QED
        BY <2>2, <3>2, <3>3, <3>4 DEF IInv, OwedCovered
    <2>3. CASE s = status /\ owed = "none"
      BY <2>3 DEF OwedCovered
    <2>. QED
      BY <2>1, <2>2, <2>3
  <1>10. UnreadCovered'
    BY <1>3, UnreadSame DEF IInv, TypeOK
  <1>11. AloneOK'
    <2>. SUFFICES ASSUME alone' PROVE AloneOK'
      BY DEF AloneOK
    <2>1. w \in Movers /\ Movers' = Movers
      <3>1. \A v \in Workers : task'[v].pc \in Moving <=> task[v].pc \in Moving
        BY <1>1 DEF Moved, Moving
      <3>. QED
        BY <1>1, <3>1 DEF Movers, Moving
    <2>2. Movers = {w}
      BY <2>1 DEF IInv, AloneOK
    <2>3. listeners \notin {{}} => listeners \in {{"assign"}, {"tell"}} /\ s = "accepted"
      BY <2>1 DEF IInv, AloneOK
    <2>. QED
      BY <1>1, <1>2, <2>1, <2>2, <2>3 DEF AloneOK, Moved
  <1>12. \A v \in Workers : TaskOK(v)'
    <2>1. TaskOK(w)'
      BY <1>1, <1>2, <1>3 DEF TaskOK, Moved, Moving
    <2>. QED
      BY <1>1, <1>2, <1>3, <2>1, TasksStay
  <1>13. PastOK'
    <2>1. Confirming' = Confirming
      BY <1>1 DEF Confirming, Moved
    <2>. QED
      BY <1>2, <2>1, PastStays DEF IInv, PastOK
  <1>. QED
    BY <1>5, <1>7, <1>8, <1>9, <1>10, <1>11, <1>12, <1>13 DEF IInv

LEMMA AssignDriverInv ==
  ASSUME IInv, AssignDriver
  PROVE  IInv'
  <1>. USE DEF AssignDriver, Changes, bounds
  <1>1. /\ driven \in BOOLEAN /\ driven' \in BOOLEAN /\ driven' /\ status' = "accepted"
        /\ "tell" \in listeners'
    BY DEF IInv, TypeOK
  <1>2. TypeOK' /\ IsFiniteSet(pushes')
    BY DEF IInv, TypeOK, Concerned, Parties, TripStatus
  <1>3. \A p \in Parties : Hears(p) => Hears(p)'
    BY DEF Hears
  <1>4. Quiet' /\ StillThere'
    BY <1>3 DEF IInv, Quiet, StillThere
  <1>5. BehindCovered'
    <2>. SUFFICES ASSUME NEW p \in behind' PROVE Covered(p)'
      BY DEF BehindCovered
    <2>1. CASE status # "accepted"
      <3>1. p = "client" /\ Hears(p)
        BY <2>1 DEF Concerned, Hears, IInv, TypeOK, Parties
      <3>. QED
        BY <1>1, <1>3, <3>1 DEF Covered, Parties
    <2>2. CASE status = "accepted"
      BY <1>1, <1>3, <2>2 DEF IInv, TypeOK, BehindCovered, Covered, Announcing
    <2>. QED
      BY <2>1, <2>2
  <1>6. OwedCovered'
    <2>1. CASE status # "accepted"
      BY <1>1, <2>1 DEF OwedCovered
    <2>2. CASE status = "accepted" /\ owed # "none"
      <3>1. owed' = owed /\ status' = status
        BY <2>2
      <3>2. CASE \E v \in Workers : Announcing(v) /\ PushTarget(status, task[v].by, driven) = owed
        BY <1>1, <2>2, <3>1, <3>2, PushTargetStays DEF OwedCovered, Announcing
      <3>3. CASE "tell" \in listeners /\ status = "accepted" /\ owed = "client"
        BY <1>1, <3>1, <3>3 DEF OwedCovered
      <3>4. CASE \E x \in pushes : TellsOf(x, status) /\ Target(x) = owed
        <4>1. PICK x \in pushes : TellsOf(x, status) /\ Target(x) = owed
          BY <3>4
        <4>2. Target(x)' = owed'
          BY <1>1, <2>2, <3>1, <4>1, TargetStays
        <4>. QED
          BY <3>1, <4>1, <4>2 DEF OwedCovered
      <3>. QED
        BY <2>2, <3>2, <3>3, <3>4 DEF IInv, OwedCovered
    <2>3. CASE status = "accepted" /\ owed = "none"
      BY <2>3 DEF OwedCovered
    <2>. QED
      BY <2>1, <2>2, <2>3
  <1>7. UnreadCovered'
    BY <1>1, UnreadSame DEF IInv, TypeOK
  <1>8. AloneOK'
    <2>. SUFFICES ASSUME alone' PROVE AloneOK'
      BY DEF AloneOK
    <2>1. Movers' = Movers
      BY DEF Movers
    <2>2. /\ listeners = {"assign"} /\ (Movers = {} => status = "accepted")
          /\ \A v \in Movers : task[v].to = "accepted"
      BY DEF IInv, AloneOK
    <2>3. Movers = {} => UpToDate'
      BY <1>1, <2>2 DEF IInv, AloneOK, UpToDate
    <2>. QED
      BY <1>1, <2>1, <2>2, <2>3 DEF IInv, AloneOK
  <1>9. \A v \in Workers : TaskOK(v)'
    BY <1>1, TaskStays
  <1>10. PastOK'
    BY <1>1, PastStays DEF IInv, PastOK, Confirming
  <1>. QED
    BY <1>2, <1>4, <1>5, <1>6, <1>7, <1>8, <1>9, <1>10 DEF IInv

LEMMA UpdateStatusIfPendingInv ==
  ASSUME IInv, UpdateStatusIfPending
  PROVE  IInv'
  <1>. USE DEF UpdateStatusIfPending, ServiceCancels, Changes, bounds
  <1>1. /\ status = "pending" => /\ status' = "cancelled_auto" /\ owed' = "none"
                                 /\ behind' = Concerned(driven)
                                 /\ outside' = Concerned(driven) \ InTripRoom
        /\ status # "pending" => UNCHANGED <<status, behind, outside, owed>>
        /\ status' # "pending" /\ been \subseteq been'
    OBVIOUS
  <1>2. TypeOK' /\ IsFiniteSet(pushes')
    BY DEF IInv, TypeOK, Concerned, TripStatus, Engaged
  <1>3. Quiet' /\ StillThere'
    BY <1>1 DEF IInv, Quiet, StillThere, Hears
  <1>4. BehindCovered'
    <2>1. CASE status = "pending"
      BY <1>1, <2>1 DEF BehindCovered, Covered, InTripRoom, Concerned
    <2>2. CASE status # "pending"
      BY <1>1, <2>2 DEF IInv, BehindCovered, Covered, Hears, Announcing
    <2>. QED
      BY <2>1, <2>2
  <1>5. OwedCovered'
    <2>1. CASE status = "pending"
      BY <1>1, <2>1 DEF OwedCovered
    <2>2. CASE status # "pending"
      <3>1. \A x : Target(x)' = Target(x)
        BY DEF Target
      <3>. QED
        BY <1>1, <2>2, <3>1 DEF IInv, OwedCovered, Announcing
    <2>. QED
      BY <2>1, <2>2
  <1>6. UnreadCovered'
    BY UnreadSame DEF IInv, TypeOK
  <1>7. AloneOK'
    <2>. SUFFICES ASSUME alone' PROVE AloneOK'
      BY DEF AloneOK
    <2>1. Movers' = Movers
      BY DEF Movers
    <2>2. listeners = {"fail"} /\ status = "pending" /\ Movers = {}
      BY DEF IInv, AloneOK
    <2>3. UpToDate'
      <3>1. \A p \in Parties : last'[p] = "none"
        BY <2>2 DEF IInv, Quiet
      <3>. HIDE DEF UpdateStatusIfPending
      <3>. QED
        BY <3>1 DEF UpToDate
    <2>. QED
      BY <1>1, <2>1, <2>2, <2>3 DEF AloneOK
  <1>8. \A v \in Workers : TaskOK(v)'
    BY <1>1, TaskStays
  <1>9. PastOK'
    BY <1>1, PastStays DEF IInv, PastOK, Confirming
  <1>. QED
    BY <1>2, <1>3, <1>4, <1>5, <1>6, <1>7, <1>8, <1>9 DEF IInv

LEMMA CancelStaleInv ==
  ASSUME IInv, CancelStale
  PROVE  IInv'
  <1>. USE DEF CancelStale, ServiceCancels, Changes, bounds
  <1>1. /\ status # "cancelled_auto" => /\ owed' = "none"
                                        /\ behind' = Concerned(driven)
                                        /\ outside' = Concerned(driven) \ InTripRoom
        /\ status = "cancelled_auto" => UNCHANGED <<behind, outside, owed>>
        /\ status' = "cancelled_auto" /\ been \subseteq been'
        /\ "staleTell" \in listeners'
    OBVIOUS
  <1>2. TypeOK' /\ IsFiniteSet(pushes')
    BY DEF IInv, TypeOK, Concerned, TripStatus, Engaged
  <1>3. Quiet' /\ StillThere'
    BY <1>1 DEF IInv, Quiet, StillThere, Hears
  <1>4. BehindCovered'
    <2>1. CASE status # "cancelled_auto"
      BY <1>1, <2>1 DEF BehindCovered, Covered, InTripRoom, Concerned
    <2>2. CASE status = "cancelled_auto"
      BY <1>1, <2>2 DEF IInv, BehindCovered, Covered, Hears, Announcing
    <2>. QED
      BY <2>1, <2>2
  <1>5. OwedCovered'
    <2>1. CASE status # "cancelled_auto"
      BY <1>1, <2>1 DEF OwedCovered
    <2>2. CASE status = "cancelled_auto"
      <3>1. \A x : Target(x)' = Target(x)
        BY DEF Target
      <3>. QED
        BY <1>1, <2>2, <3>1 DEF IInv, OwedCovered, Announcing
    <2>. QED
      BY <2>1, <2>2
  <1>6. UnreadCovered'
    BY UnreadSame DEF IInv, TypeOK
  <1>7. AloneOK'
    <2>. SUFFICES ASSUME alone' PROVE AloneOK'
      BY DEF AloneOK
    <2>1. Movers' = Movers
      BY DEF Movers
    <2>2. listeners = {"stale"} /\ status \in {"accepted", "driver_arriving"} /\ Movers = {}
      BY DEF IInv, AloneOK
    <2>3. driven
      BY <2>2 DEF IInv, TypeOK, Engaged
    <2>4. \A p \in Parties : Hears(p) /\ "trip" \notin conn[p] => p \in outside'
      BY <1>1, <2>2, <2>3 DEF Hears, Concerned, InTripRoom
    <2>5. UpToDate'
      <3>. SUFFICES ASSUME NEW p \in Parties, last[p] # "none", "trip" \notin conn[p]
                    PROVE  p \in outside'
        BY <1>1 DEF UpToDate
      <3>. QED
        BY <2>4 DEF IInv, StillThere
    <2>6. listeners' = {"staleTell"}
      BY <2>2
    <2>. QED
      BY <1>1, <2>1, <2>2, <2>5, <2>6 DEF AloneOK
  <1>8. \A v \in Workers : TaskOK(v)'
    BY <1>1, TaskStays
  <1>9. PastOK'
    BY <1>1, PastStays DEF IInv, PastOK, Confirming
  <1>. QED
    BY <1>2, <1>3, <1>4, <1>5, <1>6, <1>7, <1>8, <1>9 DEF IInv

------------------------------------------------------------------------------
(***************************************************************************)
(* A status is announced.                                                  *)
(***************************************************************************)
LEMMA HearsAudience ==
  ASSUME TypeOK, NEW p \in Parties
  PROVE  /\ Hears(p) <=> p \in Audience(driven)
         /\ p = "client" => (Hears(p) <=> p \in InTripRoom \cup Room("client"))
         /\ p \in InTripRoom \cup Room("client") => Hears(p)
         /\ p \in InTripRoom <=> "trip" \in conn[p]
  BY DEF TypeOK, Hears, Audience, InTripRoom, Room, Parties

\* The event of a status is pushed to the one whom the status is owed to.
LEMMA EventIsPushed ==
  ASSUME NEW s \in TripStatus, NEW u \in Parties, PushTarget(s, u, driven) # "none"
  PROVE  \E x \in EventOf(s, u) : TellsOf(x, s) /\ Target(x) = PushTarget(s, u, driven)
  <1>1. CASE s \in {"driver_arriving", "in_progress", "completed"}
    <2>1. EventOf(s, u) = {[kind |-> s, to |-> "client"]}
      BY <1>1 DEF EventOf
    <2>2. Target([kind |-> s, to |-> "client"]) = "client"
      BY <1>1 DEF Target
    <2>3. PushTarget(s, u, driven) = "client"
      BY <1>1 DEF PushTarget
    <2>. QED
      BY <2>1, <2>2, <2>3 DEF TellsOf
  <1>2. CASE s \in {"cancelled_by_client", "cancelled_by_driver", "cancelled_auto"}
    <2>1. EventOf(s, u) = {[kind |-> "cancelled", by |-> u]}
      BY <1>2 DEF EventOf
    <2>2. PushTarget(s, u, driven) = Target([kind |-> "cancelled", by |-> u])
      BY <1>2 DEF PushTarget, Target
    <2>. QED
      BY <1>2, <2>1, <2>2 DEF TellsOf
  <1>. QED
    BY <1>1, <1>2 DEF PushTarget

LEMMA EventTypes ==
  ASSUME NEW s \in TripStatus, NEW u \in Parties
  PROVE  EventOf(s, u) \subseteq Push /\ IsFiniteSet(EventOf(s, u))
  <1>1. EventOf(s, u) \subseteq Push
    BY DEF EventOf, Push, Engaged
  <1>2. \/ EventOf(s, u) = {}
        \/ \E x : EventOf(s, u) = {x}
    BY DEF EventOf
  <1>. QED
    BY <1>1, <1>2, FS_EmptySet, FS_Singleton

LEMMA AnnounceStatusInv ==
  ASSUME IInv, NEW w \in Workers, AnnounceStatus(w)
  PROVE  IInv'
  <1>. USE DEF AnnounceStatus, Emit, trip, bounds
  <1>. PICK s \in TripStatus, u \in Parties : s = task[w].to /\ u = task[w].by
    <2>1. task[w].to \in TripStatus /\ task[w].by \in Parties
      BY TaskTypes DEF IInv, TypeOK, Moving
    <2>. HIDE DEF AnnounceStatus
    <2>. QED
      BY <2>1
  <1>1. Moved(w, Idle) /\ Idle.pc = "idle" /\ task[w].pc = "announce" /\ status # "pending"
    BY EndsMoves, TasksMade DEF IInv, TaskOK
  <1>2. TypeOK' /\ IsFiniteSet(pushes')
    <2>1. /\ pushes' = pushes \cup EventOf(status, u)
          /\ EventOf(status, u) \subseteq Push /\ IsFiniteSet(EventOf(status, u))
      BY EventTypes DEF EventEmitted, IInv, TypeOK
    <2>2. IsFiniteSet(pushes')
      <3>1. IsFiniteSet(pushes)
        BY DEF IInv
      <3>. HIDE DEF AnnounceStatus, Emit
      <3>. QED
        BY <2>1, <3>1, FS_Union
    <2>3. last' \in [Parties -> TripStatus \cup {"none"}] /\ behind' \subseteq Parties
      BY DEF IInv, TypeOK
    <2>4. pushes' \subseteq Push /\ task' \in [Workers -> Task]
      BY <1>1, <2>1 DEF IInv, TypeOK, Moved
    <2>5. Cardinality(pushes') <= MaxPushes
      OBVIOUS
    <2>6. /\ UNCHANGED <<status, driven, confirmed, rated, paid, conn, listeners>>
          /\ UNCHANGED <<moves, asides, faults, been, outside, owed, unread, alone>>
      OBVIOUS
    <2>. HIDE DEF AnnounceStatus, Emit
    <2>. QED
      BY <2>2, <2>3, <2>4, <2>5, <2>6 DEF IInv, TypeOK
  <1>3. \A p \in Parties : /\ Hears(p)' <=> Hears(p)
                           /\ p \in Audience(driven) <=> Hears(p)
                           /\ last'[p] = IF Hears(p) THEN s ELSE last[p]
    BY HearsAudience DEF Hears, IInv
  <1>4. Quiet' /\ StillThere'
    BY <1>1, <1>3 DEF IInv, Quiet, StillThere
  <1>5. \A v \in Workers \ {w} : Announcing(v) => Announcing(v)'
    BY <1>1 DEF Announcing, Moved
  <1>6. BehindCovered'
    <2>. SUFFICES ASSUME NEW p \in behind' PROVE Covered(p)'
      BY DEF BehindCovered
    <2>1. p \in Parties /\ Covered(p)
      BY DEF IInv, TypeOK, BehindCovered
    <2>2. CASE s = status
      BY <1>3, <2>1, <2>2 DEF Covered, Hears
    <2>3. CASE s # status
      BY <1>3, <1>5, <2>1, <2>3 DEF Covered, Announcing
    <2>. QED
      BY <2>2, <2>3
  <1>7. OwedCovered'
    <2>. SUFFICES ASSUME owed # "none" PROVE OwedCovered'
      BY DEF OwedCovered
    <2>1. \A x : Target(x)' = Target(x)
      BY DEF Target
    <2>2. CASE \E v \in Workers : Announcing(v) /\ PushTarget(status, task[v].by, driven) = owed
      <3>1. PICK v \in Workers : Announcing(v) /\ PushTarget(status, task[v].by, driven) = owed
        BY <2>2
      <3>2. CASE v = w
        <4>1. PICK x \in EventOf(status, u) : TellsOf(x, status) /\ Target(x) = owed
          BY <3>1, <3>2, EventIsPushed DEF IInv, TypeOK
        <4>2. x \in pushes'
          BY DEF EventEmitted
        <4>. QED
          BY <2>1, <4>1, <4>2 DEF OwedCovered
      <3>3. CASE v # w
        BY <1>1, <1>5, <3>1, <3>3 DEF OwedCovered, Moved
      <3>. QED
        BY <3>2, <3>3
    <2>3. CASE "tell" \in listeners /\ status = "accepted" /\ owed = "client"
      BY <2>3 DEF OwedCovered
    <2>4. CASE \E x \in pushes : TellsOf(x, status) /\ Target(x) = owed
      BY <2>1, <2>4 DEF OwedCovered
    <2>. QED
      BY <2>2, <2>3, <2>4 DEF IInv, OwedCovered
  <1>8. UnreadCovered'
    BY UnreadSame DEF IInv, TypeOK
  <1>9. AloneOK'
    <2>. SUFFICES ASSUME alone' PROVE AloneOK'
      BY DEF AloneOK
    <2>1. w \in Movers
      BY <1>1 DEF Movers, Moving
    <2>2. Movers = {w} /\ s = status
      BY <1>1, <2>1 DEF IInv, AloneOK
    <2>3. Movers' = {}
      BY <1>1, <2>2 DEF Movers, Moved, Moving
    <2>4. UpToDate'
      <3>1. \A p \in Parties : last'[p] \in {"none", s} /\ status' = s
        BY <1>3, <2>2 DEF IInv, StillThere
      <3>. HIDE DEF AnnounceStatus, Emit
      <3>. QED
        BY <3>1 DEF UpToDate
    <2>5. listeners # {} => listeners \in {{"assign"}, {"tell"}} /\ status = "accepted"
      <3>1. Movers # {} /\ alone
        BY <2>1
      <3>2. listeners # {} => /\ listeners \in {{"assign"}, {"tell"}}
                              /\ \A v \in Movers : task[v].to = "accepted"
        BY <3>1 DEF IInv, AloneOK
      <3>. QED
        BY <2>1, <2>2, <3>2
    <2>. QED
      BY <2>3, <2>4, <2>5 DEF AloneOK
  <1>10. \A v \in Workers : TaskOK(v)'
    BY <1>1, TasksStay DEF TaskOK, Moved, Moving
  <1>11. PastOK'
    BY <1>1, PastStays DEF IInv, PastOK, Confirming, Moved
  <1>. QED
    BY <1>2, <1>4, <1>6, <1>7, <1>8, <1>9, <1>10, <1>11 DEF IInv

LEMMA TellAcceptedInv ==
  ASSUME IInv, TellAccepted
  PROVE  IInv'
  <1>. USE DEF TellAccepted, Emit, trip, bounds
  <1>. DEFINE x == [kind |-> "accepted", to |-> "client"]
  <1>1. TypeOK' /\ IsFiniteSet(pushes')
    <2>1. x \in Push
      BY DEF Push, Engaged, Parties
    <2>2. IsFiniteSet(pushes')
      BY PushesFinite
    <2>3. last' \in [Parties -> TripStatus \cup {"none"}]
      BY DEF IInv, TypeOK, TripStatus
    <2>. QED
      BY <2>1, <2>2, <2>3 DEF IInv, TypeOK
  <1>2. \A p \in Parties : /\ Hears(p)' <=> Hears(p)
                           /\ last'[p] \in {last[p], "accepted"}
                           /\ last'[p] # last[p] => Hears(p)
    BY HearsAudience DEF Hears, IInv
  <1>3. status # "pending"
    BY DEF IInv, Quiet
  <1>4. Quiet' /\ StillThere'
    BY <1>2, <1>3 DEF IInv, Quiet, StillThere
  <1>5. BehindCovered'
    <2>. SUFFICES ASSUME NEW p \in behind' PROVE Covered(p)'
      BY DEF BehindCovered
    <2>1. p \in Parties /\ Covered(p)
      BY DEF IInv, TypeOK, BehindCovered
    <2>2. p = "client" /\ status = "accepted" => ~Hears(p)
      BY <2>1, HearsAudience DEF IInv
    <2>. QED
      BY <1>2, <2>1, <2>2 DEF Covered, Announcing
  <1>6. OwedCovered'
    <2>1. \A y : Target(y)' = Target(y)
      BY DEF Target
    <2>2. x \in pushes' /\ Target(x)' = "client" /\ TellsOf(x, "accepted")
      BY DEF Target, TellsOf
    <2>. HIDE DEF x
    <2>. QED
      BY <2>1, <2>2 DEF IInv, OwedCovered, Announcing
  <1>7. UnreadCovered'
    BY UnreadSame DEF IInv, TypeOK
  <1>8. AloneOK'
    <2>. SUFFICES ASSUME alone' PROVE AloneOK'
      BY DEF AloneOK
    <2>1. Movers' = Movers
      BY DEF Movers
    <2>2. listeners = {"tell"} /\ status = "accepted"
      BY DEF IInv, AloneOK
    <2>3. UpToDate => UpToDate'
      BY <1>2, <2>2 DEF UpToDate
    <2>. QED
      BY <2>1, <2>2, <2>3 DEF IInv, AloneOK
  <1>9. \A v \in Workers : TaskOK(v)'
    BY TaskStays
  <1>10. PastOK'
    BY PastStays DEF IInv, PastOK, Confirming
  <1>. QED
    BY <1>1, <1>4, <1>5, <1>6, <1>7, <1>8, <1>9, <1>10 DEF IInv

LEMMA TellFailedInv ==
  ASSUME IInv, TellFailed
  PROVE  IInv'
  <1>. USE DEF TellFailed, Emit, trip, bounds
  <1>1. TypeOK' /\ IsFiniteSet(pushes')
    <2>1. last' \in [Parties -> TripStatus \cup {"none"}]
      BY DEF IInv, TypeOK, TripStatus
    <2>. QED
      BY <2>1 DEF IInv, TypeOK
  <1>2. \A p \in Parties : /\ Hears(p)' <=> Hears(p)
                           /\ last'[p] \in {last[p], "cancelled_auto"}
                           /\ last'[p] # last[p] => Hears(p)
    BY DEF Hears, InTripRoom
  <1>3. status # "pending"
    BY DEF IInv, Quiet
  <1>4. Quiet' /\ StillThere'
    BY <1>2, <1>3 DEF IInv, Quiet, StillThere
  <1>5. BehindCovered'
    <2>. SUFFICES ASSUME NEW p \in behind' PROVE Covered(p)'
      BY DEF BehindCovered
    <2>1. p \in Parties /\ Covered(p)
      BY DEF IInv, TypeOK, BehindCovered
    <2>2. status = "cancelled_auto" => "trip" \notin conn[p]
      BY <2>1 DEF InTripRoom
    <2>. QED
      BY <1>2, <2>1, <2>2 DEF Covered, Announcing
  <1>6. OwedCovered'
    <2>1. \A y : Target(y)' = Target(y)
      BY DEF Target
    <2>. QED
      BY <2>1 DEF IInv, OwedCovered, Announcing
  <1>7. UnreadCovered'
    BY UnreadSame DEF IInv, TypeOK
  <1>8. AloneOK'
    <2>. SUFFICES ASSUME alone' PROVE AloneOK'
      BY DEF AloneOK
    <2>1. Movers' = Movers
      BY DEF Movers
    <2>2. listeners = {"failTell"} /\ status = "cancelled_auto" /\ Movers = {}
      BY DEF IInv, AloneOK
    <2>3. UpToDate
      BY <2>2 DEF IInv, AloneOK
    <2>4. UpToDate'
      BY <1>2, <2>2, <2>3 DEF UpToDate
    <2>5. listeners' = {}
      BY <2>2
    <2>. QED
      BY <2>1, <2>2, <2>4, <2>5 DEF AloneOK
  <1>9. \A v \in Workers : TaskOK(v)'
    BY TaskStays
  <1>10. PastOK'
    BY PastStays DEF IInv, PastOK, Confirming
  <1>. QED
    BY <1>1, <1>4, <1>5, <1>6, <1>7, <1>8, <1>9, <1>10 DEF IInv

LEMMA TellStaleInv ==
  ASSUME IInv, TellStale
  PROVE  IInv'
  <1>. USE DEF TellStale, Emit, trip, bounds
  <1>1. TypeOK' /\ IsFiniteSet(pushes')
    <2>1. last' \in [Parties -> TripStatus \cup {"none"}]
      BY DEF IInv, TypeOK, TripStatus
    <2>. QED
      BY <2>1 DEF IInv, TypeOK
  <1>2. \A p \in Parties : /\ Hears(p)' <=> Hears(p)
                           /\ last'[p] \in {last[p], "cancelled_auto"}
                           /\ last'[p] # last[p] => Hears(p)
    BY DEF Hears, InTripRoom
  <1>3. status # "pending"
    BY DEF IInv, Quiet
  <1>4. Quiet' /\ StillThere'
    BY <1>2, <1>3 DEF IInv, Quiet, StillThere
  <1>5. BehindCovered'
    <2>. SUFFICES ASSUME NEW p \in behind' PROVE Covered(p)'
      BY DEF BehindCovered
    <2>1. p \in Parties /\ Covered(p)
      BY DEF IInv, TypeOK, BehindCovered
    <2>2. status = "cancelled_auto" => "trip" \notin conn[p]
      BY <2>1 DEF InTripRoom
    <2>. QED
      BY <1>2, <2>1, <2>2 DEF Covered, Announcing
  <1>6. OwedCovered'
    <2>1. \A y : Target(y)' = Target(y)
      BY DEF Target
    <2>. QED
      BY <2>1 DEF IInv, OwedCovered, Announcing
  <1>7. UnreadCovered'
    BY UnreadSame DEF IInv, TypeOK
  <1>8. AloneOK'
    <2>. SUFFICES ASSUME alone' PROVE AloneOK'
      BY DEF AloneOK
    <2>1. Movers' = Movers
      BY DEF Movers
    <2>2. listeners = {"staleTell"} /\ status = "cancelled_auto" /\ Movers = {}
      BY DEF IInv, AloneOK
    <2>3. UpToDate
      BY <2>2 DEF IInv, AloneOK
    <2>4. UpToDate'
      BY <1>2, <2>2, <2>3 DEF UpToDate, InTripRoom
    <2>5. listeners' = {}
      BY <2>2
    <2>. QED
      BY <2>1, <2>2, <2>4, <2>5 DEF AloneOK
  <1>9. \A v \in Workers : TaskOK(v)'
    BY TaskStays
  <1>10. PastOK'
    BY PastStays DEF IInv, PastOK, Confirming
  <1>. QED
    BY <1>1, <1>4, <1>5, <1>6, <1>7, <1>8, <1>9, <1>10 DEF IInv

------------------------------------------------------------------------------
(***************************************************************************)
(* Failures.                                                               *)
(***************************************************************************)
\* Nothing has to be told; whatever is left was there before.
LEMMA ForgottenInv ==
  ASSUME IInv, UNCHANGED <<trip, been, moves, asides>>, faults' \in 0..MaxFaults,
         behind' = {}, outside' \subseteq outside,
         owed' = "none", unread' = {}, alone' = FALSE,
         \A v \in Workers : task'[v] \in {task[v], Idle}, task' \in [Workers -> Task],
         listeners' \subseteq listeners, pushes' \subseteq pushes,
         conn' \in [Parties -> SUBSET {"own", "trip"}],
         last' \in [Parties -> TripStatus \cup {"none"}],
         \A p \in Parties : last'[p] = "none" \/ (last'[p] = last[p] /\ conn'[p] = conn[p])
  PROVE  IInv'
  <1>. USE DEF trip
  <1>1. IsFiniteSet(pushes') /\ Cardinality(pushes') <= MaxPushes
    <2>1. IsFiniteSet(pushes) /\ Cardinality(pushes) <= MaxPushes
      BY DEF IInv, TypeOK
    <2>2. IsFiniteSet(pushes') /\ Cardinality(pushes') <= Cardinality(pushes)
      BY <2>1, FS_Subset
    <2>3. Cardinality(pushes) \in Nat /\ Cardinality(pushes') \in Nat
      BY <2>1, <2>2, FS_CardinalityType
    <2>. QED
      BY <2>1, <2>2, <2>3, Assumed
  <1>2. TypeOK'
    BY <1>1 DEF IInv, TypeOK
  <1>3. Quiet' /\ StillThere'
    BY DEF IInv, Quiet, StillThere, Hears
  <1>4. BehindCovered' /\ OwedCovered' /\ UnreadCovered' /\ AloneOK'
    BY DEF BehindCovered, OwedCovered, UnreadCovered, AloneOK
  <1>5. \A v \in Workers : TaskOK(v)'
    BY TasksMade DEF IInv, TaskOK, Moving
  <1>6. PastOK'
    <2>1. Confirming' \subseteq Confirming
      BY TasksMade DEF Confirming
    <2>. QED
      BY <2>1, PastStays DEF IInv, PastOK
  <1>. QED
    BY <1>1, <1>2, <1>3, <1>4, <1>5, <1>6 DEF IInv

LEMMA FaultInv ==
  ASSUME IInv, Fail \/ Crash
  PROVE  IInv'
  <1>1. faults' \in 0..MaxFaults
    BY Assumed DEF Fail, Crash, Faulty, IInv, TypeOK
  <1>2. CASE Fail
    <2>1. task' \in [Workers -> Task] /\ \A v \in Workers : task'[v] \in {task[v], Idle}
      <3>1. CASE UNCHANGED task
        BY <3>1 DEF IInv, TypeOK
      <3>2. CASE \E w \in Workers : Ends(w)
        BY <3>2, EndsMoves DEF IInv, Moved
      <3>. QED
        BY <1>2, <3>1, <3>2 DEF Fail
    <2>2. listeners' \subseteq listeners /\ pushes' \subseteq pushes
      BY <1>2 DEF Fail
    <2>. QED
      BY <1>1, <1>2, <2>1, <2>2, ForgottenInv DEF Fail, Forgiven, IInv, TypeOK
  <1>3. CASE Crash
    <2>1. task' \in [Workers -> Task] /\ \A v \in Workers : task'[v] \in {task[v], Idle}
      BY <1>3, TasksMade DEF Crash
    <2>. QED
      BY <1>1, <1>3, <2>1, ForgottenInv DEF Crash
  <1>. QED
    BY <1>2, <1>3

------------------------------------------------------------------------------
(***************************************************************************)
(* The theorems.                                                           *)
(***************************************************************************)
LEMMA InitInv == Init => IInv
  <1>. SUFFICES ASSUME Init PROVE IInv
    OBVIOUS
  <1>. USE DEF Init
  <1>1. IsFiniteSet(pushes) /\ Cardinality(pushes) = 0
    BY FS_EmptySet
  <1>2. \A w \in Workers : task[w] \in Task /\ task[w].pc = "idle"
    BY TasksMade
  <1>3. TypeOK
    <2>1. status \in TripStatus /\ driven \in BOOLEAN /\ status \notin Engaged
      BY DEF TripStatus, Engaged
    <2>2. task \in [Workers -> Task] /\ last \in [Parties -> TripStatus \cup {"none"}]
      BY TasksMade
    <2>3. confirmed \in Nat /\ Cardinality(pushes) <= MaxPushes
      BY <1>1, Assumed
    <2>. QED
      BY <2>1, <2>2, <2>3 DEF TypeOK
  <1>4. Quiet /\ StillThere /\ BehindCovered /\ OwedCovered /\ UnreadCovered /\ AloneOK
    BY DEF Quiet, StillThere, BehindCovered, OwedCovered, UnreadCovered, AloneOK
  <1>5. \A w \in Workers : TaskOK(w)
    BY <1>2 DEF TaskOK, Moving
  <1>6. PastOK
    <2>1. Confirming = {}
      BY <1>2 DEF Confirming
    <2>. QED
      BY <2>1, FS_EmptySet, Assumed DEF PastOK
  <1>. QED
    BY <1>1, <1>3, <1>4, <1>5, <1>6 DEF IInv

LEMMA CallInv ==
  ASSUME IInv, NEW w \in Workers, Call(w)
  PROVE  IInv'
  <1>1. ASSUME NEW u \in Parties, NEW s \in TripStatus, UpdateStatus(w, u, s)
        PROVE  IInv'
    BY <1>1, BeginsInv DEF UpdateStatus
  <1>2. ASSUME NEW u \in Parties, RateTrip(w, u)
        PROVE  IInv'
    BY <1>2, StartsInv DEF RateTrip
  <1>3. ASSUME NEW u \in Parties, SendMessage(w, u)
        PROVE  IInv'
    BY <1>3, StartsInv DEF SendMessage
  <1>4. ASSUME Accept(w)
        PROVE  IInv'
    <2>1. "driver" \in Parties /\ MayMove("driver", "accepted")
      BY DEF Parties, MayMove, Engaged
    <2>. QED
      BY <1>4, <2>1, BeginsInv DEF Accept
  <1>5. ASSUME ConfirmDelivery(w)
        PROVE  IInv'
    BY <1>5, StartsInv DEF ConfirmDelivery, Confirmable, Parties
  <1>6. ASSUME ConfirmPaymentReceived(w)
        PROVE  IInv'
    BY <1>6, StartsInv DEF ConfirmPaymentReceived, Payable, Parties
  <1>7. CompleteTrip(w) => UpdateStatus(w, "driver", "completed")
    BY DEF CompleteTrip
  <1>. QED
    BY <1>1, <1>2, <1>3, <1>4, <1>5, <1>6, <1>7 DEF Call, Parties, TripStatus

LEMMA NextKept == IInv /\ [Next]_vars => IInv'
  <1>. SUFFICES ASSUME IInv, [Next]_vars PROVE IInv'
    OBVIOUS
  <1>1. ASSUME NEW w \in Workers, Step(w)
        PROVE  IInv'
    BY <1>1, WriteStatusInv, AnnounceStatusInv, WriteConfirmedInv, MarkPaymentReceivedInv,
       RatingInv, CreateMessageInv DEF Step
  <1>2. CASE Listen
    BY <1>2, AssignDriverInv, TellAcceptedInv, UpdateStatusIfPendingInv, TellFailedInv,
       CancelStaleInv, TellStaleInv, SendToUserInv DEF Listen
  <1>3. CASE UNCHANGED vars
    <2>1. Steady /\ UNCHANGED <<trip, conn, task, listeners, pushes, bounds, news>>
      BY <1>3 DEF vars, trip, news, Steady, Announcing
    <2>. USE <2>1 DEF trip, bounds, news
    <2>2. TypeOK' /\ IsFiniteSet(pushes')
      BY DEF IInv, TypeOK
    <2>3. AloneOK'
      BY AloneSame
    <2>4. UnreadCovered'
      BY UnreadSame DEF IInv, TypeOK
    <2>5. \A v \in Workers : TaskOK(v)'
      BY TaskStays
    <2>6. PastOK'
      BY PastStays DEF IInv, PastOK, Confirming
    <2>. QED
      BY <2>2, <2>3, <2>4, <2>5, <2>6, SteadyKept DEF IInv
  <1>. QED
    BY <1>1, <1>2, <1>3, CallInv, DispatchFailedInv, FindStaleInv, SocketInv, FaultInv DEF Next

\* Whatever the clients, the drivers, the sockets and the faults do, who has to
\* be told of a status or a message is covered (trips.service.ts, 206-338 and
\* notification.handler.ts, 52-145).
THEOREM Invariance == Spec => []IInv
  <1>. QED
    BY InitInv, NextKept, PTL DEF Spec

\* Every variable keeps its type, and an engaged trip has its driver
\* (trips.service.ts, 208-216).
THEOREM TypeCorrect == Spec => []TypeOK
  <1>1. IInv => TypeOK
    BY DEF IInv
  <1>. QED
    BY <1>1, Invariance, PTL

\* Once no handler is left that tells of a status, everybody who was connected
\* when it changed heard of it (trips.service.ts, 289-296 and 393-400).
THEOREM EverybodyHears == Spec => []WordGetsRound
  <1>1. IInv => WordGetsRound
    BY DEF IInv, BehindCovered, Covered, Announcing, WordGetsRound, Telling, Moving
  <1>. QED
    BY <1>1, Invariance, PTL

\* And the other party got its push, once none is on its way
\* (trips.service.ts, 307-338, and notification.handler.ts, 52-108).
THEOREM PushesArrive == Spec => []TheOtherIsPushed
  <1>1. IInv => TheOtherIsPushed
    BY DEF IInv, OwedCovered, Announcing, TheOtherIsPushed, Telling, Moving
  <1>. QED
    BY <1>1, Invariance, PTL

\* A change that overlapped no other leaves nobody with old news
\* (trips.service.ts, 208-216).
THEOREM OldNewsNeedsTwo == Spec => []LastNewsIsTrue
  <1>1. IInv => LastNewsIsTrue
    BY DEF IInv, AloneOK, LastNewsIsTrue, Telling, Movers, UpToDate
  <1>. QED
    BY <1>1, Invariance, PTL

\* A message is pushed to the one who did not write it
\* (notification.handler.ts, 130-145).
THEOREM MessagesArrive == Spec => []MessagesArePushed
  <1>1. IInv => MessagesArePushed
    BY DEF IInv, UnreadCovered, MessagesArePushed
  <1>. QED
    BY <1>1, Invariance, PTL

\* Payments, confirmations and ratings come after what they are about, and no
\* more calls confirm a delivery than the process serves at once
\* (trips.service.ts, 456-460, 520-527 and 558-563).
THEOREM PastIsPast == Spec => []AfterTheFact
  <1>1. IInv => AfterTheFact
    BY ConfirmingFinite, Assumed DEF IInv, PastOK, TypeOK, AfterTheFact
  <1>. QED
    BY <1>1, Invariance, PTL

==============================================================================
