-------------------------- MODULE AuthSessionsProofs --------------------------
(***************************************************************************)
(* AuthSessions, for any number of requests at a time, codes, seconds and  *)
(* failures: IInv is inductive, a spent token is spent for good, and a     *)
(* code is compared with a bounded number of wrong answers.                *)
(***************************************************************************)
EXTENDS AuthSessions, Induction

\* The lock of a code goes with its attempts: a request that reads the one as
\* absent read the other below the limit.
LocksFollow == \A c \in Codes : code[c].locked <=> code[c].attempts >= MaxAttempts

\* What a handler carries from one statement to the next.
TaskOK(w) ==
    /\ task[w].pc \in {"send", "undo", "count", "consume"} => task[w].code \in Codes
    /\ task[w].pc = "count" => task[w].tried < MaxAttempts
    /\ task[w].pc \in {"revoke", "link"} => task[w].old \in Tokens
    /\ task[w].pc \in {"store", "link"} => task[w].new \in Tokens
    /\ task[w].pc = "link" => parent[task[w].new] = task[w].old

\* A second without a token has no parent.
ParentOfIssued == \A k \in Tokens : token[k] = "none" => parent[k] = NoToken

IInv ==
    /\ TypeOK /\ LocksFollow /\ NoPenalty
    /\ \A w \in Workers : TaskOK(w)
    /\ ParentOfIssued /\ ExchangeLeavesHeir /\ LinksFollowExchanges

SpentStep ==
    \A k \in Tokens : Spent(k) =>
        /\ Spent(k)' /\ token'[k] = token[k]
        /\ \A j \in Tokens : parent'[j] = k => parent[j] = k

\* What every step does.
CodesKept == LocksFollow' /\ NoPenalty'
TokensKept == ParentOfIssued' /\ ExchangeLeavesHeir' /\ LinksFollowExchanges' /\ SpentStep
Kept == IInv' /\ SpentStep

\* Worker w goes on to task k, and the others keep theirs.
Moved(w, k) ==
    /\ task' \in [Workers -> Task]
    /\ task'[w] = k
    /\ \A v \in Workers \ {w} : task'[v] = task[v]

------------------------------------------------------------------------------
LEMMA Bounds ==
  /\ MaxAttempts \in Nat /\ MaxAttempts > 0
  /\ MaxCodes \in Nat /\ MaxSecond \in Nat /\ MaxFaults \in Nat
  /\ NoToken \notin Tokens
  BY ConstantAssumption DEF Tokens

LEMMA IdleTask ==
  /\ Idle \in Task /\ Idle.pc = "idle" /\ Idle.old = NoToken
  BY Bounds DEF Idle, OfCode, Task

Places == {"idle", "create", "send", "undo", "count", "consume", "login", "signUp",
           "revoke", "issue", "store", "link"}

LEMMA CodeTask ==
  ASSUME NEW pc \in Places, NEW c \in Codes \cup {0}, NEW tried \in 0..MaxAttempts
  PROVE  /\ OfCode(pc, c, tried) \in Task
         /\ OfCode(pc, c, tried).pc = pc /\ OfCode(pc, c, tried).code = c
         /\ OfCode(pc, c, tried).tried = tried /\ OfCode(pc, c, tried).old = NoToken
  BY DEF OfCode, Task, Places

LEMMA TokenTask ==
  ASSUME NEW pc \in Places, NEW old \in Tokens \cup {NoToken},
         NEW new \in Tokens \cup {NoToken}
  PROVE  /\ OfToken(pc, old, new) \in Task
         /\ OfToken(pc, old, new).pc = pc
         /\ OfToken(pc, old, new).old = old /\ OfToken(pc, old, new).new = new
  BY Bounds DEF OfToken, Task, Places

LEMMA GoesMoves ==
  ASSUME TypeOK, NEW w \in Workers, NEW k \in Task, Goes(w, k)
  PROVE  Moved(w, k)
  BY DEF Goes, Moved, TypeOK

\* A task has the fields of one.
LEMMA TaskFields ==
  ASSUME TypeOK, NEW w \in Workers
  PROVE  /\ task[w].pc \in Places /\ task[w].code \in Codes \cup {0}
         /\ task[w].tried \in 0..MaxAttempts
         /\ task[w].old \in Tokens \cup {NoToken}
         /\ task[w].new \in Tokens \cup {NoToken}
  BY DEF TypeOK, Task, Places

------------------------------------------------------------------------------
\* Steps that leave the codes alone, of a handler that was not sending one.
LEMMA CodesQuiet ==
  ASSUME IInv, NEW w \in Workers, NEW k, Moved(w, k),
         task[w].pc \notin {"send", "undo"}, code' = code, faults' = faults
  PROVE  CodesKept
  BY DEF IInv, CodesKept, LocksFollow, NoPenalty, Moved, Existing

\* Steps that leave the tokens alone, of a handler that was exchanging none.
LEMMA TokensQuiet ==
  ASSUME IInv, NEW w \in Workers, NEW k, Moved(w, k),
         task[w].pc \notin {"issue", "store"} \/ task[w].old = NoToken,
         k.old = NoToken, UNCHANGED tokenVars
  PROVE  TokensKept
  <1>1. ParentOfIssued' /\ LinksFollowExchanges'
    BY DEF IInv, ParentOfIssued, LinksFollowExchanges, tokenVars
  <1>2. ExchangeLeavesHeir'
    BY Bounds DEF IInv, ExchangeLeavesHeir, Moved, tokenVars
  <1>3. SpentStep
    BY Bounds DEF SpentStep, Spent, Moved, tokenVars
  <1>. QED
    BY <1>1, <1>2, <1>3 DEF TokensKept

\* The handlers that do not step keep their facts with the parents.
LEMMA OthersOK ==
  ASSUME IInv, NEW w \in Workers, NEW k, Moved(w, k), TaskOK(w)',
         \A j \in Tokens : token[j] # "none" => parent'[j] = parent[j]
  PROVE  \A v \in Workers : TaskOK(v)'
  <1>1. ASSUME NEW v \in Workers \ {w} PROVE TaskOK(v)'
    <2>1. TaskOK(v) /\ task'[v] = task[v]
      BY DEF IInv, Moved
    <2>2. task[v].pc = "link" => token[task[v].new] # "none"
      BY <2>1, Bounds DEF TaskOK, IInv, ParentOfIssued
    <2>. QED
      BY <2>1, <2>2 DEF TaskOK
  <1>. QED
    BY <1>1

\* A step of a handler of codes that leaves the codes and the tokens alone.
LEMMA QuietKept ==
  ASSUME IInv, NEW w \in Workers, NEW k \in Task, Goes(w, k), TaskOK(w)',
         task[w].pc \notin {"send", "undo"},
         task[w].pc \notin {"issue", "store"} \/ task[w].old = NoToken,
         k.old = NoToken,
         user' \in {"none", "active", "inactive"},
         wrong' \in [Codes -> Nat],
         UNCHANGED <<now, made, code, tokenVars, faults>>
  PROVE  Kept
  <1>1. Moved(w, k)
    BY GoesMoves DEF IInv
  <1>2. CodesKept /\ TokensKept /\ \A v \in Workers : TaskOK(v)'
    BY <1>1, CodesQuiet, TokensQuiet, OthersOK DEF tokenVars
  <1>3. TypeOK'
    BY <1>1 DEF IInv, TypeOK, Moved, tokenVars
  <1>. QED
    BY <1>2, <1>3 DEF Kept, IInv, CodesKept, TokensKept

------------------------------------------------------------------------------
(***************************************************************************)
(* The codes.                                                              *)
(***************************************************************************)
LEMMA RequestOtpKept ==
  ASSUME IInv, NEW w \in Workers, RequestOtp(w) PROVE Kept
  <1>1. OfCode("create", 0, 0) \in Task /\ Goes(w, OfCode("create", 0, 0))
    BY CodeTask, Bounds DEF RequestOtp, Starts, Places
  <1>2. TaskOK(w)' /\ task[w].pc = "idle"
    BY <1>1, GoesMoves, IdleTask DEF RequestOtp, Starts, IInv, Moved, OfCode, TaskOK
  <1>. QED
    BY <1>1, <1>2, QuietKept DEF RequestOtp, OfCode, otpVars, IInv, TypeOK

LEMMA VerifyOtpKept ==
  ASSUME IInv, NEW w \in Workers, VerifyOtp(w) PROVE Kept
  <1>1. PICK c \in Latest({d \in Existing : ~code[d].consumed}) :
           /\ ~code[c].locked
           /\ \/ Starts(w, OfCode("consume", c, 0)) /\ UNCHANGED wrong
              \/ /\ Starts(w, OfCode("count", c, code[c].attempts))
                 /\ wrong' = [wrong EXCEPT ![c] = @ + 1]
           /\ UNCHANGED <<now, user, made, code, tokenVars, faults>>
    BY DEF VerifyOtp
  <1>2. /\ c \in Codes /\ code[c].attempts \in 0..MaxAttempts
        /\ code[c].attempts < MaxAttempts
    BY <1>1, Bounds DEF Latest, Existing, IInv, LocksFollow, TypeOK, Code
  <1>3. ASSUME NEW pc \in {"consume", "count"}, NEW n \in 0..MaxAttempts,
               n < MaxAttempts, Starts(w, OfCode(pc, c, n))
        PROVE  Kept
    <2>1. OfCode(pc, c, n) \in Task /\ Goes(w, OfCode(pc, c, n))
      BY <1>2, <1>3, CodeTask DEF Starts, Places
    <2>2. TaskOK(w)' /\ task[w].pc = "idle"
      BY <2>1, <1>2, <1>3, GoesMoves, IdleTask DEF Starts, IInv, Moved, OfCode, TaskOK
    <2>3. wrong' \in [Codes -> Nat]
      BY <1>1 DEF IInv, TypeOK
    <2>. QED
      BY <1>1, <2>1, <2>2, <2>3, QuietKept DEF OfCode, IInv, TypeOK
  <1>. QED
    BY <1>1, <1>2, <1>3, Bounds

LEMMA VerifiedByJulakaiKept ==
  ASSUME IInv, NEW w \in Workers, VerifiedByJulakai(w) PROVE Kept
  <1>1. OfToken("login", NoToken, NoToken) \in Task
        /\ Goes(w, OfToken("login", NoToken, NoToken))
    BY TokenTask DEF VerifiedByJulakai, Starts, Places
  <1>2. TaskOK(w)' /\ task[w].pc = "idle"
    BY <1>1, GoesMoves, IdleTask
    DEF VerifiedByJulakai, Starts, IInv, Moved, OfToken, TaskOK
  <1>. QED
    BY <1>1, <1>2, QuietKept DEF VerifiedByJulakai, OfToken, otpVars, IInv, TypeOK

LEMMA AdminLoginKept ==
  ASSUME IInv, NEW w \in Workers, AdminLogin(w) PROVE Kept
  <1>1. OfToken("issue", NoToken, NoToken) \in Task
        /\ Goes(w, OfToken("issue", NoToken, NoToken))
    BY TokenTask DEF AdminLogin, Starts, Places
  <1>2. TaskOK(w)' /\ task[w].pc = "idle"
    BY <1>1, GoesMoves, IdleTask DEF AdminLogin, Starts, IInv, Moved, OfToken, TaskOK
  <1>. QED
    BY <1>1, <1>2, QuietKept DEF AdminLogin, OfToken, otpVars, IInv, TypeOK

LEMMA FindUserKept ==
  ASSUME IInv, NEW w \in Workers, FindUser(w) PROVE Kept
  <1>1. Admitted \in {"signUp", "issue", "idle"}
    BY DEF Admitted, IInv, TypeOK
  <1>2. OfToken(Admitted, NoToken, NoToken) \in Task
        /\ Goes(w, OfToken(Admitted, NoToken, NoToken))
    BY <1>1, TokenTask DEF FindUser, Places
  <1>3. TaskOK(w)'
    BY <1>1, <1>2, GoesMoves DEF IInv, Moved, OfToken, TaskOK
  <1>. QED
    BY <1>2, <1>3, QuietKept DEF FindUser, OfToken, otpVars, IInv, TypeOK

LEMMA CreateUserKept ==
  ASSUME IInv, NEW w \in Workers, CreateUser(w) PROVE Kept
  <1>1. PICK k \in {OfToken("issue", NoToken, NoToken), Idle} :
           Goes(w, k) /\ user' \in {"none", "active", "inactive"}
    BY DEF CreateUser, IInv, TypeOK
  <1>2. k \in Task /\ k.pc \in {"issue", "idle"} /\ k.old = NoToken
    BY TokenTask, IdleTask DEF Places
  <1>3. TaskOK(w)'
    BY <1>1, <1>2, GoesMoves DEF IInv, Moved, TaskOK
  <1>. QED
    BY <1>1, <1>2, <1>3, QuietKept DEF CreateUser, otpVars, IInv, TypeOK

\* A handler of codes that writes them, and has no token.
LEMMA CodesWritten ==
  ASSUME IInv, NEW w \in Workers, NEW k \in Task, Goes(w, k), TaskOK(w)',
         task[w].pc \in {"create", "send", "undo", "count", "consume"},
         k.old = NoToken, made' \in 0..MaxCodes, code' \in [Codes -> Code],
         CodesKept, UNCHANGED <<now, user, wrong, tokenVars, faults>>
  PROVE  Kept
  <1>1. Moved(w, k)
    BY GoesMoves DEF IInv
  <1>2. TokensKept /\ \A v \in Workers : TaskOK(v)'
    BY <1>1, TokensQuiet, OthersOK DEF tokenVars
  <1>3. TypeOK'
    BY <1>1 DEF IInv, TypeOK, Moved, tokenVars
  <1>. QED
    BY <1>2, <1>3 DEF Kept, IInv, CodesKept, TokensKept

LEMMA CreateCodeKept ==
  ASSUME IInv, NEW w \in Workers, CreateCode(w) PROVE Kept
  <1> DEFINE k == OfCode("send", made + 1, 0)
  <1>1. made + 1 \in Codes /\ made' = made + 1
    BY Bounds DEF CreateCode, IInv, TypeOK, Codes
  <1>2. k \in Task /\ Goes(w, k)
    BY <1>1, CodeTask, Bounds DEF CreateCode, Places
  <1>3. Moved(w, k) /\ TaskOK(w)'
    BY <1>1, <1>2, GoesMoves DEF IInv, Moved, OfCode, TaskOK
  <1>4. NewCode \in Code /\ code' = [code EXCEPT ![made + 1] = NewCode]
    BY Bounds DEF CreateCode, NewCode, Code
  <1>5. LocksFollow'
    BY <1>1, <1>4, Bounds DEF IInv, TypeOK, LocksFollow, NewCode
  <1>6. NoPenalty'
    <2>1. ASSUME NEW c \in Existing', ~(code[c].sent \/ faults > 0)'
          PROVE  \E v \in Workers : task'[v].code = c /\ task'[v].pc \in {"send", "undo"}
      <3>1. CASE c = made + 1
        BY <1>3, <3>1 DEF Moved, OfCode
      <3>2. CASE c # made + 1
        <4>1. c \in Existing /\ code'[c] = code[c] /\ faults' = faults
          BY <1>4, <3>2 DEF Existing, IInv, TypeOK, CreateCode
        <4>2. PICK v \in Workers : task[v].code = c /\ task[v].pc \in {"send", "undo"}
          BY <2>1, <4>1 DEF IInv, NoPenalty
        <4>. QED
          BY <1>3, <4>2 DEF Moved, CreateCode
      <3>. QED
        BY <3>1, <3>2
    <2>. QED
      BY <2>1 DEF NoPenalty
  <1>7. code' \in [Codes -> Code] /\ made' \in 0..MaxCodes
    BY <1>1, <1>4, Bounds DEF IInv, TypeOK, Codes
  <1>. QED
    BY <1>2, <1>3, <1>5, <1>6, <1>7, CodesWritten DEF CreateCode, OfCode, CodesKept

\* A code is excused by a handler that is still at it, or by what it says itself.
LEMMA PenaltyKept ==
  ASSUME IInv, NEW w \in Workers, NEW k, Moved(w, k), UNCHANGED faults,
         \A c \in Codes : code'[c].exists =>
             /\ code[c].exists
             /\ code[c].sent => code'[c].sent
             /\ c = task[w].code =>
                    \/ task[w].pc \notin {"send", "undo"} \/ code'[c].sent
                    \/ k.code = c /\ k.pc \in {"send", "undo"}
  PROVE  NoPenalty'
  <1>1. ASSUME NEW c \in Existing', ~(code[c].sent \/ faults > 0)'
        PROVE  \E v \in Workers : task'[v].code = c /\ task'[v].pc \in {"send", "undo"}
    <2>1. c \in Codes /\ c \in Existing /\ ~code[c].sent /\ ~(faults > 0)
      BY <1>1 DEF Existing
    <2>2. PICK v \in Workers : task[v].code = c /\ task[v].pc \in {"send", "undo"}
      BY <2>1 DEF IInv, NoPenalty
    <2>3. CASE v = w
      BY <1>1, <2>1, <2>2, <2>3 DEF Moved, Existing
    <2>4. CASE v # w
      BY <2>2, <2>4 DEF Moved
    <2>. QED
      BY <2>3, <2>4
  <1>. QED
    BY <1>1 DEF NoPenalty

LEMMA SendSmsKept ==
  ASSUME IInv, NEW w \in Workers, SendSms(w) PROVE Kept
  <1>1. task[w].code \in Codes /\ task[w].pc = "send"
    BY DEF SendSms, IInv, TaskOK
  <1>2. CASE Goes(w, Idle) /\ code' = [code EXCEPT ![task[w].code].sent = TRUE]
    <2>1. Moved(w, Idle) /\ TaskOK(w)'
      BY <1>2, GoesMoves, IdleTask DEF IInv, Moved, TaskOK
    <2> DEFINE x == [code[task[w].code] EXCEPT !.sent = TRUE]
    <2>2. /\ code' \in [Codes -> Code] /\ code'[task[w].code].sent
          /\ \A c \in Codes :
                 /\ code'[c].exists = code[c].exists /\ code'[c].locked = code[c].locked
                 /\ code'[c].attempts = code[c].attempts
                 /\ code[c].sent => code'[c].sent
      <3>1. code[task[w].code] \in Code /\ code \in [Codes -> Code]
        BY <1>1 DEF IInv, TypeOK
      <3>2. code' = [code EXCEPT ![task[w].code] = x]
        BY <1>2
      <3>3. /\ x \in Code /\ x.sent /\ x.exists = code[task[w].code].exists
            /\ x.locked = code[task[w].code].locked
            /\ x.attempts = code[task[w].code].attempts
        BY <3>1 DEF Code
      <3>. HIDE DEF x
      <3>. QED
        BY <1>1, <3>1, <3>2, <3>3
    <2>3. NoPenalty'
      BY <2>1, <2>2, PenaltyKept, IdleTask DEF SendSms
    <2>4. LocksFollow'
      BY <2>2 DEF IInv, LocksFollow
    <2>. QED
      BY <1>1, <1>2, <2>1, <2>2, <2>3, <2>4, IdleTask, CodesWritten
      DEF SendSms, CodesKept, IInv, TypeOK
  <1>3. CASE Goes(w, OfCode("undo", task[w].code, 0)) /\ UNCHANGED code
    <2> DEFINE k == OfCode("undo", task[w].code, 0)
    <2>1. k \in Task /\ k.pc = "undo" /\ k.code = task[w].code /\ k.old = NoToken
      BY <1>1, CodeTask, Bounds DEF Places
    <2>2. Moved(w, k) /\ TaskOK(w)'
      BY <1>1, <1>3, <2>1, GoesMoves DEF IInv, Moved, TaskOK
    <2>3. NoPenalty'
      BY <1>3, <2>1, <2>2, PenaltyKept DEF SendSms
    <2>4. LocksFollow'
      BY <1>3 DEF IInv, LocksFollow
    <2>. QED
      BY <1>1, <1>3, <2>1, <2>2, <2>3, <2>4, CodesWritten
      DEF SendSms, CodesKept, IInv, TypeOK
  <1>. QED
    BY <1>2, <1>3 DEF SendSms

LEMMA UndoCodeKept ==
  ASSUME IInv, NEW w \in Workers, UndoCode(w) PROVE Kept
  <1>1. task[w].code \in Codes /\ task[w].pc = "undo" /\ Goes(w, Idle)
    BY DEF UndoCode, IInv, TaskOK
  <1>2. Moved(w, Idle) /\ TaskOK(w)'
    BY <1>1, GoesMoves, IdleTask DEF IInv, Moved, TaskOK
  <1> DEFINE x == [code[task[w].code] EXCEPT !.exists = FALSE]
  <1>3. /\ code' \in [Codes -> Code] /\ ~code'[task[w].code].exists
        /\ \A c \in Codes :
               /\ code'[c].exists => code[c].exists
               /\ code'[c].locked = code[c].locked
               /\ code'[c].attempts = code[c].attempts
               /\ code'[c].sent = code[c].sent
    <2>1. code[task[w].code] \in Code /\ code \in [Codes -> Code]
      BY <1>1 DEF IInv, TypeOK
    <2>2. code' = [code EXCEPT ![task[w].code] = x]
      BY DEF UndoCode, Deleted
    <2>3. /\ x \in Code /\ ~x.exists /\ x.sent = code[task[w].code].sent
          /\ x.locked = code[task[w].code].locked
          /\ x.attempts = code[task[w].code].attempts
      BY <2>1 DEF Code
    <2>. HIDE DEF x
    <2>. QED
      BY <1>1, <2>1, <2>2, <2>3
  <1>4. NoPenalty'
    BY <1>2, <1>3, PenaltyKept DEF UndoCode
  <1>5. LocksFollow'
    BY <1>3 DEF IInv, LocksFollow
  <1>. QED
    BY <1>1, <1>2, <1>3, <1>4, <1>5, IdleTask, CodesWritten
    DEF UndoCode, CodesKept, IInv, TypeOK

\* What was read was below the limit, so that what is written is not above it.
LEMMA CountFailureKept ==
  ASSUME IInv, NEW w \in Workers, CountFailure(w) PROVE Kept
  <1> DEFINE c == task[w].code
             attempts == task[w].tried + 1
  <1>1. c \in Codes /\ task[w].pc = "count" /\ Goes(w, Idle)
    BY DEF CountFailure, IInv, TaskOK
  <1>2. attempts \in 0..MaxAttempts
    BY <1>1, Bounds, TaskFields DEF IInv, TaskOK
  <1>3. Moved(w, Idle) /\ TaskOK(w)'
    BY <1>1, GoesMoves, IdleTask DEF IInv, Moved, TaskOK
  <1>4. code[c] \in Code
    BY <1>1 DEF IInv, TypeOK
  <1> DEFINE counted == [code[c] EXCEPT !.attempts = attempts,
                                        !.locked = ShouldLock(attempts)]
  <1>5. CASE code' = code
    <2>1. NoPenalty'
      BY <1>1, <1>3, <1>5, PenaltyKept DEF CountFailure
    <2>. QED
      BY <1>1, <1>3, <1>5, <2>1, IdleTask, CodesWritten
      DEF CountFailure, CodesKept, IInv, TypeOK, LocksFollow
  <1>6. CASE code' = [code EXCEPT ![c] = counted]
    <2>1. /\ code'[c].exists = code[c].exists /\ code'[c].sent = code[c].sent
          /\ code'[c].attempts = attempts /\ code'[c].locked = ShouldLock(attempts)
          /\ \A d \in Codes \ {c} : code'[d] = code[d]
          /\ code' \in [Codes -> Code]
      <3>1. code \in [Codes -> Code] /\ ShouldLock(attempts) \in BOOLEAN
        BY DEF IInv, TypeOK, ShouldLock
      <3>2. /\ counted \in Code /\ counted.exists = code[c].exists
            /\ counted.sent = code[c].sent /\ counted.attempts = attempts
            /\ counted.locked = ShouldLock(attempts)
        <4> DEFINE x == [code[c] EXCEPT !.attempts = attempts]
        <4>1. /\ x \in Code /\ x.exists = code[c].exists /\ x.sent = code[c].sent
              /\ x.attempts = attempts
          BY <1>2, <1>4 DEF Code
        <4>2. counted = [x EXCEPT !.locked = ShouldLock(attempts)]
          OBVIOUS
        <4>. HIDE DEF x, counted
        <4>. QED
          BY <3>1, <4>1, <4>2 DEF Code
      <3>. HIDE DEF counted
      <3>. QED
        BY <1>1, <1>6, <3>1, <3>2
    <2>2. NoPenalty'
      BY <1>1, <1>3, <2>1, PenaltyKept DEF CountFailure
    <2>3. LocksFollow'
      BY <1>1, <1>2, <2>1 DEF IInv, LocksFollow, ShouldLock
    <2>. QED
      BY <1>1, <1>3, <2>1, <2>2, <2>3, IdleTask, CodesWritten
      DEF CountFailure, CodesKept, IInv, TypeOK
  <1>. QED
    BY <1>5, <1>6 DEF CountFailure

LEMMA ConsumeCodeKept ==
  ASSUME IInv, NEW w \in Workers, ConsumeCode(w) PROVE Kept
  <1> DEFINE c == task[w].code
             x == [code[c] EXCEPT !.consumed = TRUE]
  <1>1. c \in Codes /\ task[w].pc = "consume"
    BY DEF ConsumeCode, IInv, TaskOK
  <1>2. PICK k \in {OfToken("login", NoToken, NoToken), Idle} : Goes(w, k)
    BY DEF ConsumeCode
  <1>3. k \in Task /\ k.pc \in {"login", "idle"} /\ k.old = NoToken
    BY TokenTask, IdleTask DEF Places
  <1>4. Moved(w, k) /\ TaskOK(w)'
    BY <1>2, <1>3, GoesMoves DEF IInv, Moved, TaskOK
  <1>5. /\ code' \in [Codes -> Code]
        /\ \A d \in Codes :
               /\ code'[d].exists = code[d].exists /\ code'[d].locked = code[d].locked
               /\ code'[d].attempts = code[d].attempts
               /\ code'[d].sent = code[d].sent
    <2>1. code[c] \in Code /\ code \in [Codes -> Code]
      BY <1>1 DEF IInv, TypeOK
    <2>2. code' = code \/ code' = [code EXCEPT ![c] = x]
      BY DEF ConsumeCode
    <2>3. /\ x \in Code /\ x.exists = code[c].exists /\ x.sent = code[c].sent
          /\ x.locked = code[c].locked /\ x.attempts = code[c].attempts
      BY <2>1 DEF Code
    <2>. HIDE DEF x
    <2>. QED
      BY <1>1, <2>1, <2>2, <2>3
  <1>6. NoPenalty'
    BY <1>1, <1>4, <1>5, PenaltyKept DEF ConsumeCode
  <1>7. LocksFollow'
    BY <1>5 DEF IInv, LocksFollow
  <1>. QED
    BY <1>1, <1>2, <1>3, <1>4, <1>5, <1>6, <1>7, CodesWritten
    DEF ConsumeCode, CodesKept, IInv, TypeOK

------------------------------------------------------------------------------
(***************************************************************************)
(* The tokens.                                                             *)
(***************************************************************************)

\* A handler that has nothing to do with codes writes the tokens.
LEMMA TokensWritten ==
  ASSUME IInv, NEW w \in Workers, NEW k \in Task, Goes(w, k), TaskOK(w)',
         task[w].pc \notin {"send", "undo"},
         \A j \in Tokens : token[j] # "none" => parent'[j] = parent[j],
         token' \in [Tokens -> {"none", "live", "exchanged", "loggedOut", "lapsed"}],
         parent' \in [Tokens -> Tokens \cup {NoToken}],
         replacedBy' \in [Tokens -> Tokens \cup {NoToken}], lost' \subseteq Tokens,
         TokensKept, UNCHANGED <<now, user, otpVars, faults>>
  PROVE  Kept
  <1>1. Moved(w, k)
    BY GoesMoves DEF IInv
  <1>2. CodesKept /\ \A v \in Workers : TaskOK(v)'
    BY <1>1, CodesQuiet, OthersOK DEF otpVars
  <1>3. TypeOK'
    BY <1>1 DEF IInv, TypeOK, Moved, otpVars
  <1>. QED
    BY <1>2, <1>3 DEF Kept, IInv, CodesKept, TokensKept

\* The token that a refresh reads is live, and so not spent.
LEMMA RefreshKept ==
  ASSUME IInv, NEW w \in Workers, NEW t \in Tokens, Refresh(w, t) PROVE Kept
  <1> DEFINE k == OfToken("revoke", t, NoToken)
  <1>1. k \in Task /\ k.pc = "revoke" /\ k.old = t /\ Goes(w, k)
    BY TokenTask DEF Refresh, Starts, Places
  <1>2. Moved(w, k) /\ TaskOK(w)' /\ task[w].pc = "idle"
    BY <1>1, GoesMoves, IdleTask DEF Refresh, Starts, IInv, Moved, TaskOK
  <1>3. ParentOfIssued' /\ LinksFollowExchanges'
    BY DEF Refresh, IInv, ParentOfIssued, LinksFollowExchanges, tokenVars
  <1>4. ExchangeLeavesHeir'
    BY <1>2 DEF Refresh, IInv, ExchangeLeavesHeir, Moved, tokenVars
  <1>5. SpentStep
    BY <1>1, <1>2 DEF Refresh, Usable, SpentStep, Spent, Moved, tokenVars
  <1>. QED
    BY <1>1, <1>2, <1>3, <1>4, <1>5, TokensWritten
    DEF Refresh, TokensKept, IInv, TypeOK, tokenVars

\* From here on the exchange is owed a token.
LEMMA RevokeOldKept ==
  ASSUME IInv, NEW w \in Workers, RevokeOld(w) PROVE Kept
  <1> DEFINE old == task[w].old
             k == OfToken("issue", old, NoToken)
  <1>1. old \in Tokens /\ task[w].pc = "revoke"
    BY DEF RevokeOld, IInv, TaskOK
  <1>2. k \in Task /\ k.pc = "issue" /\ k.old = old /\ Goes(w, k)
    BY <1>1, TokenTask DEF RevokeOld, Places
  <1>3. Moved(w, k) /\ TaskOK(w)'
    BY <1>2, GoesMoves DEF IInv, Moved, TaskOK
  <1>4. /\ token' \in [Tokens -> {"none", "live", "exchanged", "loggedOut", "lapsed"}]
        /\ token'[old] = "exchanged"
        /\ \A j \in Tokens \ {old} : token'[j] = token[j]
        /\ UNCHANGED <<parent, replacedBy, lost>>
    BY <1>1 DEF RevokeOld, IInv, TypeOK
  <1>5. ParentOfIssued' /\ LinksFollowExchanges'
    BY <1>4 DEF IInv, ParentOfIssued, LinksFollowExchanges
  <1>6. ExchangeLeavesHeir'
    BY <1>1, <1>2, <1>3, <1>4 DEF IInv, ExchangeLeavesHeir, Moved
  <1>7. SpentStep
    BY <1>1, <1>2, <1>3, <1>4 DEF SpentStep, Spent, Moved
  <1>. QED
    BY <1>1, <1>2, <1>3, <1>4, <1>5, <1>6, <1>7, TokensWritten
    DEF RevokeOld, TokensKept, IInv, TypeOK

LEMMA SignTokensKept ==
  ASSUME IInv, NEW w \in Workers, SignTokens(w) PROVE Kept
  <1> DEFINE k == OfToken("store", task[w].old, now)
  <1>1. task[w].old \in Tokens \cup {NoToken} /\ now \in Tokens
    BY TaskFields DEF IInv, TypeOK
  <1>2. /\ k \in Task /\ k.pc = "store" /\ k.old = task[w].old /\ k.new = now
        /\ Goes(w, k) /\ task[w].pc = "issue"
    BY <1>1, TokenTask DEF SignTokens, Places
  <1>3. Moved(w, k) /\ TaskOK(w)'
    BY <1>1, <1>2, GoesMoves DEF IInv, Moved, TaskOK
  <1>4. ParentOfIssued' /\ LinksFollowExchanges'
    BY DEF SignTokens, IInv, ParentOfIssued, LinksFollowExchanges, tokenVars
  <1>5. ExchangeLeavesHeir'
    BY <1>2, <1>3 DEF SignTokens, IInv, ExchangeLeavesHeir, Moved, tokenVars
  <1>6. SpentStep
    BY <1>2, <1>3 DEF SignTokens, SpentStep, Spent, Moved, tokenVars
  <1>. QED
    BY <1>2, <1>3, <1>4, <1>5, <1>6, TokensWritten
    DEF SignTokens, TokensKept, IInv, TypeOK, tokenVars

\* A second that has no token yet is nobody's parent or successor.
LEMMA StoreTokenKept ==
  ASSUME IInv, NEW w \in Workers, StoreToken(w) PROVE Kept
  <1> DEFINE old == task[w].old
             new == task[w].new
  <1>1. old \in Tokens \cup {NoToken} /\ new \in Tokens /\ task[w].pc = "store"
    BY TaskFields DEF StoreToken, IInv, TaskOK
  <1>2. CASE token[new] # "none"
    <2>1. /\ Goes(w, Idle) /\ lost' = lost \cup ({old} \ {NoToken})
          /\ UNCHANGED <<token, parent, replacedBy>>
      BY <1>2 DEF StoreToken, LosesSession
    <2>2. Moved(w, Idle) /\ TaskOK(w)'
      BY <2>1, GoesMoves, IdleTask DEF IInv, Moved, TaskOK
    <2>3. ParentOfIssued' /\ LinksFollowExchanges'
      BY <2>1 DEF IInv, ParentOfIssued, LinksFollowExchanges
    <2>4. ExchangeLeavesHeir'
      BY <1>1, <2>1, <2>2, Bounds DEF IInv, ExchangeLeavesHeir, Moved
    <2>5. SpentStep
      BY <2>1, <2>2, IdleTask, Bounds DEF SpentStep, Spent, Moved
    <2>. QED
      BY <1>1, <2>1, <2>2, <2>3, <2>4, <2>5, IdleTask, TokensWritten
      DEF StoreToken, TokensKept, IInv, TypeOK
  <1>3. CASE token[new] = "none"
    <2> DEFINE k == IF old = NoToken THEN Idle ELSE OfToken("link", old, new)
    <2>1. /\ Goes(w, k)
          /\ token' = [token EXCEPT ![new] = "live"]
          /\ parent' = [parent EXCEPT ![new] = old]
          /\ replacedBy' = [replacedBy EXCEPT ![new] = old]
          /\ UNCHANGED lost
      BY <1>3 DEF StoreToken
    <2>2. /\ k \in Task /\ k.pc \in {"idle", "link"} /\ k.old = old
          /\ k.pc = "link" => k.new = new /\ old \in Tokens
      BY <1>1, IdleTask, TokenTask DEF Places
    <2>3. Moved(w, k)
      BY <2>1, <2>2, GoesMoves DEF IInv
    <2>4. /\ token' \in [Tokens -> {"none", "live", "exchanged", "loggedOut", "lapsed"}]
          /\ parent' \in [Tokens -> Tokens \cup {NoToken}]
          /\ replacedBy' \in [Tokens -> Tokens \cup {NoToken}]
          /\ token'[new] = "live" /\ parent'[new] = old /\ replacedBy'[new] = old
          /\ \A j \in Tokens \ {new} :
                 /\ token'[j] = token[j] /\ parent'[j] = parent[j]
                 /\ replacedBy'[j] = replacedBy[j]
      BY <1>1, <2>1 DEF IInv, TypeOK
    <2>5. parent[new] = NoToken
      BY <1>1, <1>3 DEF IInv, ParentOfIssued
    <2>6. TaskOK(w)'
      BY <1>1, <2>2, <2>3, <2>4 DEF Moved, TaskOK
    <2>. HIDE DEF k
    <2>7. ParentOfIssued'
      BY <1>1, <2>4 DEF IInv, ParentOfIssued
    <2>8. LinksFollowExchanges'
      <3>1. ASSUME NEW j \in Tokens, replacedBy'[j] # NoToken
            PROVE  replacedBy'[j] = parent'[j] \/ parent'[replacedBy'[j]] = j
        <4>1. CASE j = new
          BY <2>4, <4>1
        <4>2. CASE j # new
          <5>1. replacedBy'[j] = replacedBy[j] /\ parent'[j] = parent[j]
            BY <2>4, <4>2
          <5>2. replacedBy[j] = parent[j] \/ parent[replacedBy[j]] = j
            BY <3>1, <5>1 DEF IInv, LinksFollowExchanges
          <5>3. replacedBy[j] \in Tokens
            BY <3>1, <5>1 DEF IInv, TypeOK
          <5>4. parent[replacedBy[j]] = j => replacedBy[j] # new
            BY <2>5, Bounds
          <5>. QED
            BY <2>4, <5>1, <5>2, <5>3, <5>4
        <4>. QED
          BY <4>1, <4>2
      <3>. QED
        BY <3>1 DEF LinksFollowExchanges
    <2>9. ExchangeLeavesHeir'
      <3>1. ASSUME NEW j \in Tokens, token'[j] = "exchanged"
            PROVE  \/ j \in lost'
                   \/ \E i \in Tokens : parent'[i] = j
                   \/ \E v \in Workers : task'[v].old = j /\ task'[v].pc \in {"issue", "store"}
        <4>1. j # new /\ token[j] = "exchanged"
          BY <2>4, <3>1
        <4>2. CASE j \in lost
          BY <2>1, <4>2
        <4>3. ASSUME NEW i \in Tokens, parent[i] = j PROVE parent'[i] = j
          BY <2>4, <2>5, <4>3, Bounds
        <4>4. CASE old = j
          BY <1>1, <2>4, <4>4
        <4>5. ASSUME NEW v \in Workers, task[v].old = j, task[v].pc \in {"issue", "store"},
                     old # j
              PROVE  task'[v].old = j /\ task'[v].pc \in {"issue", "store"}
          BY <2>3, <4>5 DEF Moved
        <4>. QED
          BY <4>1, <4>2, <4>3, <4>4, <4>5 DEF IInv, ExchangeLeavesHeir
      <3>. QED
        BY <3>1 DEF ExchangeLeavesHeir
    <2>10. SpentStep
      <3>1. ASSUME NEW j \in Tokens, Spent(j)
            PROVE  /\ Spent(j)' /\ token'[j] = token[j]
                   /\ \A i \in Tokens : parent'[i] = j => parent[i] = j
        <4>1. j # new /\ old # j
          BY <1>3, <3>1 DEF Spent
        <4>2. \A v \in Workers : task'[v].old # j
          BY <2>2, <2>3, <3>1, <4>1 DEF Spent, Moved
        <4>. QED
          BY <2>4, <3>1, <4>1, <4>2 DEF Spent
      <3>. QED
        BY <3>1 DEF SpentStep
    <2>11. lost' \subseteq Tokens
      BY <2>1 DEF IInv, TypeOK
    <2>12. \A j \in Tokens : token[j] # "none" => parent'[j] = parent[j]
      BY <1>3, <2>4
    <2>. QED
      BY <1>1, <2>1, <2>2, <2>4, <2>6, <2>7, <2>8, <2>9, <2>10, <2>11, <2>12, TokensWritten
      DEF StoreToken, TokensKept
  <1>. QED
    BY <1>2, <1>3

LEMMA LinkOldKept ==
  ASSUME IInv, NEW w \in Workers, LinkOld(w) PROVE Kept
  <1> DEFINE old == task[w].old
             new == task[w].new
  <1>1. /\ old \in Tokens /\ new \in Tokens /\ parent[new] = old
        /\ task[w].pc = "link" /\ Goes(w, Idle)
    BY DEF LinkOld, IInv, TaskOK
  <1>2. Moved(w, Idle) /\ TaskOK(w)'
    BY <1>1, GoesMoves, IdleTask DEF IInv, Moved, TaskOK
  <1>3. /\ replacedBy' \in [Tokens -> Tokens \cup {NoToken}]
        /\ replacedBy'[old] = new
        /\ \A j \in Tokens \ {old} : replacedBy'[j] = replacedBy[j]
        /\ UNCHANGED <<token, parent, lost>>
    BY <1>1 DEF LinkOld, LinkTo, IInv, TypeOK
  <1>4. ParentOfIssued' /\ LinksFollowExchanges'
    BY <1>1, <1>3 DEF IInv, ParentOfIssued, LinksFollowExchanges
  <1>5. ExchangeLeavesHeir'
    BY <1>1, <1>2, <1>3 DEF IInv, ExchangeLeavesHeir, Moved
  <1>6. SpentStep
    BY <1>2, <1>3, IdleTask, Bounds DEF SpentStep, Spent, Moved
  <1>. QED
    BY <1>1, <1>2, <1>3, <1>4, <1>5, <1>6, IdleTask, TokensWritten
    DEF LinkOld, TokensKept, IInv, TypeOK

------------------------------------------------------------------------------
(***************************************************************************)
(* Steps of no handler, and failures.                                      *)
(***************************************************************************)
LEMMA LogoutKept ==
  ASSUME IInv, NEW k \in Tokens, Logout(k) \/ TokenLapses(k) PROVE Kept
  <1>1. /\ token' \in [Tokens -> {"none", "live", "exchanged", "loggedOut", "lapsed"}]
        /\ token[k] \in {"live", "lapsed"} /\ token'[k] \in {"loggedOut", "lapsed"}
        /\ \A j \in Tokens \ {k} : token'[j] = token[j]
        /\ UNCHANGED <<now, user, otpVars, parent, replacedBy, lost, task, faults>>
    BY DEF Logout, LogsOut, TokenLapses, IInv, TypeOK
  <1>2. TypeOK'
    BY <1>1 DEF IInv, TypeOK, otpVars
  <1>3. LocksFollow' /\ NoPenalty' /\ \A w \in Workers : TaskOK(w)'
    BY <1>1 DEF IInv, LocksFollow, NoPenalty, Existing, TaskOK, otpVars
  <1>4. ParentOfIssued' /\ ExchangeLeavesHeir' /\ LinksFollowExchanges'
    BY <1>1 DEF IInv, ParentOfIssued, ExchangeLeavesHeir, LinksFollowExchanges
  <1>5. SpentStep
    BY <1>1 DEF SpentStep, Spent
  <1>. QED
    BY <1>2, <1>3, <1>4, <1>5 DEF Kept, IInv

LEMMA CodeAgesKept ==
  ASSUME IInv, NEW c \in Codes, CodeAges(c) PROVE Kept
  <1> DEFINE x == [code[c] EXCEPT !.age = IF @ = "recent" THEN "valid" ELSE "expired"]
  <1>1. /\ code' = [code EXCEPT ![c] = x]
        /\ UNCHANGED <<now, user, made, wrong, tokenVars, task, faults>>
    BY DEF CodeAges
  <1>2. code[c] \in Code /\ code \in [Codes -> Code]
    BY DEF IInv, TypeOK
  <1>3. /\ x \in Code /\ x.exists = code[c].exists /\ x.sent = code[c].sent
        /\ x.locked = code[c].locked /\ x.attempts = code[c].attempts
    BY <1>2 DEF Code
  <1> HIDE DEF x
  <1>4. /\ code' \in [Codes -> Code]
        /\ \A d \in Codes :
               /\ code'[d].exists = code[d].exists /\ code'[d].locked = code[d].locked
               /\ code'[d].attempts = code[d].attempts
               /\ code'[d].sent = code[d].sent
    BY <1>1, <1>2, <1>3
  <1>5. TypeOK' /\ LocksFollow'
    BY <1>1, <1>4 DEF IInv, TypeOK, LocksFollow, tokenVars
  <1>6. NoPenalty'
    BY <1>1, <1>4 DEF IInv, NoPenalty, Existing
  <1>7. \A w \in Workers : TaskOK(w)'
    BY <1>1 DEF IInv, TaskOK, tokenVars
  <1>8. ParentOfIssued' /\ ExchangeLeavesHeir' /\ LinksFollowExchanges' /\ SpentStep
    BY <1>1 DEF IInv, ParentOfIssued, ExchangeLeavesHeir, LinksFollowExchanges,
                SpentStep, Spent, tokenVars
  <1>. QED
    BY <1>5, <1>6, <1>7, <1>8 DEF Kept, IInv

LEMMA OutsideKept ==
  ASSUME IInv, AdminCreateUser \/ UpdateUser \/ Tick \/ UNCHANGED vars PROVE Kept
  <1>1. /\ now' \in Tokens /\ user' \in {"none", "active", "inactive"}
        /\ UNCHANGED <<otpVars, tokenVars, task, faults>>
    BY Bounds DEF AdminCreateUser, UpdateUser, Tick, vars, IInv, TypeOK, Tokens
  <1>2. TypeOK'
    BY <1>1 DEF IInv, TypeOK, otpVars, tokenVars
  <1>3. LocksFollow' /\ NoPenalty' /\ \A w \in Workers : TaskOK(w)'
    BY <1>1 DEF IInv, LocksFollow, NoPenalty, Existing, TaskOK, otpVars, tokenVars
  <1>4. ParentOfIssued' /\ ExchangeLeavesHeir' /\ LinksFollowExchanges' /\ SpentStep
    BY <1>1 DEF IInv, ParentOfIssued, ExchangeLeavesHeir, LinksFollowExchanges,
                SpentStep, Spent, tokenVars
  <1>. QED
    BY <1>2, <1>3, <1>4 DEF Kept, IInv

\* A failure excuses what it leaves: the code, by faults, and the exchange, by lost.
LEMMA FailKept ==
  ASSUME IInv, NEW w \in Workers, Fail(w) PROVE Kept
  <1>1. /\ Goes(w, Idle) /\ faults' \in 0..MaxFaults /\ faults' > 0
        /\ UNCHANGED <<now, user, otpVars, token, parent, replacedBy>>
    BY Bounds DEF Fail, IInv, TypeOK
  <1>2. /\ lost \subseteq lost' /\ lost' \subseteq Tokens
        /\ task[w].pc \in {"issue", "store"} /\ task[w].old # NoToken => task[w].old \in lost'
    BY TaskFields DEF Fail, LosesSession, IInv, TypeOK
  <1>3. Moved(w, Idle) /\ TaskOK(w)'
    BY <1>1, GoesMoves, IdleTask DEF IInv, Moved, TaskOK
  <1>4. \A v \in Workers : TaskOK(v)'
    BY <1>1, <1>3, OthersOK
  <1>5. TypeOK'
    BY <1>1, <1>2, <1>3 DEF IInv, TypeOK, Moved, otpVars
  <1>6. LocksFollow' /\ NoPenalty'
    BY <1>1 DEF IInv, LocksFollow, NoPenalty, otpVars
  <1>7. ParentOfIssued' /\ LinksFollowExchanges'
    BY <1>1 DEF IInv, ParentOfIssued, LinksFollowExchanges
  <1>8. ExchangeLeavesHeir'
    BY <1>1, <1>2, <1>3, Bounds DEF IInv, ExchangeLeavesHeir, Moved
  <1>9. SpentStep
    BY <1>1, <1>3, IdleTask, Bounds DEF SpentStep, Spent, Moved
  <1>. QED
    BY <1>4, <1>5, <1>6, <1>7, <1>8, <1>9 DEF Kept, IInv

------------------------------------------------------------------------------
LEMMA InitInv == Init => IInv
  <1>1. SUFFICES ASSUME Init PROVE IInv
    OBVIOUS
  <1>2. NewCode \in Code /\ NewCode.attempts = 0 /\ NewCode.locked = FALSE
    BY Bounds DEF NewCode, Code
  <1> DEFINE x == [NewCode EXCEPT !.exists = FALSE]
  <1>3. x \in Code /\ x.attempts = 0 /\ x.locked = FALSE /\ x.exists = FALSE
    BY <1>2 DEF Code
  <1>4. code = [c \in Codes |-> x]
    BY <1>1 DEF Init
  <1> HIDE DEF x
  <1>5. TypeOK
    <2>1. 0 \in Tokens /\ 0 \in 0..MaxCodes /\ 0 \in 0..MaxFaults
      BY Bounds DEF Tokens
    <2>2. code \in [Codes -> Code]
      BY <1>3, <1>4
    <2>3. task \in [Workers -> Task]
      BY <1>1, IdleTask DEF Init
    <2>. QED
      BY <1>1, <2>1, <2>2, <2>3 DEF Init, TypeOK
  <1>6. LocksFollow /\ NoPenalty
    BY <1>3, <1>4, Bounds DEF LocksFollow, NoPenalty, Existing
  <1>7. \A w \in Workers : TaskOK(w)
    BY <1>1, IdleTask DEF Init, TaskOK
  <1>8. ParentOfIssued /\ ExchangeLeavesHeir /\ LinksFollowExchanges
    BY <1>1 DEF Init, ParentOfIssued, ExchangeLeavesHeir, LinksFollowExchanges
  <1>. QED
    BY <1>5, <1>6, <1>7, <1>8 DEF IInv

\* Every step keeps the invariant, and leaves the spent tokens alone.
LEMMA NextKept ==
  ASSUME IInv, [Next]_vars
  PROVE  Kept
  <1>1. ASSUME NEW w \in Workers, Step(w) PROVE Kept
    BY <1>1, CreateCodeKept, SendSmsKept, UndoCodeKept, CountFailureKept,
       ConsumeCodeKept, FindUserKept, CreateUserKept, RevokeOldKept, SignTokensKept,
       StoreTokenKept, LinkOldKept DEF Step
  <1>2. ASSUME NEW w \in Workers, Call(w) PROVE Kept
    BY <1>2, RequestOtpKept, VerifyOtpKept, VerifiedByJulakaiKept, AdminLoginKept,
       RefreshKept DEF Call
  <1>. QED
    BY <1>1, <1>2, FailKept, OutsideKept, LogoutKept, CodeAgesKept DEF Next

------------------------------------------------------------------------------
(***************************************************************************)
(* Binomial coefficients, from the factorials they are a quotient of.      *)
(***************************************************************************)
\* The factorial is the function that its recursion defines.
IsFactorial(f) == f = [n \in Nat |-> IF n = 0 THEN 1 ELSE n * f[n - 1]]
LEMMA Factorial ==
  /\ factorial[0] = 1
  /\ \A n \in Nat : factorial[n] \in Nat \ {0} /\ factorial[n + 1] = (n + 1) * factorial[n]
  <1>. DEFINE step == [p \in Nat \X Nat |-> (p[1] + 1) * p[2]]
  <1>1. step \in Steps(Nat)
    <2>1. \A p \in Nat \X Nat : (p[1] + 1) * p[2] \in Nat
      BY ProductOfTwo
    <2>. QED
      BY <2>1 DEF Steps
  <1>2. \A n, m \in Nat : step[<<n, m>>] = (n + 1) * m
    OBVIOUS
  <1>. HIDE DEF step
  <1>3. PICK f : IsRecursion(f, Nat, 1, step)
    BY <1>1, NatRecursion
  <1>4. /\ f \in [Nat -> Nat] /\ f[0] = 1
        /\ \A n \in Nat : f[n + 1] = (n + 1) * f[n]
    BY <1>2, <1>3 DEF IsRecursion
  <1>5. IsFactorial(f)
    <2>1. ASSUME NEW n \in Nat PROVE f[n] = IF n = 0 THEN 1 ELSE n * f[n - 1]
      <3>1. CASE n = 0
        BY <1>4, <3>1
      <3>2. CASE n # 0
        <4>1. n - 1 \in Nat /\ (n - 1) + 1 = n
          BY <3>2
        <4>2. f[(n - 1) + 1] = ((n - 1) + 1) * f[n - 1]
          BY <1>4, <4>1
        <4>. QED
          BY <3>2, <4>1, <4>2
      <3>. QED
        BY <3>1, <3>2
    <2>. QED
      BY <1>4, <2>1 DEF IsFactorial
  <1>6. IsFactorial(factorial)
    <2>1. factorial = CHOOSE g : IsFactorial(g)
      BY DEF factorial, IsFactorial
    <2>. QED
      BY <1>5, <2>1
  <1>7. factorial[0] = 1 /\ \A n \in Nat : factorial[n + 1] = (n + 1) * factorial[n]
    <2>. DEFINE g == factorial
    <2>1. \A n \in Nat : g[n] = IF n = 0 THEN 1 ELSE n * g[n - 1]
      BY <1>6 DEF IsFactorial
    <2>. HIDE DEF g
    <2>2. g[0] = 1
      BY <2>1
    <2>3. ASSUME NEW n \in Nat PROVE g[n + 1] = (n + 1) * g[n]
      <3>1. n + 1 \in Nat /\ n + 1 # 0 /\ (n + 1) - 1 = n
        OBVIOUS
      <3>. QED
        BY <2>1, <3>1
    <2>. QED
      BY <2>2, <2>3 DEF g
  <1>. DEFINE S == {n \in Nat : factorial[n] \in Nat \ {0}}
  <1>8. 0 \in S
    BY <1>7
  <1>9. ASSUME NEW n \in Nat, n \in S PROVE n + 1 \in S
    <2>. DEFINE m == factorial[n]
    <2>1. m \in Nat \ {0} /\ factorial[n + 1] = (n + 1) * m
      BY <1>7, <1>9
    <2>. HIDE DEF m
    <2>2. (n + 1) * m \in Nat \ {0}
      BY <2>1
    <2>. QED
      BY <2>1, <2>2
  <1>. HIDE DEF S
  <1>10. Nat \subseteq S
    BY <1>8, <1>9, SetInduction
  <1>. QED
    BY <1>7, <1>10 DEF S

\* The paths of a steps one way and b another, as a factor of the factorials.
IsPaths(q, a, b) ==
    q \in Nat \ {0} /\ q * (factorial[b] * factorial[a]) = factorial[a + b]

LEMMA PathsOnAnEdge ==
  ASSUME NEW a \in Nat
  PROVE  IsPaths(1, a, 0) /\ IsPaths(1, 0, a)
  <1>1. factorial[a] \in Nat /\ factorial[0] = 1
    BY Factorial
  <1>. QED
    BY <1>1 DEF IsPaths

LEMMA PathsAdd ==
  ASSUME NEW a \in Nat, NEW b \in Nat, NEW p, NEW q,
         IsPaths(p, a, b + 1), IsPaths(q, a + 1, b)
  PROVE  IsPaths(p + q, a + 1, b + 1)
  <1>. DEFINE x == factorial[a]
              y == factorial[b]
              z == factorial[a + b + 1]
  <1>1. /\ x \in Nat \ {0} /\ y \in Nat \ {0} /\ z \in Nat \ {0}
        /\ factorial[a + 1] = (a + 1) * x /\ factorial[b + 1] = (b + 1) * y
    BY Factorial
  <1>2. factorial[(a + 1) + (b + 1)] = (a + b + 2) * z
    <2>1. a + b + 1 \in Nat /\ (a + b + 1) + 1 = (a + 1) + (b + 1)
          /\ (a + b + 1) + 1 = a + b + 2
      OBVIOUS
    <2>. QED
      BY <2>1, Factorial
  <1>3. p \in Nat \ {0} /\ p * (((b + 1) * y) * x) = z
    <2>1. a + (b + 1) = a + b + 1
      OBVIOUS
    <2>. QED
      BY <1>1, <2>1 DEF IsPaths
  <1>4. q \in Nat \ {0} /\ q * (y * ((a + 1) * x)) = z
    <2>1. (a + 1) + b = a + b + 1
      OBVIOUS
    <2>. QED
      BY <1>1, <2>1 DEF IsPaths
  <1>. HIDE DEF x, y, z
  <1>. DEFINE f == ((b + 1) * y) * ((a + 1) * x)
  <1>5. p * f = (a + 1) * z
    <2>1. p * f = (a + 1) * (p * (((b + 1) * y) * x))
      BY <1>1, <1>3
    <2>. QED
      BY <1>3, <2>1
  <1>6. q * f = (b + 1) * z
    <2>1. q * f = (b + 1) * (q * (y * ((a + 1) * x)))
      BY <1>1, <1>4
    <2>. QED
      BY <1>4, <2>1
  <1>7. f \in Nat
    BY <1>1, ProductOfTwo
  <1>. HIDE DEF f
  <1>8. (p + q) * f = (a + b + 2) * z
    <2>1. (p + q) * f = p * f + q * f
      BY <1>3, <1>4, <1>7
    <2>2. (a + 1) * z + (b + 1) * z = (a + b + 2) * z
      BY <1>1
    <2>. QED
      BY <1>5, <1>6, <2>1, <2>2
  <1>. QED
    BY <1>1, <1>2, <1>3, <1>4, <1>8 DEF IsPaths, f

LEMMA PathsExist ==
  \A a, b \in Nat : \E q : IsPaths(q, a, b)
  <1>. DEFINE S == {n \in Nat : \A a, b \in Nat : a + b = n => \E q : IsPaths(q, a, b)}
  <1>1. 0 \in S
    <2>1. \A a, b \in Nat : a + b = 0 => a = 0 /\ b = 0
      OBVIOUS
    <2>. QED
      BY <2>1, PathsOnAnEdge
  <1>2. ASSUME NEW n \in Nat, n \in S PROVE n + 1 \in S
    <2>. SUFFICES ASSUME NEW a \in Nat, NEW b \in Nat, a + b = n + 1
                  PROVE  \E q : IsPaths(q, a, b)
      OBVIOUS
    <2>1. CASE a = 0 \/ b = 0
      BY <2>1, PathsOnAnEdge
    <2>2. CASE a # 0 /\ b # 0
      <3>. DEFINE i == a - 1
                  j == b - 1
      <3>1. i \in Nat /\ j \in Nat /\ a = i + 1 /\ b = j + 1
            /\ i + (j + 1) = n /\ (i + 1) + j = n
        BY <2>2
      <3>. HIDE DEF i, j
      <3>2. PICK p : IsPaths(p, i, j + 1)
        BY <1>2, <3>1
      <3>3. PICK q : IsPaths(q, i + 1, j)
        BY <1>2, <3>1
      <3>. QED
        BY <3>1, <3>2, <3>3, PathsAdd
    <2>. QED
      BY <2>1, <2>2
  <1>. HIDE DEF S
  <1>3. Nat \subseteq S
    BY <1>1, <1>2, SetInduction
  <1>4. ASSUME NEW a \in Nat, NEW b \in Nat PROVE \E q : IsPaths(q, a, b)
    <2>1. a + b \in Nat
      OBVIOUS
    <2>2. a + b \in S
      BY <1>3, <2>1
    <2>. QED
      BY <2>2 DEF S
  <1>. QED
    BY <1>4

\* The binomial coefficient counts the paths.
Paths(a, b) == choose(a + b, b)

LEMMA PathsUnique ==
  ASSUME NEW a \in Nat, NEW b \in Nat, NEW q, IsPaths(q, a, b)
  PROVE  Paths(a, b) = q
  <1>. DEFINE y == factorial[b] * factorial[a]
              x == factorial[a + b]
  <1>1. factorial[b] \in Nat \ {0} /\ factorial[a] \in Nat \ {0}
    BY Factorial
  <1>2. y \in Nat \ {0}
    BY <1>1
  <1>3. q \in Nat /\ q * y = x
    BY DEF IsPaths
  <1>4. (a + b) - b = a
    OBVIOUS
  <1>5. Paths(a, b) = x \div y
    BY <1>4 DEF Paths, choose
  <1>. HIDE DEF x, y
  <1>6. x \in Nat /\ y * q <= x /\ x < y * (q + 1)
    <2>1. q * y \in Nat /\ y * q = q * y /\ y * (q + 1) = q * y + y
      BY <1>2, <1>3
    <2>. QED
      BY <1>2, <1>3, <2>1
  <1>. QED
    BY <1>2, <1>3, <1>5, <1>6, Quotient

\* Pascal's triangle.
LEMMA Pascal ==
  /\ \A a \in Nat : Paths(a, 0) = 1 /\ Paths(0, a) = 1
  /\ \A a, b \in Nat :
         /\ Paths(a, b) \in Nat \ {0}
         /\ Paths(a + 1, b + 1) = Paths(a, b + 1) + Paths(a + 1, b)
  <1>1. \A a \in Nat : Paths(a, 0) = 1 /\ Paths(0, a) = 1
    BY PathsOnAnEdge, PathsUnique
  <1>2. ASSUME NEW a \in Nat, NEW b \in Nat PROVE IsPaths(Paths(a, b), a, b)
    BY PathsExist, PathsUnique
  <1>3. ASSUME NEW a \in Nat, NEW b \in Nat
        PROVE  Paths(a + 1, b + 1) = Paths(a, b + 1) + Paths(a + 1, b)
    <2>1. IsPaths(Paths(a, b + 1), a, b + 1) /\ IsPaths(Paths(a + 1, b), a + 1, b)
      BY <1>2
    <2>. QED
      BY <2>1, PathsAdd, PathsUnique
  <1>. QED
    BY <1>1, <1>2, <1>3 DEF IsPaths

------------------------------------------------------------------------------
(***************************************************************************)
(* The wrong answers of a code.                                            *)
(*                                                                         *)
(* A worker stands at the level of the attempts it would write next, less  *)
(* one: what it has read, if that is less than what is stored.  A wrong    *)
(* answer that is counted brings its worker up to what is stored then, and *)
(* may bring the others down to that, but no further; nothing else brings  *)
(* anybody down.  So the levels, weighed by binomial coefficients, rise    *)
(* with every wrong answer that is counted.                                *)
(***************************************************************************)
\* What g workers are worth at d below the highest level.
Worth(d, g) == IF g = 0 THEN 0 ELSE Paths(d + 1, g - 1)

LEMMA WorthNext ==
  ASSUME NEW d \in Nat, NEW g \in Nat
  PROVE  /\ Worth(d, g) \in Nat
         /\ Worth(d, g + 1) = Paths(d, g) + Worth(d, g)
         /\ Worth(d, g + 1) = Paths(d + 1, g)
         /\ Worth(d, g) < Worth(d, g + 1)
  <1>1. Worth(d, g + 1) = Paths(d + 1, g)
    BY DEF Worth
  <1>2. Paths(d, g) \in Nat \ {0}
    BY Pascal
  <1>3. CASE g = 0
    <2>1. Paths(d + 1, 0) = 1 /\ Paths(d, 0) = 1 /\ Worth(d, 0) = 0
      BY Pascal DEF Worth
    <2>. QED
      BY <1>1, <1>3, <2>1
  <1>4. CASE g # 0
    <2>. DEFINE i == g - 1
    <2>1. i \in Nat /\ g = i + 1 /\ Worth(d, g) = Paths(d + 1, i)
      BY <1>4 DEF Worth
    <2>. HIDE DEF i
    <2>2. Paths(d + 1, i + 1) = Paths(d, i + 1) + Paths(d + 1, i) /\ Paths(d + 1, i) \in Nat \ {0}
      BY <2>1, Pascal
    <2>. QED
      BY <1>1, <1>2, <2>1, <2>2
  <1>. QED
    BY <1>3, <1>4

LEMMA WorthMonotone ==
  ASSUME NEW d \in Nat
  PROVE  \A g, h \in Nat : g <= h => Worth(d, g) <= Worth(d, h)
  <1>. DEFINE S == {h \in Nat : \A g \in Nat : g <= h => Worth(d, g) <= Worth(d, h)}
  <1>1. \A g \in Nat : Worth(d, g) \in Nat /\ Worth(d, g) < Worth(d, g + 1)
    BY WorthNext
  <1>2. 0 \in S
    <2>1. \A g \in Nat : g <= 0 => g = 0
      OBVIOUS
    <2>. QED
      BY <1>1, <2>1
  <1>3. ASSUME NEW h \in Nat, h \in S PROVE h + 1 \in S
    <2>. SUFFICES ASSUME NEW g \in Nat, g <= h + 1 PROVE Worth(d, g) <= Worth(d, h + 1)
      OBVIOUS
    <2>1. Worth(d, h) \in Nat /\ Worth(d, h + 1) \in Nat /\ Worth(d, g) \in Nat
          /\ Worth(d, h) < Worth(d, h + 1)
      BY <1>1
    <2>2. CASE g <= h
      BY <1>3, <2>1, <2>2
    <2>3. CASE g = h + 1
      BY <2>1, <2>3
    <2>. QED
      BY <2>2, <2>3
  <1>. HIDE DEF S
  <1>4. Nat \subseteq S
    BY <1>2, <1>3, SetInduction
  <1>. QED
    BY <1>4 DEF S

\* The sums of the first values of f.
SumsUp(s, f) ==
    /\ s \in [Nat -> Nat] /\ s[0] = 0
    /\ \A n \in Nat : s[n + 1] = s[n] + f[n]
Sums(f) == CHOOSE s : SumsUp(s, f)

LEMMA SumsExist ==
  ASSUME NEW f \in [Nat -> Nat]
  PROVE  SumsUp(Sums(f), f)
  <1>. DEFINE step == [p \in Nat \X Nat |-> p[2] + f[p[1]]]
  <1>1. step \in Steps(Nat)
    BY DEF Steps
  <1>2. \A n, m \in Nat : step[<<n, m>>] = m + f[n]
    OBVIOUS
  <1>. HIDE DEF step
  <1>3. PICK s : IsRecursion(s, Nat, 0, step)
    BY <1>1, NatRecursion
  <1>4. SumsUp(s, f)
    BY <1>2, <1>3 DEF IsRecursion, SumsUp
  <1>. QED
    BY <1>4 DEF Sums

\* A sum does not fall when nothing in it does.
LEMMA SumsMonotone ==
  ASSUME NEW f, NEW g, NEW s, NEW t, SumsUp(s, f), SumsUp(t, g),
         f \in [Nat -> Nat], g \in [Nat -> Nat], \A n \in Nat : f[n] <= g[n]
  PROVE  \A n \in Nat : s[n] <= t[n]
  <1>. DEFINE S == {n \in Nat : s[n] <= t[n]}
  <1>1. 0 \in S
    BY DEF SumsUp
  <1>2. ASSUME NEW n \in Nat, n \in S PROVE n + 1 \in S
    <2>1. /\ s[n + 1] = s[n] + f[n] /\ t[n + 1] = t[n] + g[n]
          /\ s[n] \in Nat /\ t[n] \in Nat /\ f[n] \in Nat /\ g[n] \in Nat
          /\ s[n] <= t[n] /\ f[n] <= g[n]
      BY <1>2 DEF SumsUp
    <2>. QED
      BY <2>1
  <1>. HIDE DEF S
  <1>3. Nat \subseteq S
    BY <1>1, <1>2, SetInduction
  <1>. QED
    BY <1>3 DEF S

\* All that e workers are worth below a level is less than one more there.
LEMMA SumsBelow ==
  ASSUME NEW f \in [Nat -> Nat], NEW s, SumsUp(s, f), NEW e \in Nat, NEW m \in Nat,
         \A d \in Nat : d < m => f[d] <= Worth(d, e)
  PROVE  s[m] < Paths(m, e)
  <1>. DEFINE S == {n \in Nat : n <= m => s[n] < Paths(n, e)}
  <1>1. 0 \in S
    <2>1. Paths(0, e) = 1 /\ s[0] = 0
      BY Pascal DEF SumsUp
    <2>. QED
      BY <2>1
  <1>2. ASSUME NEW n \in Nat, n \in S PROVE n + 1 \in S
    <2>. SUFFICES ASSUME n + 1 <= m PROVE s[n + 1] < Paths(n + 1, e)
      OBVIOUS
    <2>1. s[n] < Paths(n, e) /\ f[n] <= Worth(n, e)
      BY <1>2
    <2>2. s[n + 1] = s[n] + f[n] /\ s[n] \in Nat /\ f[n] \in Nat
      BY DEF SumsUp
    <2>3. Paths(n + 1, e) = Paths(n, e) + Worth(n, e) /\ Worth(n, e) \in Nat
      BY WorthNext
    <2>4. Paths(n, e) \in Nat
      BY Pascal
    <2>. QED
      BY <2>1, <2>2, <2>3, <2>4
  <1>. HIDE DEF S
  <1>3. Nat \subseteq S
    BY <1>1, <1>2, SetInduction
  <1>4. m \in S
    BY <1>3
  <1>. QED
    BY <1>4 DEF S

\* One worker more at d outweighs whatever is lost below.
LEMMA SumsRaised ==
  ASSUME NEW f \in [Nat -> Nat], NEW g \in [Nat -> Nat], NEW s, NEW t,
         SumsUp(s, f), SumsUp(t, g), NEW d \in Nat, NEW m \in Nat, d < m, NEW e \in Nat,
         \A n \in Nat : n <= d => f[n] <= Worth(n, e),
         Worth(d, e + 1) <= g[d],
         \A n \in Nat : d < n => f[n] <= g[n]
  PROVE  s[m] < t[m]
  <1>. DEFINE S == {n \in Nat : d < n => s[n] < t[n]}
  <1>1. 0 \in S
    OBVIOUS
  <1>2. ASSUME NEW n \in Nat, n \in S PROVE n + 1 \in S
    <2>. SUFFICES ASSUME d < n + 1 PROVE s[n + 1] < t[n + 1]
      OBVIOUS
    <2>1. /\ s[n + 1] = s[n] + f[n] /\ t[n + 1] = t[n] + g[n]
          /\ s[n] \in Nat /\ t[n] \in Nat /\ f[n] \in Nat /\ g[n] \in Nat
      BY DEF SumsUp
    <2>2. CASE n = d
      <3>1. s[n + 1] < Paths(n + 1, e)
        <4>1. \A i \in Nat : i < n + 1 => f[i] <= Worth(i, e)
          BY <2>2
        <4>2. n + 1 \in Nat
          OBVIOUS
        <4>. QED
          BY <4>1, <4>2, SumsBelow
      <3>2. Paths(n + 1, e) = Worth(n, e + 1) /\ Worth(n, e + 1) \in Nat
        <4>1. e + 1 \in Nat
          OBVIOUS
        <4>. QED
          BY <4>1, WorthNext
      <3>3. s[n + 1] \in Nat /\ Worth(n, e + 1) <= g[n]
        BY <2>1, <2>2
      <3>. QED
        BY <2>1, <3>1, <3>2, <3>3
    <2>3. CASE n # d
      <3>1. d < n
        BY <2>3
      <3>2. s[n] < t[n] /\ f[n] <= g[n]
        BY <1>2, <3>1
      <3>. QED
        BY <2>1, <3>2
    <2>. QED
      BY <2>2, <2>3
  <1>. HIDE DEF S
  <1>3. Nat \subseteq S
    BY <1>1, <1>2, SetInduction
  <1>4. m \in S
    BY <1>3
  <1>. QED
    BY <1>4 DEF S

\* The workers that stand at v or above, and what they are all worth.
Standing(l, v) == {w \in Workers : l[w] >= v}
Worths(l) == [d \in Nat |->
    IF d < MaxAttempts THEN Worth(d, Cardinality(Standing(l, MaxAttempts - d))) ELSE 0]
Rank(l) == Sums(Worths(l))[MaxAttempts]

Ladder == [Workers -> 0..MaxAttempts]

LEMMA StandingCount ==
  ASSUME NEW l, NEW v
  PROVE  /\ IsFiniteSet(Standing(l, v)) /\ Cardinality(Standing(l, v)) \in Nat
         /\ Cardinality(Standing(l, v)) <= Cardinality(Workers)
         /\ Cardinality(Workers) \in Nat
  BY ConstantAssumption, FS_Subset, FS_CardinalityType DEF Standing, ConstantAssumption

LEMMA WorthsType ==
  ASSUME NEW l
  PROVE  Worths(l) \in [Nat -> Nat]
  <1>1. ASSUME NEW d \in Nat
        PROVE  Worth(d, Cardinality(Standing(l, MaxAttempts - d))) \in Nat
    BY StandingCount, WorthNext
  <1>. QED
    BY <1>1 DEF Worths

LEMMA RankType ==
  ASSUME NEW l
  PROVE  /\ Rank(l) \in Nat
         /\ Rank(l) < choose(MaxAttempts + Cardinality(Workers), Cardinality(Workers))
  <1>. DEFINE f == Worths(l)
              s == Sums(f)
              n == Cardinality(Workers)
  <1>1. f \in [Nat -> Nat] /\ SumsUp(s, f) /\ n \in Nat /\ MaxAttempts \in Nat
    BY WorthsType, SumsExist, StandingCount, Bounds
  <1>2. \A d \in Nat : d < MaxAttempts => f[d] <= Worth(d, n)
    <2>. TAKE d \in Nat
    <2>. HAVE d < MaxAttempts
    <2>. DEFINE g == Cardinality(Standing(l, MaxAttempts - d))
    <2>1. f[d] = Worth(d, g) /\ g \in Nat /\ g <= n
      BY StandingCount DEF Worths
    <2>. HIDE DEF f, g, n
    <2>. QED
      BY <1>1, <2>1, WorthMonotone
  <1>3. Rank(l) = s[MaxAttempts]
    BY DEF Rank
  <1>. HIDE DEF f, s, n
  <1>4. s[MaxAttempts] < Paths(MaxAttempts, n)
    BY <1>1, <1>2, SumsBelow
  <1>5. s[MaxAttempts] \in Nat
    BY <1>1 DEF SumsUp
  <1>. QED
    BY <1>3, <1>4, <1>5 DEF Paths, n

\* Workers that stand no lower are worth no less.
LEMMA WorthsMonotone ==
  ASSUME NEW l, NEW k, NEW d \in Nat,
         d < MaxAttempts => Standing(l, MaxAttempts - d) \subseteq Standing(k, MaxAttempts - d)
  PROVE  Worths(l)[d] <= Worths(k)[d]
  <1>1. CASE d < MaxAttempts
    <2>. DEFINE L == Standing(l, MaxAttempts - d)
                K == Standing(k, MaxAttempts - d)
    <2>1. L \subseteq K /\ IsFiniteSet(K) /\ Cardinality(L) \in Nat /\ Cardinality(K) \in Nat
      BY <1>1, StandingCount
    <2>2. Worths(l)[d] = Worth(d, Cardinality(L)) /\ Worths(k)[d] = Worth(d, Cardinality(K))
      BY <1>1 DEF Worths
    <2>. HIDE DEF L, K
    <2>3. Cardinality(L) <= Cardinality(K)
      BY <2>1, FS_Subset
    <2>. QED
      BY <2>1, <2>2, <2>3, WorthMonotone
  <1>2. CASE ~(d < MaxAttempts)
    BY <1>2 DEF Worths
  <1>. QED
    BY <1>1, <1>2

LEMMA RankMonotone ==
  ASSUME NEW l \in Ladder, NEW k \in Ladder, \A w \in Workers : l[w] <= k[w]
  PROVE  Rank(l) <= Rank(k)
  <1>1. \A d \in Nat : Worths(l)[d] <= Worths(k)[d]
    <2>. TAKE d \in Nat
    <2>1. Standing(l, MaxAttempts - d) \subseteq Standing(k, MaxAttempts - d)
      BY Bounds DEF Standing, Ladder
    <2>. QED
      BY <2>1, WorthsMonotone
  <1>2. \A n \in Nat : Sums(Worths(l))[n] <= Sums(Worths(k))[n]
    BY <1>1, WorthsType, SumsExist, SumsMonotone
  <1>. QED
    BY <1>2, Bounds DEF Rank

\* A worker comes up to j, and the others down to j at most.
LEMMA RankRises ==
  ASSUME NEW l \in Ladder, NEW k \in Ladder, NEW x \in Workers, NEW j \in 1..MaxAttempts,
         l[x] < j, k[x] = j, \A w \in Workers : k[w] >= j \/ k[w] >= l[w]
  PROVE  Rank(l) < Rank(k)
  <1>. DEFINE f == Worths(l)
              g == Worths(k)
              d == MaxAttempts - j
              L == Standing(l, j)
              K == Standing(k, j)
              e == Cardinality(L)
  <1>1. f \in [Nat -> Nat] /\ g \in [Nat -> Nat] /\ SumsUp(Sums(f), f) /\ SumsUp(Sums(g), g)
    BY WorthsType, SumsExist
  <1>2. d \in Nat /\ d < MaxAttempts /\ MaxAttempts \in Nat /\ MaxAttempts - d = j
    BY Bounds
  <1>3. /\ \A w \in Workers : l[w] \in 0..MaxAttempts /\ k[w] \in 0..MaxAttempts
        /\ IsFiniteSet(K) /\ Cardinality(K) \in Nat /\ e \in Nat
    BY StandingCount DEF Ladder
  <1>4. e + 1 <= Cardinality(K)
    <2>1. x \notin L /\ x \in K
      <3>1. l[x] \in Int /\ k[x] \in Int /\ j \in Int
        BY <1>3
      <3>2. ~(l[x] >= j) /\ k[x] >= j
        BY <3>1
      <3>. QED
        BY <3>2 DEF Standing
    <2>2. IsFiniteSet(L)
      BY StandingCount
    <2>3. L \subseteq K
      BY <1>3 DEF Standing
    <2>. HIDE DEF L, K
    <2>4. Cardinality(L \cup {x}) = e + 1
      BY <2>1, <2>2, FS_AddElement
    <2>5. L \cup {x} \in SUBSET K
      BY <2>1, <2>3
    <2>. QED
      BY <1>3, <2>4, <2>5, FS_Subset
  <1>5. ASSUME NEW n \in Nat, n <= d PROVE f[n] <= Worth(n, e)
    <2>. DEFINE h == Standing(l, MaxAttempts - n)
    <2>1. MaxAttempts - n >= j /\ MaxAttempts - n \in Int /\ n < MaxAttempts
      BY <1>2, <1>5
    <2>2. h \subseteq L
      BY <1>3, <2>1 DEF Standing
    <2>3. f[n] = Worth(n, Cardinality(h)) /\ Cardinality(h) \in Nat /\ IsFiniteSet(L)
      BY <2>1, StandingCount DEF Worths
    <2>. HIDE DEF h, L, f
    <2>4. Cardinality(h) <= e
      BY <2>2, <2>3, FS_Subset
    <2>. QED
      BY <1>3, <2>3, <2>4, WorthMonotone
  <1>6. Worth(d, e + 1) <= g[d]
    <2>1. g[d] = Worth(d, Cardinality(K))
      BY <1>2 DEF Worths
    <2>. HIDE DEF K, e, g, d
    <2>2. e + 1 \in Nat
      BY <1>3
    <2>. QED
      BY <1>2, <1>3, <1>4, <2>1, <2>2, WorthMonotone
  <1>7. ASSUME NEW n \in Nat, d < n PROVE f[n] <= g[n]
    <2>1. ASSUME n < MaxAttempts
          PROVE  Standing(l, MaxAttempts - n) \subseteq Standing(k, MaxAttempts - n)
      <3>1. MaxAttempts - n < j /\ MaxAttempts - n \in Int
        BY <1>2, <1>7
      <3>. QED
        BY <1>3, <3>1 DEF Standing
    <2>. QED
      BY <2>1, WorthsMonotone
  <1>. HIDE DEF f, g, d, e
  <1>8. Sums(f)[MaxAttempts] < Sums(g)[MaxAttempts]
    BY <1>1, <1>2, <1>3, <1>5, <1>6, <1>7, SumsRaised
  <1>. QED
    BY <1>8 DEF Rank, f, g

\* Where the tasks t leave each worker, as to a code with those attempts.
Lower(i, j) == IF i < j THEN i ELSE j
Levels(t, attempts, c) == [w \in Workers |->
    IF t[w].pc = "count" /\ t[w].code = c THEN Lower(t[w].tried, attempts) ELSE attempts]

\* The workers that will count a wrong answer to c.
Pending(t, c) == {w \in Workers : t[w].pc = "count" /\ t[w].code = c}

\* A code's wrong answers do not outnumber the rank that they have raised, the
\* workers that have yet to count theirs, and those that failed to.
WrongCounted ==
    \A c \in Codes :
        /\ c > made => wrong[c] = 0 /\ ~code[c].exists
        /\ code[c].exists =>
              wrong[c] <= Rank(Levels(task, code[c].attempts, c))
                          + Cardinality(Pending(task, c)) + faults

LEMMA LevelsType ==
  ASSUME NEW t \in [Workers -> Task], NEW a \in 0..MaxAttempts, NEW c
  PROVE  /\ Levels(t, a, c) \in Ladder
         /\ \A w \in Workers : Levels(t, a, c)[w] <= a
  <1>1. \A w \in Workers : t[w].tried \in 0..MaxAttempts
    BY DEF Task
  <1>. QED
    BY <1>1, Bounds DEF Levels, Ladder, Lower

LEMMA CodeFields ==
  ASSUME TypeOK, NEW c \in Codes
  PROVE  /\ code[c].attempts \in 0..MaxAttempts /\ wrong[c] \in Nat
         /\ code[c].exists \in BOOLEAN /\ made \in Nat /\ c \in Nat /\ faults \in Nat
  BY Bounds DEF TypeOK, Code, Codes

LEMMA PendingType ==
  ASSUME NEW t, NEW c
  PROVE  IsFiniteSet(Pending(t, c)) /\ Cardinality(Pending(t, c)) \in Nat
  BY ConstantAssumption, FS_Subset, FS_CardinalityType DEF Pending, ConstantAssumption

\* Bringing those who stand below the top up to it adds at least their number.
LEMMA RankRoom ==
  ASSUME NEW l \in Ladder, NEW P \in SUBSET Workers,
         \A w \in P : l[w] < MaxAttempts
  PROVE  Rank(l) + Cardinality(P)
             < choose(MaxAttempts + Cardinality(Workers), Cardinality(Workers))
  <1>. DEFINE up(T) == [w \in Workers |-> IF w \in T THEN MaxAttempts ELSE l[w]]
              F == {T \in SUBSET P : Rank(l) + Cardinality(T) <= Rank(up(T))}
  <1>0. IsFiniteSet(P) /\ MaxAttempts \in 1..MaxAttempts /\ MaxAttempts \in 0..MaxAttempts
    BY ConstantAssumption, FS_Subset, Bounds DEF ConstantAssumption
  <1>1. \A T \in SUBSET P : up(T) \in Ladder
    BY <1>0 DEF Ladder
  <1>2. {} \in F
    <2>1. up({}) = l
      BY DEF Ladder
    <2>. QED
      BY <2>1, RankType, FS_EmptySet
  <1>3. ASSUME NEW T \in SUBSET P, T # {}, \A x \in T : T \ {x} \in F
        PROVE  T \in F
    <2>1. PICK x \in T : TRUE
      BY <1>3
    <2>. DEFINE U == T \ {x}
    <2>2. Rank(l) + Cardinality(U) <= Rank(up(U))
      BY <1>3, <2>1
    <2>3. /\ IsFiniteSet(T) /\ Cardinality(T) \in Nat /\ Cardinality(U) \in Nat
          /\ Cardinality(T) = Cardinality(U) + 1
      BY <1>0, <2>1, FS_Subset, FS_CardinalityType, FS_RemoveElement
    <2>4. Rank(up(U)) < Rank(up(T))
      <3>1. x \in Workers /\ U \in SUBSET P
        BY <2>1
      <3>2. up(U)[x] < MaxAttempts /\ up(T)[x] = MaxAttempts
        BY <2>1, <3>1
      <3>3. \A w \in Workers : up(T)[w] >= MaxAttempts \/ up(T)[w] >= up(U)[w]
        BY <1>0, <2>1 DEF Ladder
      <3>4. up(U) \in Ladder /\ up(T) \in Ladder
        BY <1>1, <3>1
      <3>. HIDE DEF up, U
      <3>. QED
        BY <1>0, <3>1, <3>2, <3>3, <3>4, RankRises
    <2>. HIDE DEF U, up
    <2>5. Rank(l) + Cardinality(T) <= Rank(up(T))
      BY <2>2, <2>3, <2>4, RankType
    <2>. QED
      BY <2>5
  <1>. HIDE DEF F
  <1>4. P \in F
    BY <1>0, <1>2, <1>3, SubsetInduction
  <1>5. Rank(l) + Cardinality(P) <= Rank(up(P))
    BY <1>4 DEF F
  <1>. HIDE DEF up
  <1>6. choose(MaxAttempts + Cardinality(Workers), Cardinality(Workers)) \in Nat
    BY StandingCount, Bounds, Pascal DEF Paths
  <1>. QED
    BY <1>0, <1>5, <1>6, RankType, FS_CardinalityType

\* The steps that compare no code and bring no worker down: a handler that leaves
\* its count undone has failed.
LEMMA NobodyLowered ==
  ASSUME TypeOK, TypeOK', WrongCounted,
         wrong' = wrong, made <= made', faults <= faults',
         \A c \in Codes : \/ wrong[c] = 0 /\ c <= made'
                          \/ /\ code'[c].exists => code[c].exists
                             /\ code'[c].attempts = code[c].attempts,
         \A w \in Workers : task'[w] = task[w] \/ task'[w].pc # "count",
         \/ \A w \in Workers : task[w].pc = "count" => task'[w] = task[w]
         \/ /\ faults' = faults + 1
            /\ \E w \in Workers : \A v \in Workers \ {w} : task'[v] = task[v]
  PROVE  WrongCounted'
  <1>. SUFFICES ASSUME NEW c \in Codes
                PROVE  /\ c > made' => wrong'[c] = 0 /\ ~code'[c].exists
                       /\ code'[c].exists =>
                             wrong'[c] <= Rank(Levels(task', code'[c].attempts, c))
                                          + Cardinality(Pending(task', c)) + faults'
    BY DEF WrongCounted, Levels, Pending
  <1>. DEFINE l == Levels(task, code[c].attempts, c)
              k == Levels(task', code'[c].attempts, c)
              P == Pending(task, c)
              Q == Pending(task', c)
  <1>1. /\ task \in [Workers -> Task] /\ task' \in [Workers -> Task]
        /\ code[c].attempts \in 0..MaxAttempts /\ code'[c].attempts \in 0..MaxAttempts
        /\ wrong[c] \in Nat /\ faults \in Nat /\ faults' \in Nat
        /\ made \in Nat /\ made' \in Nat /\ c \in Nat
    BY Bounds DEF TypeOK, Code, Codes
  <1>2. /\ l \in Ladder /\ k \in Ladder /\ Rank(l) \in Nat /\ Rank(k) \in Nat
        /\ Cardinality(P) \in Nat /\ Cardinality(Q) \in Nat
        /\ IsFiniteSet(P) /\ IsFiniteSet(Q)
    BY <1>1, LevelsType, RankType, PendingType
  <1>3. CASE wrong[c] = 0 /\ c <= made'
    BY <1>1, <1>2, <1>3
  <1>4. CASE (code'[c].exists => code[c].exists) /\ code'[c].attempts = code[c].attempts
    <2>1. c > made' => wrong'[c] = 0 /\ ~code'[c].exists
      BY <1>1, <1>4 DEF WrongCounted
    <2>2. ASSUME code'[c].exists
          PROVE  wrong'[c] <= Rank(k) + Cardinality(Q) + faults'
      <3>1. wrong[c] <= Rank(l) + Cardinality(P) + faults
        BY <1>4, <2>2 DEF WrongCounted
      <3>2. ASSUME NEW w \in Workers PROVE l[w] <= k[w]
        <4>1. task[w].tried \in 0..MaxAttempts
          BY TaskFields
        <4>. QED
          BY <1>1, <1>4, <4>1, Bounds DEF Levels, Lower
      <3>3. Cardinality(P) + faults <= Cardinality(Q) + faults'
        <4>1. CASE \A w \in Workers : task[w].pc = "count" => task'[w] = task[w]
          <5>1. P \subseteq Q
            BY <4>1 DEF Pending
          <5>2. Cardinality(P) <= Cardinality(Q)
            BY <1>2, <5>1, FS_Subset
          <5>. HIDE DEF P, Q
          <5>. QED
            BY <1>1, <1>2, <5>2
        <4>2. ASSUME faults' = faults + 1, NEW w \in Workers,
                     \A v \in Workers \ {w} : task'[v] = task[v]
              PROVE  Cardinality(P) + faults <= Cardinality(Q) + faults'
          <5>1. P \subseteq Q \cup {w}
            BY <4>2 DEF Pending
          <5>. HIDE DEF P, Q
          <5>0. /\ IsFiniteSet(Q \cup {w})
                /\ Cardinality(Q \cup {w}) =
                      IF w \in Q THEN Cardinality(Q) ELSE Cardinality(Q) + 1
            BY <1>2, FS_AddElement
          <5>2. IsFiniteSet(Q \cup {w}) /\ Cardinality(Q \cup {w}) <= Cardinality(Q) + 1
                /\ Cardinality(Q \cup {w}) \in Nat
            BY <1>2, <5>0
          <5>3. Cardinality(P) <= Cardinality(Q \cup {w})
            BY <5>1, <5>2, FS_Subset
          <5>. QED
            BY <1>1, <1>2, <4>2, <5>2, <5>3
        <4>. QED
          BY <4>1, <4>2
      <3>. HIDE DEF l, k, P, Q
      <3>4. Rank(l) <= Rank(k)
        BY <1>2, <3>2, RankMonotone
      <3>. QED
        BY <1>1, <1>2, <3>1, <3>3, <3>4
    <2>. QED
      BY <2>1, <2>2
  <1>. QED
    BY <1>3, <1>4

\* A wrong answer that is written raises the rank of its code.
LEMMA CountFailureCounted ==
  ASSUME IInv, TypeOK', WrongCounted, NEW x \in Workers, CountFailure(x)
  PROVE  WrongCounted'
  <1>. DEFINE b == task[x].code
              j == task[x].tried + 1
  <1>1. /\ TypeOK /\ b \in Codes /\ task[x].pc = "count"
        /\ task[x].tried \in 0..MaxAttempts /\ task[x].tried < MaxAttempts
        /\ UNCHANGED <<made, wrong, faults>>
    BY TaskFields DEF IInv, TaskOK, CountFailure
  <1>2. Moved(x, Idle)
    BY <1>1, GoesMoves, IdleTask DEF CountFailure
  <1>3. /\ task \in [Workers -> Task] /\ task' \in [Workers -> Task]
        /\ \A w \in Workers : task[w].tried \in 0..MaxAttempts
    BY <1>1, <1>2, TaskFields DEF TypeOK, Moved
  <1>4. /\ \A c \in Codes \ {b} : code'[c] = code[c]
        /\ code'[b].exists = code[b].exists
        /\ code[b].exists => code'[b].attempts = j
    <2>1. code[b] \in Code /\ code \in [Codes -> Code]
      BY <1>1 DEF TypeOK
    <2>2. CASE ~code[b].exists
      BY <2>2 DEF CountFailure
    <2>3. CASE code[b].exists
      <3>1. code' = [code EXCEPT ![b].attempts = j, ![b].locked = ShouldLock(j)]
        BY <2>3 DEF CountFailure
      <3>. QED
        BY <1>1, <2>1, <3>1 DEF Code
    <2>. QED
      BY <2>2, <2>3
  <1>5. ASSUME NEW c \in Codes \ {b}
        PROVE  /\ c > made' => wrong'[c] = 0 /\ ~code'[c].exists
               /\ code'[c].exists =>
                     wrong'[c] <= Rank(Levels(task', code'[c].attempts, c))
                                  + Cardinality(Pending(task', c)) + faults'
    <2>1. \A w \in Workers : \/ task'[w] = task[w]
                             \/ task'[w].pc # "count" /\ task[w].code # c
      BY <1>2, <1>5, IdleTask DEF Moved
    <2>2. Levels(task', code'[c].attempts, c) = Levels(task, code[c].attempts, c)
      BY <1>4, <2>1 DEF Levels
    <2>3. Pending(task', c) = Pending(task, c)
      BY <2>1 DEF Pending
    <2>. QED
      BY <1>1, <1>4, <2>2, <2>3 DEF WrongCounted
  <1>6. b > made' => wrong'[b] = 0 /\ ~code'[b].exists
    BY <1>1, <1>4 DEF WrongCounted
  <1>7. ASSUME code'[b].exists
        PROVE  wrong'[b] <= Rank(Levels(task', code'[b].attempts, b))
                            + Cardinality(Pending(task', b)) + faults'
    <2>. DEFINE l == Levels(task, code[b].attempts, b)
                k == Levels(task', j, b)
                P == Pending(task, b)
                Q == Pending(task', b)
    <2>1. /\ code[b].attempts \in 0..MaxAttempts /\ wrong[b] \in Nat /\ faults \in Nat
          /\ j \in 1..MaxAttempts /\ j \in 0..MaxAttempts
      BY <1>1, CodeFields, Bounds
    <2>. HIDE DEF j
    <2>2. l \in Ladder /\ k \in Ladder /\ \A w \in Workers : l[w] <= code[b].attempts
      BY <1>3, <2>1, LevelsType
    <2>3. \A w \in Workers : l[w] \in 0..MaxAttempts /\ k[w] \in 0..MaxAttempts
      BY <2>2 DEF Ladder
    <2>4. l[x] < j /\ k[x] = j
      <3>1. l[x] = Lower(task[x].tried, code[b].attempts)
        BY <1>1 DEF Levels
      <3>2. l[x] <= task[x].tried
        BY <1>1, <2>1, <3>1 DEF Lower
      <3>3. task'[x].pc # "count"
        BY <1>2, IdleTask DEF Moved
      <3>4. k[x] = j
        BY <3>3 DEF Levels
      <3>. HIDE DEF l, k
      <3>. QED
        BY <1>1, <2>3, <3>2, <3>4 DEF j
    <2>5. ASSUME NEW w \in Workers PROVE k[w] >= j \/ k[w] >= l[w]
      <3>1. CASE w = x
        BY <2>1, <2>4, <3>1
      <3>2. CASE w # x /\ ~(task[w].pc = "count" /\ task[w].code = b)
        <4>1. k[w] = j
          BY <1>2, <3>2 DEF Levels, Moved
        <4>. QED
          BY <2>1, <4>1
      <3>3. CASE w # x /\ task[w].pc = "count" /\ task[w].code = b
        <4>1. k[w] = Lower(task[w].tried, j)
          BY <1>2, <3>3 DEF Levels, Moved
        <4>2. l[w] = Lower(task[w].tried, code[b].attempts)
          BY <3>3 DEF Levels
        <4>. HIDE DEF l, k
        <4>. QED
          BY <1>3, <2>1, <4>1, <4>2 DEF Lower
      <3>. QED
        BY <3>1, <3>2, <3>3
    <2>6. wrong[b] <= Rank(l) + Cardinality(P) + faults
      BY <1>1, <1>4, <1>7 DEF WrongCounted
    <2>7. Cardinality(Q) = Cardinality(P) - 1 /\ Cardinality(P) \in Nat
      <3>1. Q = P \ {x} /\ x \in P
        BY <1>1, <1>2, IdleTask DEF Pending, Moved
      <3>. HIDE DEF P, Q
      <3>2. IsFiniteSet(P) /\ Cardinality(P) \in Nat
        BY PendingType DEF P
      <3>. QED
        BY <3>1, <3>2, FS_RemoveElement
    <2>8. k = Levels(task', code'[b].attempts, b)
      BY <1>4, <1>7
    <2>. HIDE DEF l, k, P, Q
    <2>9. Rank(l) < Rank(k) /\ Rank(l) \in Nat /\ Rank(k) \in Nat
      BY <2>1, <2>2, <2>4, <2>5, RankRises, RankType
    <2>10. wrong'[b] <= Rank(k) + Cardinality(Q) + faults'
      BY <1>1, <2>1, <2>6, <2>7, <2>9
    <2>. QED
      BY <2>8, <2>10 DEF Q
  <1>. HIDE DEF b, j
  <1>. QED
    BY <1>5, <1>6, <1>7 DEF WrongCounted, Levels, Pending

\* A handler that was not counting goes on to anything else.
LEMMA GoesElsewhere ==
  ASSUME TypeOK, NEW w \in Workers, NEW k, Goes(w, k), k.pc # "count",
         task[w].pc # "count"
  PROVE  /\ \A v \in Workers : task'[v] = task[v] \/ task'[v].pc # "count"
         /\ \A v \in Workers : task[v].pc = "count" => task'[v] = task[v]
  BY DEF Goes, TypeOK

\* A wrong answer that is compared waits to be counted.
LEMMA VerifyOtpCounted ==
  ASSUME IInv, TypeOK', WrongCounted, NEW w \in Workers, VerifyOtp(w)
  PROVE  WrongCounted'
  <1>1. TypeOK /\ UNCHANGED <<made, code, faults>> /\ task[w] = Idle
    BY DEF IInv, VerifyOtp, Starts
  <1>2. PICK c \in Codes :
           /\ code[c].exists
           /\ \/ Goes(w, OfCode("consume", c, 0)) /\ wrong' = wrong
              \/ /\ Goes(w, OfCode("count", c, code[c].attempts))
                 /\ wrong' = [wrong EXCEPT ![c] = @ + 1]
    BY DEF VerifyOtp, Latest, Existing, Starts
  <1>0. /\ made \in Nat /\ faults \in Nat
        /\ \A d \in Codes : wrong[d] \in Nat /\ d \in Nat
    BY <1>1, CodeFields
  <1>3. CASE Goes(w, OfCode("consume", c, 0)) /\ wrong' = wrong
    <2>1. /\ \A v \in Workers : task'[v] = task[v] \/ task'[v].pc # "count"
          /\ \A v \in Workers : task[v].pc = "count" => task'[v] = task[v]
      BY <1>1, <1>3, GoesElsewhere, IdleTask DEF OfCode
    <2>. QED
      BY <1>0, <1>1, <1>3, <2>1, NobodyLowered
  <1>4. CASE /\ Goes(w, OfCode("count", c, code[c].attempts))
             /\ wrong' = [wrong EXCEPT ![c] = @ + 1]
    <2>1. /\ task'[w].pc = "count" /\ task'[w].code = c
          /\ task'[w].tried = code[c].attempts
          /\ \A v \in Workers \ {w} : task'[v] = task[v]
      BY <1>1, <1>4 DEF Goes, OfCode, TypeOK
    <2>2. /\ wrong'[c] = wrong[c] + 1 /\ c <= made
          /\ \A d \in Codes \ {c} : wrong'[d] = wrong[d]
      BY <1>0, <1>1, <1>2, <1>4 DEF TypeOK, WrongCounted
    <2>3. ASSUME NEW d \in Codes
          PROVE  Levels(task', code'[d].attempts, d) = Levels(task, code[d].attempts, d)
      <3>1. code[c].attempts \in 0..MaxAttempts
        BY <1>1, CodeFields
      <3>2. Lower(code[c].attempts, code[c].attempts) = code[c].attempts
        BY DEF Lower
      <3>3. task[w].pc # "count"
        BY <1>1, IdleTask
      <3>. QED
        BY <1>1, <2>1, <3>2, <3>3 DEF Levels
    <2>4. ASSUME NEW d \in Codes \ {c}
          PROVE  Pending(task', d) = Pending(task, d)
      BY <1>1, <2>1, IdleTask DEF Pending
    <2>5. /\ Cardinality(Pending(task', c)) = Cardinality(Pending(task, c)) + 1
          /\ Cardinality(Pending(task, c)) \in Nat
      <3>1. /\ Pending(task', c) = Pending(task, c) \cup {w} /\ w \notin Pending(task, c)
        BY <1>1, <2>1, IdleTask DEF Pending
      <3>. QED
        BY <3>1, PendingType, FS_AddElement
    <2>6. ASSUME NEW d \in Codes
          PROVE  /\ d > made' => wrong'[d] = 0 /\ ~code'[d].exists
                 /\ code'[d].exists =>
                       wrong'[d] <= Rank(Levels(task', code'[d].attempts, d))
                                    + Cardinality(Pending(task', d)) + faults'
      <3>1. CASE d = c
        <4>. DEFINE r == Rank(Levels(task, code[c].attempts, c))
                    p == Cardinality(Pending(task, c))
        <4>1. wrong[c] <= r + p + faults /\ r \in Nat /\ p \in Nat
          BY <1>2, <2>5, RankType DEF WrongCounted
        <4>2. /\ Rank(Levels(task', code'[c].attempts, c)) = r
              /\ Cardinality(Pending(task', c)) = p + 1
          BY <2>3, <2>5
        <4>. HIDE DEF r, p
        <4>3. wrong'[c] <= r + (p + 1) + faults'
          BY <1>0, <1>1, <2>2, <4>1
        <4>4. ~(c > made')
          BY <1>0, <1>1, <2>2
        <4>. QED
          BY <3>1, <4>2, <4>3, <4>4
      <3>2. CASE d # c
        <4>1. wrong'[d] = wrong[d] /\ Pending(task', d) = Pending(task, d)
          BY <2>2, <2>4, <3>2
        <4>. QED
          BY <1>1, <2>3, <4>1 DEF WrongCounted
      <3>. QED
        BY <3>1, <3>2
    <2>. QED
      BY <2>6 DEF WrongCounted, Levels, Pending
  <1>. QED
    BY <1>2, <1>3, <1>4

LEMMA CreateCodeCounted ==
  ASSUME IInv, TypeOK', WrongCounted, NEW w \in Workers, CreateCode(w)
  PROVE  WrongCounted'
  <1>1. /\ TypeOK /\ code' = [code EXCEPT ![made + 1] = NewCode]
        /\ made' = made + 1 /\ UNCHANGED <<wrong, faults>> /\ task[w].pc = "create"
        /\ made \in Nat /\ faults \in Nat
    BY Bounds DEF IInv, TypeOK, CreateCode
  <1>2. \A c \in Codes : \/ wrong[c] = 0 /\ c <= made'
                         \/ code'[c] = code[c]
    <2>. TAKE c \in Codes
    <2>1. CASE c = made + 1
      BY <1>1, <2>1 DEF WrongCounted
    <2>2. CASE c # made + 1
      BY <1>1, <2>2 DEF TypeOK
    <2>. QED
      BY <2>1, <2>2
  <1>3. /\ \A v \in Workers : task'[v] = task[v] \/ task'[v].pc # "count"
        /\ \A v \in Workers : task[v].pc = "count" => task'[v] = task[v]
    <2>1. Goes(w, OfCode("send", made + 1, 0)) /\ OfCode("send", made + 1, 0).pc = "send"
      BY DEF CreateCode, OfCode
    <2>. QED
      BY <1>1, <2>1, GoesElsewhere
  <1>. QED
    BY <1>1, <1>2, <1>3, NobodyLowered

\* The steps that write a code, but for its attempts.
LEMMA CodeStepsCounted ==
  ASSUME IInv, TypeOK', WrongCounted, NEW w \in Workers,
         SendSms(w) \/ UndoCode(w) \/ ConsumeCode(w)
  PROVE  WrongCounted'
  <1>. DEFINE c == task[w].code
  <1>1. /\ TypeOK /\ c \in Codes /\ code[c] \in Code
        /\ UNCHANGED <<made, wrong, faults>> /\ made \in Nat /\ faults \in Nat
    BY Bounds DEF IInv, TypeOK, TaskOK, SendSms, UndoCode, ConsumeCode
  <1>2. /\ \A v \in Workers : task'[v] = task[v] \/ task'[v].pc # "count"
        /\ \A v \in Workers : task[v].pc = "count" => task'[v] = task[v]
    <2>1. PICK k : Goes(w, k) /\ k.pc # "count"
      BY IdleTask DEF SendSms, UndoCode, ConsumeCode, OfCode, OfToken
    <2>2. task[w].pc # "count"
      BY DEF SendSms, UndoCode, ConsumeCode
    <2>. QED
      BY <1>1, <2>1, <2>2, GoesElsewhere
  <1>3. CASE code' = code
    BY <1>1, <1>2, <1>3, NobodyLowered
  <1>4. ASSUME code' # code
        PROVE  \E x : /\ code' = [code EXCEPT ![c] = x]
                      /\ x.attempts = code[c].attempts
                      /\ x.exists => code[c].exists
    <2>. DEFINE sent == [code[c] EXCEPT !.sent = TRUE]
                deleted == [code[c] EXCEPT !.exists = FALSE]
                consumed == [code[c] EXCEPT !.consumed = TRUE]
    <2>1. \/ code' = [code EXCEPT ![c] = sent]
          \/ code' = [code EXCEPT ![c] = deleted]
          \/ code' = [code EXCEPT ![c] = consumed]
      BY <1>4 DEF SendSms, UndoCode, Deleted, ConsumeCode
    <2>2. \A x \in {sent, deleted, consumed} :
              x.attempts = code[c].attempts /\ (x.exists => code[c].exists)
      BY <1>1 DEF Code
    <2>. HIDE DEF c, sent, deleted, consumed
    <2>. QED
      BY <2>1, <2>2
  <1>. HIDE DEF c
  <1>5. CASE code' # code
    <2>1. PICK x : /\ code' = [code EXCEPT ![c] = x]
                   /\ x.attempts = code[c].attempts
                   /\ x.exists => code[c].exists
      BY <1>4, <1>5
    <2>2. \A d \in Codes : /\ code'[d].exists => code[d].exists
                           /\ code'[d].attempts = code[d].attempts
      BY <1>1, <2>1 DEF TypeOK
    <2>. QED
      BY <1>1, <1>2, <2>2, NobodyLowered
  <1>. QED
    BY <1>3, <1>5

LEMMA CodeAgesCounted ==
  ASSUME IInv, TypeOK', WrongCounted, NEW c \in Codes, CodeAges(c)
  PROVE  WrongCounted'
  <1>. DEFINE x == [code[c] EXCEPT !.age = IF @ = "recent" THEN "valid" ELSE "expired"]
  <1>1. /\ TypeOK /\ code[c] \in Code /\ code' = [code EXCEPT ![c] = x]
        /\ UNCHANGED <<task, made, wrong, faults>>
    BY DEF IInv, TypeOK, CodeAges
  <1>2. x.attempts = code[c].attempts /\ x.exists = code[c].exists
    BY <1>1 DEF Code
  <1>. HIDE DEF x
  <1>3. \A d \in Codes : /\ code'[d].exists => code[d].exists
                         /\ code'[d].attempts = code[d].attempts
    BY <1>1, <1>2 DEF TypeOK
  <1>4. made \in Nat /\ faults \in Nat
    BY <1>1, Bounds DEF TypeOK
  <1>. QED
    BY <1>1, <1>3, <1>4, NobodyLowered

\* The steps of the handlers that leave the codes alone, and neither begin to
\* count nor were about to.
LEMMA ElsewhereCounted ==
  ASSUME IInv, TypeOK', WrongCounted, NEW w \in Workers,
         \/ RequestOtp(w) \/ VerifiedByJulakai(w) \/ AdminLogin(w)
         \/ FindUser(w) \/ CreateUser(w) \/ RevokeOld(w) \/ SignTokens(w)
         \/ StoreToken(w) \/ LinkOld(w)
         \/ \E k \in Tokens : Refresh(w, k)
  PROVE  WrongCounted'
  <1>1. TypeOK /\ made \in Nat /\ faults \in Nat
    BY Bounds DEF IInv, TypeOK
  <1>2. UNCHANGED <<made, code, wrong, faults>>
    BY DEF RequestOtp, VerifiedByJulakai, AdminLogin, FindUser, CreateUser, RevokeOld,
           SignTokens, StoreToken, LinkOld, Refresh, otpVars
  <1>3. PICK k : Goes(w, k) /\ k.pc # "count"
    <2>1. Admitted # "count"
      BY <1>1 DEF Admitted, TypeOK
    <2>2. /\ Idle.pc = "idle" /\ OfCode("create", 0, 0).pc = "create"
          /\ \A pc, old, new : OfToken(pc, old, new).pc = pc
      BY IdleTask DEF OfCode, OfToken
    <2>3. CASE RequestOtp(w) \/ VerifiedByJulakai(w) \/ AdminLogin(w)
      BY <2>2, <2>3 DEF RequestOtp, VerifiedByJulakai, AdminLogin, Starts
    <2>4. CASE FindUser(w) \/ CreateUser(w)
      BY <2>1, <2>2, <2>4 DEF FindUser, CreateUser
    <2>5. CASE RevokeOld(w) \/ SignTokens(w) \/ \E k \in Tokens : Refresh(w, k)
      BY <2>2, <2>5 DEF RevokeOld, SignTokens, Refresh, Starts
    <2>6. CASE StoreToken(w) \/ LinkOld(w)
      BY <2>2, <2>6 DEF StoreToken, LinkOld
    <2>. QED
      BY <2>3, <2>4, <2>5, <2>6
  <1>4. task[w].pc # "count"
    BY IdleTask DEF RequestOtp, VerifiedByJulakai, AdminLogin, FindUser, CreateUser,
                    RevokeOld, SignTokens, StoreToken, LinkOld, Refresh, Starts
  <1>. QED
    BY <1>1, <1>2, <1>3, <1>4, GoesElsewhere, NobodyLowered

\* A handler that fails leaves at most its own count undone.
LEMMA FailCounted ==
  ASSUME IInv, TypeOK', WrongCounted, NEW w \in Workers, Fail(w)
  PROVE  WrongCounted'
  <1>1. /\ TypeOK /\ made \in Nat /\ faults \in Nat /\ faults' = faults + 1
        /\ UNCHANGED <<made, code, wrong>> /\ Moved(w, Idle)
    BY Bounds, GoesMoves, IdleTask DEF IInv, TypeOK, Fail, otpVars
  <1>2. /\ \A v \in Workers \ {w} : task'[v] = task[v]
        /\ \A v \in Workers : task'[v] = task[v] \/ task'[v].pc # "count"
    BY <1>1, IdleTask DEF Moved
  <1>. QED
    BY <1>1, <1>2, NobodyLowered

LEMMA WrongKept == IInv /\ IInv' /\ WrongCounted /\ [Next]_vars => WrongCounted'
  <1>. SUFFICES ASSUME IInv, IInv', WrongCounted, [Next]_vars PROVE WrongCounted'
    OBVIOUS
  <1>1. TypeOK /\ TypeOK' /\ made \in Nat /\ faults \in Nat
    BY Bounds DEF IInv, TypeOK
  <1>2. ASSUME NEW w \in Workers, Step(w) \/ Call(w) \/ Fail(w) PROVE WrongCounted'
    BY <1>1, <1>2, CountFailureCounted, VerifyOtpCounted, CreateCodeCounted,
       CodeStepsCounted, ElsewhereCounted, FailCounted
    DEF Step, Call
  <1>3. ASSUME NEW c \in Codes, CodeAges(c) PROVE WrongCounted'
    BY <1>1, <1>3, CodeAgesCounted
  <1>4. ASSUME \/ AdminCreateUser \/ UpdateUser \/ Tick
               \/ \E k \in Tokens : Logout(k) \/ TokenLapses(k)
               \/ UNCHANGED vars
        PROVE  WrongCounted'
    <2>1. UNCHANGED <<made, code, wrong, task, faults>>
      BY <1>4 DEF AdminCreateUser, UpdateUser, Tick, Logout, TokenLapses, otpVars, vars
    <2>. QED
      BY <1>1, <2>1, NobodyLowered
  <1>. QED
    BY <1>2, <1>3, <1>4 DEF Next

LEMMA InitWrong == Init => WrongCounted
  <1>. SUFFICES ASSUME Init, NEW c \in Codes
                PROVE  wrong[c] = 0 /\ ~code[c].exists
    BY DEF WrongCounted
  <1>. QED
    BY DEF Init, NewCode

\* What is still to be counted has room under the binomial coefficient.
CountedBounded ==
    \A c \in Codes : code[c].exists =>
        wrong[c] < choose(MaxAttempts + Cardinality(Workers), Cardinality(Workers)) + faults
LEMMA CountedIsBounded == IInv /\ WrongCounted => CountedBounded
  <1>. SUFFICES ASSUME IInv, WrongCounted, NEW c \in Codes, code[c].exists
                PROVE  wrong[c] < choose(MaxAttempts + Cardinality(Workers),
                                         Cardinality(Workers)) + faults
    BY DEF CountedBounded
  <1>. DEFINE l == Levels(task, code[c].attempts, c)
              P == Pending(task, c)
              p == choose(MaxAttempts + Cardinality(Workers), Cardinality(Workers))
  <1>1. /\ task \in [Workers -> Task] /\ code[c].attempts \in 0..MaxAttempts
        /\ wrong[c] \in Nat /\ faults \in Nat
        /\ \A w \in Workers : task[w].tried \in 0..MaxAttempts
    BY CodeFields, TaskFields DEF IInv, TypeOK
  <1>2. ASSUME NEW w \in P PROVE l[w] < MaxAttempts
    BY <1>1, Bounds DEF Levels, Pending, Lower, IInv, TaskOK
  <1>3. l \in Ladder /\ P \in SUBSET Workers
    BY <1>1, LevelsType DEF Pending
  <1>4. wrong[c] <= Rank(l) + Cardinality(P) + faults
    BY DEF WrongCounted
  <1>5. Cardinality(P) \in Nat /\ Rank(l) \in Nat /\ p \in Nat
    BY PendingType, RankType, StandingCount, Bounds, Pascal DEF Paths
  <1>. HIDE DEF l, P
  <1>6. Rank(l) + Cardinality(P) < p
    BY <1>2, <1>3, RankRoom
  <1>. HIDE DEF p
  <1>7. wrong[c] < p + faults
    BY <1>1, <1>4, <1>5, <1>6
  <1>. QED
    BY <1>7 DEF p

\* A code that is gone is compared with nothing.
LEMMA GoneIsSpared ==
  ASSUME IInv, IInv', [Next]_vars, NEW c \in Codes, ~code'[c].exists
  PROVE  wrong'[c] = wrong[c] /\ faults <= faults'
  <1>1. /\ TypeOK /\ faults \in Nat
    BY CodeFields DEF IInv
  <1>2. ASSUME NEW w \in Workers, VerifyOtp(w)
        PROVE  wrong'[c] = wrong[c] /\ faults' = faults
    <2>1. PICK d \in Existing : \/ wrong' = wrong
                               \/ wrong' = [wrong EXCEPT ![d] = @ + 1]
      BY <1>2 DEF VerifyOtp, Latest
    <2>2. code' = code /\ faults' = faults /\ d # c
      BY <1>2 DEF VerifyOtp, Existing
    <2>. QED
      BY <1>1, <2>1, <2>2 DEF TypeOK
  <1>3. ASSUME NEW w \in Workers, Step(w) \/ Fail(w)
        PROVE  wrong' = wrong /\ faults <= faults'
    BY <1>1, <1>3 DEF Step, Fail, CreateCode, SendSms, UndoCode, CountFailure, ConsumeCode,
       FindUser, CreateUser, RevokeOld, SignTokens, StoreToken, LinkOld, otpVars
  <1>4. ASSUME NEW w \in Workers, \/ RequestOtp(w) \/ VerifiedByJulakai(w) \/ AdminLogin(w)
                                  \/ \E k \in Tokens : Refresh(w, k)
        PROVE  wrong' = wrong /\ faults' = faults
    BY <1>4 DEF RequestOtp, VerifiedByJulakai, AdminLogin, Refresh, otpVars
  <1>5. ASSUME \/ AdminCreateUser \/ UpdateUser \/ Tick
               \/ \E k \in Tokens : Logout(k) \/ TokenLapses(k)
               \/ \E d \in Codes : CodeAges(d)
               \/ UNCHANGED vars
        PROVE  wrong' = wrong /\ faults' = faults
    BY <1>5 DEF AdminCreateUser, UpdateUser, Tick, Logout, TokenLapses, CodeAges,
                otpVars, vars
  <1>. QED
    BY <1>1, <1>2, <1>3, <1>4, <1>5 DEF Next, Call

------------------------------------------------------------------------------
\* The inductive invariant holds whatever requests, failures and clock do.
THEOREM Invariance == Spec => []IInv
  <1>1. IInv /\ [Next]_vars => IInv'
    BY NextKept DEF Kept
  <1>. QED
    BY <1>1, InitInv, PTL DEF Spec

\* Every variable keeps its type: the attempts of a code never pass the limit,
\* however verifications overlap (auth.service.ts, 158-170).
THEOREM TypeCorrect == Spec => []TypeOK
  <1>1. IInv => TypeOK
    BY DEF IInv
  <1>. QED
    BY <1>1, Invariance, PTL

\* A code whose SMS failed is deleted (auth.service.ts, 97-108).
THEOREM FailedSmsIsFree == Spec => []NoPenalty
  <1>1. IInv => NoPenalty
    BY DEF IInv
  <1>. QED
    BY <1>1, Invariance, PTL

\* Unless its exchange failed, a revoked token has a successor (auth.service.ts,
\* 265-272).
THEOREM SessionsGoOn == Spec => []ExchangeLeavesHeir
  <1>1. IInv => ExchangeLeavesHeir
    BY DEF IInv
  <1>. QED
    BY <1>1, Invariance, PTL

\* The links of refreshes that overlap stay within a family (auth.service.ts,
\* 303-317).
THEOREM LinksAreTrue == Spec => []LinksFollowExchanges
  <1>1. IInv => LinksFollowExchanges
    BY DEF IInv
  <1>. QED
    BY <1>1, Invariance, PTL

\* Nothing comes of a token that was spent (auth.service.ts, 261 and 275-280).
THEOREM SpentForGood == Spec => SpentIsFinal
  <1>1. IInv /\ [Next]_vars => SpentStep
    BY NextKept DEF Kept
  <1>. QED
    BY <1>1, Invariance, PTL DEF Spec, SpentIsFinal, SpentStep

\* The wrong answers a code was compared with, counted as they are compared, are
\* within the rank of its workers, those that have yet to write, and failures.
THEOREM WrongInvariance == Spec => []WrongCounted
  <1>1. IInv /\ IInv' /\ WrongCounted /\ [Next]_vars => WrongCounted'
    BY WrongKept
  <1>. QED
    BY InitWrong, <1>1, Invariance, PTL DEF Spec

\* However many requests overlap and whichever of their writes fail, a code is
\* compared with no more wrong answers than there are paths down its levels, and
\* one for each failure (auth.service.ts, 154-170).
THEOREM TriesBounded == Spec => []TriesAreBounded
  <1>. DEFINE p == choose(MaxAttempts + Cardinality(Workers), Cardinality(Workers))
  <1>0. p \in Nat
    BY StandingCount, Bounds, Pascal DEF Paths
  <1>. HIDE DEF p
  <1>1. Init => TriesAreBounded
    <2>. SUFFICES ASSUME Init, NEW c \in Codes PROVE wrong[c] < p + faults
      BY DEF TriesAreBounded, p
    <2>1. wrong[c] = 0 /\ faults = 0
      BY DEF Init
    <2>2. p > 0
      BY <1>0, RankType DEF p
    <2>. QED
      BY <1>0, <2>1, <2>2
  <1>2. IInv /\ IInv' /\ CountedBounded' /\ TriesAreBounded /\ [Next]_vars => TriesAreBounded'
    <2>. SUFFICES ASSUME IInv, IInv', CountedBounded', TriesAreBounded, [Next]_vars,
                         NEW c \in Codes
                  PROVE  wrong'[c] < p + faults'
      BY DEF TriesAreBounded, p
    <2>1. CASE code'[c].exists
      BY <2>1 DEF CountedBounded, p
    <2>2. CASE ~code'[c].exists
      <3>1. wrong'[c] = wrong[c] /\ faults <= faults'
        BY <2>2, GoneIsSpared
      <3>2. wrong[c] < p + faults
        BY DEF TriesAreBounded, p
      <3>3. wrong[c] \in Nat /\ faults \in Nat /\ faults' \in Nat
        BY CodeFields, Bounds DEF IInv, TypeOK
      <3>. QED
        BY <1>0, <3>1, <3>2, <3>3
    <2>. QED
      BY <2>1, <2>2
  <1>. QED
    BY <1>1, <1>2, CountedIsBounded, Invariance, WrongInvariance, PTL DEF Spec

==============================================================================
