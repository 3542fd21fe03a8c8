---------------------------- MODULE AuthSessions ----------------------------
(***************************************************************************)
(* One account of AuthService: the one-time codes sent to its phone, the   *)
(* logins, and the refresh tokens that carry a session on.                 *)
(*                                                                         *)
(* A refresh token is a JWT without an identifier of its own: what is      *)
(* signed is the account and the second of the clock, and token_hash is    *)
(* unique.  A token is therefore named by the second it was signed in.     *)
(* The account's phone and role stay the same.                             *)
(***************************************************************************)
EXTENDS Naturals, FiniteSets, Combinatorics

CONSTANTS
    Workers,      \* requests the process serves at once
    MaxAttempts,  \* OTP_MAX_ATTEMPTS
    NoToken,      \* no refresh token
    MaxCodes,     \* bound: codes that are made
    MaxSecond,    \* bound: the last second of the clock
    MaxFaults     \* bound: statements that fail

ASSUME ConstantAssumption ==
    /\ IsFiniteSet(Workers) /\ MaxAttempts \in Nat \ {0}
    /\ MaxCodes \in Nat /\ MaxSecond \in Nat /\ MaxFaults \in Nat
    /\ NoToken \notin 0..MaxSecond

Codes == 1..MaxCodes
Tokens == 0..MaxSecond

VARIABLES
    now,         \* the second that signAsync writes into a token
    user,        \* the row of users: none, active or not
    made,        \* the codes made so far: they are numbered as they are created
    code,        \* otp_codes
    wrong,       \* auxiliary: the wrong answers each code was compared with
    token,       \* refresh_tokens: both reasons for revoked_at are kept apart
    parent,      \* auxiliary: the token that each was exchanged for
    replacedBy,  \* refresh_tokens.replaced_by
    lost,        \* auxiliary: tokens whose exchange failed after the revocation
    task,        \* the handler each worker is running
    faults

otpVars == <<made, code, wrong>>
tokenVars == <<token, parent, replacedBy, lost>>
vars == <<now, user, otpVars, tokenVars, task, faults>>

\* The lock of a code outlives the code (30 and 5 minutes): it is never lifted.
Code == [exists : BOOLEAN, sent : BOOLEAN, consumed : BOOLEAN, locked : BOOLEAN,
         age : {"recent", "valid", "expired"}, attempts : 0..MaxAttempts]
NewCode == [exists |-> TRUE, sent |-> FALSE, consumed |-> FALSE, locked |-> FALSE,
            age |-> "recent", attempts |-> 0]

Task == [pc : {"idle", "create", "send", "undo", "count", "consume", "login", "signUp",
               "revoke", "issue", "store", "link"},
         code : Codes \cup {0}, tried : 0..MaxAttempts,
         old : Tokens \cup {NoToken}, new : Tokens \cup {NoToken}]
OfCode(pc, c, tried) ==
    [pc |-> pc, code |-> c, tried |-> tried, old |-> NoToken, new |-> NoToken]
OfToken(pc, old, new) ==
    [pc |-> pc, code |-> 0, tried |-> 0, old |-> old, new |-> new]
Idle == OfCode("idle", 0, 0)

TypeOK ==
    /\ now \in Tokens /\ user \in {"none", "active", "inactive"}
    /\ made \in 0..MaxCodes /\ code \in [Codes -> Code]
    /\ wrong \in [Codes -> Nat]
    /\ token \in [Tokens -> {"none", "live", "exchanged", "loggedOut", "lapsed"}]
    /\ parent \in [Tokens -> Tokens \cup {NoToken}]
    /\ replacedBy \in [Tokens -> Tokens \cup {NoToken}]
    /\ lost \subseteq Tokens
    /\ task \in [Workers -> Task]
    /\ faults \in 0..MaxFaults

Init ==
    /\ now = 0 /\ user = "none" /\ made = 0
    /\ code = [c \in Codes |-> [NewCode EXCEPT !.exists = FALSE]]
    /\ wrong = [c \in Codes |-> 0]
    /\ token = [k \in Tokens |-> "none"]
    /\ parent = [k \in Tokens |-> NoToken]
    /\ replacedBy = [k \in Tokens |-> NoToken]
    /\ lost = {} /\ task = [w \in Workers |-> Idle] /\ faults = 0

\* findFirst of the codes in C, the last created first.
Latest(C) == {c \in C : \A d \in C : d <= c}
Existing == {c \in Codes : code[c].exists}

Goes(w, k) == task' = [task EXCEPT ![w] = k]
Starts(w, k) == task[w] = Idle /\ Goes(w, k)

------------------------------------------------------------------------------
(***************************************************************************)
(* requestOtp.                                                             *)
(***************************************************************************)
CoolingDown(c) == code[c].age = "recent"
Creating == {w \in Workers : task[w].pc = "create"}
RequestOtp(w) ==
    /\ made + Cardinality(Creating) < MaxCodes
    /\ \A c \in Latest(Existing) : ~CoolingDown(c)
    /\ Starts(w, OfCode("create", 0, 0))
    /\ UNCHANGED <<now, user, otpVars, tokenVars, faults>>

CreateCode(w) ==
    /\ task[w].pc = "create" /\ made < MaxCodes
    /\ made' = made + 1
    /\ code' = [code EXCEPT ![made + 1] = NewCode]
    /\ Goes(w, OfCode("send", made + 1, 0))
    /\ UNCHANGED <<now, user, wrong, tokenVars, faults>>

\* The SMS is taken, and its identifier stored; or the provider answers with an
\* error, or not in time, whether or not it sends the message.  No provider
\* throws the ServiceUnavailableException that would leave the code.
SendSms(w) ==
    /\ task[w].pc = "send"
    /\ \/ code' = [code EXCEPT ![task[w].code].sent = TRUE] /\ Goes(w, Idle)
       \/ Goes(w, OfCode("undo", task[w].code, 0)) /\ UNCHANGED code
    /\ UNCHANGED <<now, user, made, wrong, tokenVars, faults>>

NotDeleted(c) == UNCHANGED code
Deleted(c) == code' = [code EXCEPT ![c].exists = FALSE]
UndoCode(w) ==
    /\ task[w].pc = "undo"
    /\ Deleted(task[w].code)
    /\ Goes(w, Idle)
    /\ UNCHANGED <<now, user, made, wrong, tokenVars, faults>>

------------------------------------------------------------------------------
(***************************************************************************)
(* verifyOtp and the logins.                                               *)
(***************************************************************************)

\* The newest code that nobody used is compared with what was typed.
VerifyOtp(w) ==
    \E c \in Latest({d \in Existing : ~code[d].consumed}) :
        /\ ~code[c].locked /\ code[c].age # "expired"
        /\ \/ Starts(w, OfCode("consume", c, 0)) /\ UNCHANGED wrong
           \/ /\ Starts(w, OfCode("count", c, code[c].attempts))
              /\ wrong' = [wrong EXCEPT ![c] = @ + 1]
        /\ UNCHANGED <<now, user, made, code, tokenVars, faults>>

ShouldLockLater(attempts) == attempts > MaxAttempts
ShouldLock(attempts) == attempts >= MaxAttempts

\* attempts = what was read + 1, and the lock with it, by the code's id; the code
\* may have been deleted.
CountFailure(w) ==
    /\ task[w].pc = "count"
    /\ LET c == task[w].code
           attempts == task[w].tried + 1
       IN  code' = IF code[c].exists
                   THEN [code EXCEPT ![c].attempts = attempts,
                                     ![c].locked = ShouldLock(attempts)]
                   ELSE code
    /\ Goes(w, Idle)
    /\ UNCHANGED <<now, user, made, wrong, tokenVars, faults>>

ConsumeCode(w) ==
    /\ task[w].pc = "consume"
    /\ IF code[task[w].code].exists
       THEN /\ code' = [code EXCEPT ![task[w].code].consumed = TRUE]
            /\ Goes(w, OfToken("login", NoToken, NoToken))
       ELSE Goes(w, Idle) /\ UNCHANGED code
    /\ UNCHANGED <<now, user, made, wrong, tokenVars, faults>>

\* JulakAI keeps the codes itself and says that one is right.
VerifiedByJulakai(w) ==
    /\ Starts(w, OfToken("login", NoToken, NoToken))
    /\ UNCHANGED <<now, user, otpVars, tokenVars, faults>>

Admitted == CASE user = "none" -> "signUp" [] user = "active" -> "issue"
              [] user = "inactive" -> "idle"
FindUser(w) ==
    /\ task[w].pc = "login"
    /\ Goes(w, OfToken(Admitted, NoToken, NoToken))
    /\ UNCHANGED <<now, user, otpVars, tokenVars, faults>>

\* phone is unique: of two first logins that overlap, one fails.
CreateUser(w) ==
    /\ task[w].pc = "signUp"
    /\ IF user = "none"
       THEN user' = "active" /\ Goes(w, OfToken("issue", NoToken, NoToken))
       ELSE Goes(w, Idle) /\ UNCHANGED user
    /\ UNCHANGED <<now, otpVars, tokenVars, faults>>

AdminLogin(w) ==
    /\ user = "active"
    /\ Starts(w, OfToken("issue", NoToken, NoToken))
    /\ UNCHANGED <<now, user, otpVars, tokenVars, faults>>

\* The administration's createUser, for the account's phone.
AdminCreateUser ==
    /\ user = "none"
    /\ user' \in {"active", "inactive"}
    /\ UNCHANGED <<now, otpVars, tokenVars, task, faults>>

\* The administration's updateUser.
UpdateUser ==
    /\ user \in {"active", "inactive"}
    /\ user' \in {"active", "inactive"} \ {user}
    /\ UNCHANGED <<now, otpVars, tokenVars, task, faults>>

------------------------------------------------------------------------------
(***************************************************************************)
(* refresh, issueTokenPair and logout.                                     *)
(***************************************************************************)
UsableUnlessLapsed(k) == token[k] \in {"live", "exchanged"}
Usable(k) == token[k] = "live"
Refresh(w, k) ==
    /\ Usable(k)
    /\ Starts(w, OfToken("revoke", k, NoToken))
    /\ UNCHANGED <<now, user, otpVars, tokenVars, faults>>

RevokeOld(w) ==
    /\ task[w].pc = "revoke"
    /\ token' = [token EXCEPT ![task[w].old] = "exchanged"]
    /\ Goes(w, OfToken("issue", task[w].old, NoToken))
    /\ UNCHANGED <<now, user, otpVars, parent, replacedBy, lost, faults>>

SignTokensAnew(w) ==
    /\ task[w].pc = "issue"
    /\ Goes(w, OfToken("store", NoToken, now))
    /\ UNCHANGED <<now, user, otpVars, tokenVars, faults>>
SignTokens(w) ==
    /\ task[w].pc = "issue"
    /\ Goes(w, OfToken("store", task[w].old, now))
    /\ UNCHANGED <<now, user, otpVars, tokenVars, faults>>

\* An exchange that stops here leaves its client with a revoked token only.
LosesSession(w) == lost' = lost \cup ({task[w].old} \ {NoToken})

\* token_hash is unique: what was signed in a second that already has a token
\* cannot be stored.
StoreToken(w) ==
    /\ task[w].pc = "store"
    /\ IF token[task[w].new] = "none"
       THEN /\ token' = [token EXCEPT ![task[w].new] = "live"]
            /\ parent' = [parent EXCEPT ![task[w].new] = task[w].old]
            /\ replacedBy' = [replacedBy EXCEPT ![task[w].new] = task[w].old]
            /\ Goes(w, IF task[w].old = NoToken THEN Idle
                       ELSE OfToken("link", task[w].old, task[w].new))
            /\ UNCHANGED lost
       ELSE LosesSession(w) /\ Goes(w, Idle) /\ UNCHANGED <<token, parent, replacedBy>>
    /\ UNCHANGED <<now, user, otpVars, faults>>

LinkToOldest(old, new) == replacedBy' = [replacedBy EXCEPT ![old] = old]
LinkTo(old, new) == replacedBy' = [replacedBy EXCEPT ![old] = new]
LinkOld(w) ==
    /\ task[w].pc = "link"
    /\ LinkTo(task[w].old, task[w].new)
    /\ Goes(w, Idle)
    /\ UNCHANGED <<now, user, otpVars, token, parent, lost, faults>>

\* updateMany where revoked_at is null.
LogsOut(k) == token[k] \in {"live", "lapsed"}
Logout(k) ==
    /\ LogsOut(k)
    /\ token' = [token EXCEPT ![k] = "loggedOut"]
    /\ UNCHANGED <<now, user, otpVars, parent, replacedBy, lost, task, faults>>

------------------------------------------------------------------------------
(***************************************************************************)
(* Time and failures.                                                      *)
(***************************************************************************)
Tick ==
    /\ now < MaxSecond /\ now' = now + 1
    /\ UNCHANGED <<user, otpVars, tokenVars, task, faults>>

CodeAges(c) ==
    /\ code[c].exists /\ code[c].age # "expired"
    /\ code' = [code EXCEPT ![c].age = IF @ = "recent" THEN "valid" ELSE "expired"]
    /\ UNCHANGED <<now, user, made, wrong, tokenVars, task, faults>>

TokenLapses(k) ==
    /\ token[k] = "live"
    /\ token' = [token EXCEPT ![k] = "lapsed"]
    /\ UNCHANGED <<now, user, otpVars, parent, replacedBy, lost, task, faults>>

\* The next statement of a handler fails, or the process dies before it.
Fail(w) ==
    /\ task[w].pc # "idle" /\ faults < MaxFaults
    /\ faults' = faults + 1
    /\ IF task[w].pc \in {"issue", "store"} THEN LosesSession(w) ELSE UNCHANGED lost
    /\ Goes(w, Idle)
    /\ UNCHANGED <<now, user, otpVars, token, parent, replacedBy>>

Step(w) ==
    \/ CreateCode(w) \/ SendSms(w) \/ UndoCode(w)
    \/ CountFailure(w) \/ ConsumeCode(w) \/ FindUser(w) \/ CreateUser(w)
    \/ RevokeOld(w) \/ SignTokens(w) \/ StoreToken(w) \/ LinkOld(w)

Call(w) ==
    \/ RequestOtp(w) \/ VerifyOtp(w) \/ VerifiedByJulakai(w) \/ AdminLogin(w)
    \/ \E k \in Tokens : Refresh(w, k)

Next ==
    \/ \E w \in Workers : Step(w) \/ Call(w) \/ Fail(w)
    \/ AdminCreateUser \/ UpdateUser \/ Tick
    \/ \E k \in Tokens : Logout(k) \/ TokenLapses(k)
    \/ \E c \in Codes : CodeAges(c)

Spec == Init /\ [][Next]_vars

------------------------------------------------------------------------------
(***************************************************************************)
(* Properties.                                                             *)
(***************************************************************************)

\* A code whose SMS was not taken penalizes nobody: unless a statement failed, it
\* is gone once its request is answered (auth.service.ts, 97-108).
NoPenalty ==
    \A c \in Existing :
        code[c].sent \/ faults > 0
        \/ \E w \in Workers : task[w].code = c /\ task[w].pc \in {"send", "undo"}

\* Verifications that overlap lose updates of attempts, and the write of one may
\* lift the lock that another has set.  Still a code is compared with a bounded
\* number of wrong answers, counted as they are compared: with N requests served
\* at a time, a request either raises what the slowest of the others will write
\* or is one of MaxAttempts, and the most that can be had is a binomial
\* coefficient less one, MaxAttempts itself when N is 1; and one more for each
\* update of attempts that fails (auth.service.ts, 154-170).
TriesAreBounded ==
    LET N == Cardinality(Workers)
    IN  \A c \in Codes : wrong[c] < choose(MaxAttempts + N, N) + faults

\* The client whose token was revoked by a refresh has got another one, or an
\* error, or is still waiting (auth.service.ts, 265-272).
ExchangeLeavesHeir ==
    \A k \in Tokens : token[k] = "exchanged" =>
        \/ k \in lost
        \/ \E j \in Tokens : parent[j] = k
        \/ \E w \in Workers : task[w].old = k /\ task[w].pc \in {"issue", "store"}

\* replaced_by leads back from a token to the one it was exchanged for, until its
\* own exchange makes it lead to a token that was issued for it, whatever
\* refreshes overlap (auth.service.ts, 303-317).
LinksFollowExchanges ==
    \A k \in Tokens : replacedBy[k] # NoToken =>
        replacedBy[k] = parent[k] \/ parent[replacedBy[k]] = k

\* A token that was exchanged or logged out is spent: but for the refreshes that
\* had read it before, nothing changes it again, and no other is ever issued for
\* it (auth.service.ts, 261 and 275-280).
Spent(k) ==
    /\ token[k] \in {"exchanged", "loggedOut"}
    /\ \A w \in Workers : task[w].old # k
SpentIsFinal ==
    [][\A k \in Tokens : Spent(k) =>
           /\ Spent(k)' /\ token'[k] = token[k]
           /\ \A j \in Tokens : parent'[j] = k => parent[j] = k]_vars

==============================================================================
