--------------------------- MODULE MCAuthSessions ---------------------------
(***************************************************************************)
(* An instance of AuthSessions for TLC.                                    *)
(***************************************************************************)
EXTENDS AuthSessions, TLC

WorkerSymmetry == Permutations(Workers)

\* Two states the system comes to, from which it is explored in full: either the
\* session of the last second is logged out, and the codes are to come; or all
\* the codes were deleted because their SMS failed, and the tokens are to come.
LoggedOut(k) == IF k = MaxSecond THEN "loggedOut" ELSE "none"
CodesAhead ==
    /\ now = MaxSecond /\ made = 0 /\ user = "active"
    /\ token = [k \in Tokens |-> LoggedOut(k)]
TokensAhead ==
    /\ now = 0 /\ made = MaxCodes /\ user = "none"
    /\ token = [k \in Tokens |-> "none"]
MCInit ==
    /\ CodesAhead \/ TokensAhead
    /\ code = [c \in Codes |-> [NewCode EXCEPT !.exists = FALSE]]
    /\ wrong = [c \in Codes |-> 0]
    /\ parent = [k \in Tokens |-> NoToken]
    /\ replacedBy = [k \in Tokens |-> NoToken]
    /\ lost = {} /\ task = [w \in Workers |-> Idle] /\ faults = 0

MCSpec == MCInit /\ [][Next]_vars

==============================================================================
