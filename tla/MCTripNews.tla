----------------------------- MODULE MCTripNews -----------------------------
(***************************************************************************)
(* An instance of TripNews for TLC: two requests at a time beside the      *)
(* listeners.                                                              *)
(***************************************************************************)
EXTENDS TripNews, TLC

CONSTANTS w1, w2

\* The driver has accepted, both parties have heard of it, and nothing more goes on.
Driving ==
    /\ status = "accepted" /\ driven = TRUE
    /\ confirmed = 0 /\ rated = {} /\ paid = FALSE
    /\ task = [w \in Workers |-> Idle] /\ listeners = {} /\ pushes = {}
    /\ been = {} /\ last = [p \in Parties |-> "accepted"]
    /\ behind = {} /\ outside = {} /\ owed = "none" /\ unread = {} /\ alone = FALSE

\* The driver is connected at first.  Either a socket moves, and the client has
\* connected, has joined the trip's room too, or has not connected; or something
\* fails; or the parties confirm, pay, rate and write, once from the start or more
\* often from the acceptance, for which rooms do not matter.  The counters of
\* what a part leaves out start at their bounds.
Sockets ==
    /\ Init /\ conn["driver"] = {"own"}
    /\ \/ moves = 0 /\ faults = MaxFaults /\ conn["client"] # {"trip"}
       \/ moves = MaxMoves /\ faults = 0 /\ "own" \in conn["client"]
    /\ asides = MaxAsides
Asides ==
    /\ \/ Init /\ asides = MaxAsides - 1
       \/ Driving /\ asides = 0
    /\ conn = [p \in Parties |-> {"own"}]
    /\ moves = MaxMoves /\ faults = MaxFaults
MCInit == Sockets \/ Asides
MCSpec == MCInit /\ [][Next]_vars

WorkerSymmetry == Permutations(Workers)

==============================================================================
