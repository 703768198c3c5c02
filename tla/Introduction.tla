----------------------------- MODULE Introduction -----------------------------
(***************************************************************************)
(* What an introduction promises the peer that asks for it: its promise is *)
(* settled at most once; it resolves only after the other peer has         *)
(* accepted the offer; and no peer accepts an offer whose promise has been *)
(* rejected.  Nothing here speaks of mediators, messages or connections.   *)
(***************************************************************************)
CONSTANT Session
VARIABLES request, accepted

Init ==
  /\ request = [s \in Session |-> "none"]
  /\ accepted = [s \in Session |-> FALSE]

Ask(s) ==
  /\ request[s] = "none"
  /\ request' = [request EXCEPT ![s] = "pending"]
  /\ UNCHANGED accepted

Accept(s) ==
  /\ request[s] = "pending" /\ ~accepted[s]
  /\ accepted' = [accepted EXCEPT ![s] = TRUE]
  /\ UNCHANGED request

Resolve(s) ==
  /\ request[s] = "pending" /\ accepted[s]
  /\ request' = [request EXCEPT ![s] = "resolved"]
  /\ UNCHANGED accepted

Reject(s) ==
  /\ request[s] = "pending"
  /\ request' = [request EXCEPT ![s] = "rejected"]
  /\ UNCHANGED accepted

Next == \E s \in Session : Ask(s) \/ Accept(s) \/ Resolve(s) \/ Reject(s)

Spec == Init /\ [][Next]_<<request, accepted>>
=============================================================================
