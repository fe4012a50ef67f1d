---------------------------- MODULE SerialWrites ----------------------------
(***************************************************************************)
(* What keyed writes promise to the clients that send them: the requests   *)
(* take effect one after the other, each at once and on the state that the *)
(* ones before it have left, none more than once under a key; whatever a   *)
(* client is told is what its request, and no other, was answered then.    *)
(* Locks, retries, roll-backs and lost connections do not show.            *)
(***************************************************************************)
CONSTANTS
  Keys,            \* the keys that clients choose
  Requests,        \* the requests they send
  Beginnings,      \* the states in which the store may begin
  Reply(_, _),     \* Reply(s, r): the answer to request r in state s
  After(_, _, _)   \* After(s, k, r): the state that r under key k leaves

VARIABLES
  state,      \* what the store holds
  record,     \* what was answered: triples <<key, request, answer>>
  heard       \* what clients were told of it

vars == <<state, record, heard>>

Init ==
  /\ state \in Beginnings
  /\ record = {}
  /\ heard = {}

Perform(k, r) ==
  /\ \A entry \in record : entry[1] # k
  /\ record' = record \cup {<<k, r, Reply(state, r)>>}
  /\ state' = After(state, k, r)
  /\ UNCHANGED heard

Tell(entry) ==
  /\ heard' = heard \cup {entry}
  /\ UNCHANGED <<state, record>>

Next ==
  \/ \E k \in Keys, r \in Requests : Perform(k, r)
  \/ \E entry \in record : Tell(entry)

Spec == Init /\ [][Next]_vars
=============================================================================
