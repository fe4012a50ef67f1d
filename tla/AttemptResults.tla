---------------------------- MODULE AttemptResults ----------------------------
(***************************************************************************)
(* What a discovery run takes for granted of its attempts, however they    *)
(* overlap on disk: each hands over one result at most, in one step with   *)
(* the publication of the bundle that it names, and nothing else adds to   *)
(* the bundles or takes one away. It is SpawnAttempt of DiscoveryRun.      *)
(***************************************************************************)
CONSTANTS Attempts, Contents, Nothing, NoResult

VARIABLES
  results,  \* what each attempt has handed over
  bundles   \* the payloads with a sound bundle

vars == <<results, bundles>>

\* A usable result names a bundle; a failure to retain the payload names none.
Results ==
  {o \in [status : {"usable", "native", "failed"}, bundle : Contents \cup {Nothing}] :
     /\ o.status = "usable" => o.bundle # Nothing
     /\ o.status = "failed" => o.bundle = Nothing}

Init ==
  /\ results = [a \in Attempts |-> NoResult]
  /\ bundles \subseteq Contents

HandOver(a) ==
  /\ results[a] = NoResult
  /\ \E o \in Results :
       /\ results' = [results EXCEPT ![a] = o]
       /\ bundles' = bundles \cup ({o.bundle} \ {Nothing})

Next == \E a \in Attempts : HandOver(a)
Spec == Init /\ [][Next]_vars
=============================================================================
