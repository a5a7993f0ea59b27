------------------------ MODULE MCConnectionRegistry ------------------------
(* Small instances of ConnectionRegistry. *)
EXTENDS ConnectionRegistry, TLC

CONSTANTS a1, a2, c1, c2

\* The Agents that make the first, second, ... connection.
Churn == <<a1, a1, a2>>
Successor == <<a1, a2>>

OwnClusters == a1 :> c1 @@ a2 :> c2
SharedCluster == a1 :> c1 @@ a2 :> c1
=============================================================================
