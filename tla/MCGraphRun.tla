----------------------------- MODULE MCGraphRun -----------------------------
(***************************************************************************)
(* Instances of GraphRun for TLC: graphs of one to three nodes, and where  *)
(* the controller may crash.                                               *)
(***************************************************************************)
EXTENDS GraphRunProperties, TLC

CONSTANTS a, b, c, plan, g1, g2

SinglePreds == a :> {}
JoinPreds   == a :> {} @@ b :> {} @@ c :> {a, b}

AnyPoint    == DrivePoints
\* Between the dispatch marker and the commit of the Worker's result.
InTheCall   == {"call", "called"}
=============================================================================
