-------------------------------- MODULE MCMesh --------------------------------
(* Mesh on a small instance. *)
EXTENDS Mesh

CONSTANTS b1, b2

\* Two browsers.  b1 initiates to every websocket, b2 to the third only, or to the first
\* only: as either browser may make them, offers cross, or one side offers, or, after b1
\* was first and has come back, the one after the other.
MCPair ==
  {[local |-> [b \in Browsers |-> IF b = b1 THEN 0 ELSE 2], session |-> rank] :
     rank \in {[s \in Sessions |-> s],
               [s \in Sessions |-> IF s = 1 THEN MaxSessions ELSE s - 1]}}
==============================================================================
