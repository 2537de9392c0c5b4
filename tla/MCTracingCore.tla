--------------------------- MODULE MCTracingCore ---------------------------
(* Instances of TracingCore for TLC.                                       *)
EXTENDS TracingCore

\* Every hop may turn out to be a router or the target: a route can change
\* between two probes.
AnyAnswer == [h \in 1 .. MaxHops |-> {"router", "target"}]

\* The target is two hops away, or further.
TwoAway == [h \in 1 .. MaxHops |->
              IF h = 1 THEN {"router"} ELSE IF h = MaxHops THEN {"target"} ELSE {"router", "target"}]

\* The target is the first hop, so that longer probes reach it too.
NearTarget == [h \in 1 .. MaxHops |-> {"target"}]

\* A path whose first hop never answers.
SilentFirst == [h \in 1 .. MaxHops |-> IF h = 1 THEN {} ELSE {"target"}]
=============================================================================
