---------------------------- MODULE TraceSession ----------------------------
(***************************************************************************)
(* What a trace promises, without threads, events or objects: hops answer  *)
(* in any order; the limit of the trace falls only to a hop where the      *)
(* target itself answered; and unless the user aborted it, a trace is over *)
(* only when every hop up to its limit has answered.                       *)
(***************************************************************************)
EXTENDS Naturals

CONSTANT MaxHops

VARIABLES
  phase,    \* "ready", "starting", "tracing" or "over"
  limit,    \* the last hop of the trace; 0 while it is not known
  answer,   \* per hop: "none", "router" or "target"
  aborted   \* did the user abort the trace?

vars == <<phase, limit, answer, aborted>>

Hops == 1 .. MaxHops

NoAnswer == [h \in Hops |-> "none"]

Init == phase = "ready" /\ limit = 0 /\ answer = NoAnswer /\ aborted = FALSE

Start ==
  /\ phase = "ready"
  /\ phase' = "starting"
  /\ UNCHANGED <<limit, answer, aborted>>

Begin ==
  /\ phase = "starting"
  /\ phase' = "tracing"
  /\ limit' \in Hops
  /\ UNCHANGED <<answer, aborted>>

Answer(h) ==
  /\ phase = "tracing"
  /\ answer[h] = "none"
  /\ \E who \in {"router", "target"} : answer' = [answer EXCEPT ![h] = who]
  /\ UNCHANGED <<phase, limit, aborted>>

Shorten(h) ==
  /\ answer[h] = "target"
  /\ h <= limit
  /\ limit' = h
  /\ UNCHANGED <<phase, answer, aborted>>

Abort ==
  /\ phase # "ready"
  /\ aborted' = TRUE
  /\ UNCHANGED <<phase, limit, answer>>

End ==
  /\ phase = "tracing"
  /\ aborted \/ \A h \in 1 .. limit : answer[h] # "none"
  /\ phase' = "over"
  /\ UNCHANGED <<limit, answer, aborted>>

Reset ==
  /\ phase = "over"
  /\ phase' = "ready"
  /\ limit' = 0
  /\ answer' = NoAnswer
  /\ aborted' = FALSE

Next ==
  \/ Start \/ Begin \/ Abort \/ End \/ Reset
  \/ \E h \in Hops : Answer(h) \/ Shorten(h)

Spec == Init /\ [][Next]_vars
=============================================================================
