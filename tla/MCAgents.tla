------------------------------ MODULE MCAgents ------------------------------
(***************************************************************************)
(* TLC instance of what a chat turn's agent run rests on: the registry of  *)
(* runners with their sessions, and the tracing of the run's callbacks.    *)
(* They have no state in common: a behaviour follows one of them, chosen   *)
(* at the start.  Invocations, tool calls and repos are interchangeable.   *)
(***************************************************************************)
EXTENDS AgentRegistry, Tracing, TLC

VARIABLE part  \* the part that this behaviour follows

vars == <<part, registryVars, tracingVars>>

Init == part \in {"registry", "tracing"} /\ RegistryInit /\ TracingInit

Next ==
  \/ part = "registry" /\ RegistryNext /\ UNCHANGED <<part, tracingVars>>
  \/ part = "tracing" /\ TracingNext /\ UNCHANGED <<part, registryVars>>

Spec == Init /\ [][Next]_vars

Symmetry ==
  Permutations(Invocations) \cup Permutations(Tools) \cup Permutations(Repos)

TypeOK == RegistryTypeOK /\ TracingTypeOK
=============================================================================
