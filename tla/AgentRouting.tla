---------------------------- MODULE AgentRouting ----------------------------
(***************************************************************************)
(* AgentRouter.select: whether one agent declares all the capabilities a   *)
(* plan step requires.  Which of several is chosen makes no difference to  *)
(* the orchestrator.                                                       *)
(***************************************************************************)
EXTENDS Integers, Sequences

CONSTANTS
  Agents,   \* the registered agents, a sequence in the order of their names
  Declares  \* Declares[a] is the set of capabilities agent a declares

Registered == {Agents[i] : i \in DOMAIN Agents}

(* select raises UnknownCapabilityError for a capability nobody declares   *)
(* and NoMatchingAgentError when no single agent declares them all.        *)
Known(required) == \A c \in required : \E a \in Registered : c \in Declares[a]

Candidates(required) == {a \in Registered : required \subseteq Declares[a]}

Routable(required) == Known(required) /\ Candidates(required) # {}
=============================================================================
