-------------------------- MODULE MCPermissionGate --------------------------
(***************************************************************************)
(* PermissionGate with two requests: one of any kind, and one that needs a *)
(* confirmation under every policy but the one that denies all.            *)
(***************************************************************************)
EXTENDS PermissionGate

CONSTANTS r1, r2

MCProfiles ==
  {[r \in Requests |-> IF r = r1 THEN q ELSE [denied |-> FALSE, allowed |-> TRUE, risk |-> "high"]]
     : q \in Profile}

\* DenyAllPolicy, ConservativePolicy, DefaultPolicy, and one that asks even
\* for what it allows by default.
MCPolicies ==
  {[denyAll |-> TRUE, gated |-> {}, allowDefault |-> FALSE, floor |-> "low"],
   [denyAll |-> FALSE, gated |-> {"high"}, allowDefault |-> FALSE, floor |-> "low"],
   [denyAll |-> FALSE, gated |-> {"high"}, allowDefault |-> TRUE, floor |-> "medium"],
   [denyAll |-> FALSE, gated |-> {"low", "high"}, allowDefault |-> TRUE, floor |-> "low"]}
=============================================================================
