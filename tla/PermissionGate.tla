--------------------------- MODULE PermissionGate ---------------------------
(***************************************************************************)
(* SecurityManager: the policy, the confirmations of its                   *)
(* ConfirmationManager, and the InMemoryAuditStore.  Every method runs     *)
(* without an await, so an action is a call; what interleaves is the calls *)
(* of the program's parts, those of the operator, and the clock.           *)
(*                                                                         *)
(* What the rules and the risk assessor say of a request is data (see      *)
(* `profile').  Left out: texts and their redaction, actors and origins.   *)
(***************************************************************************)
EXTENDS Integers, SequenceFilter

CONSTANTS
  Requests, NoRequest,   \* a free-form event has no request
  Profiles,          \* what the rules and the assessor may say of requests
  Policies,          \* the policies that may be configured
  TTL,               \* ttl_seconds
  MaxEvents,         \* max_events
  Ages,              \* the settings of max_age_seconds; 0 stands for None
  MaxTime, MaxLog    \* bounds of the model: the clock, the events recorded

Risks == {"low", "medium", "high", "critical", "unknown"}
Decisions == {"allow", "deny", "require_confirmation"}
Statuses == {"pending", "approved", "denied", "expired"}

\* Some deny rule matches, some allow rule matches, and risk_level.
Profile == [denied : BOOLEAN, allowed : BOOLEAN, risk : Risks]
\* DenyAllPolicy, or an AllowDenyPolicy with its parameters.
Policy == [denyAll : BOOLEAN, gated : SUBSET Risks, allowDefault : BOOLEAN, floor : Risks]

ASSUME GateAssumption ==
  /\ NoRequest \notin Requests
  /\ Profiles \subseteq [Requests -> Profile]
  /\ Policies \subseteq Policy
  /\ TTL \in Nat \ {0}
  /\ MaxEvents \in Nat \ {0}
  /\ Ages \subseteq Nat
  /\ MaxTime \in Nat
  /\ MaxLog \in Nat

VARIABLES
  profile, policy, maxAge,   \* fixed when the program starts
  now,            \* the clock
  confirmations,  \* _confirmations, in the order of their creation
  events,         \* the events that the store retains
  log,            \* history: every event recorded
  approvals       \* history: the approvals given, and when

setup == <<profile, policy, maxAge>>
gateVars == <<setup, now, confirmations, events, log, approvals>>

\* An event that concerns no confirmation has 0 in its place.
Confirmation == [request : Requests, status : Statuses, expires : Nat]
Event == [request : Requests \cup {NoRequest}, decision : Decisions \cup {"free"},
          confirmation : Nat, at : Nat]

TypeOK ==
  /\ profile \in Profiles
  /\ policy \in Policies
  /\ maxAge \in Ages
  /\ now \in Nat
  /\ confirmations \in Seq(Confirmation)
  /\ events \in Seq(Event)
  /\ log \in Seq(Event)
  /\ approvals \subseteq [confirmation : Nat, at : Nat]

GateInit ==
  /\ profile \in Profiles
  /\ policy \in Policies
  /\ maxAge \in Ages
  /\ now = 0
  /\ confirmations = <<>>
  /\ events = <<>>
  /\ log = <<>>
  /\ approvals = {}

-----------------------------------------------------------------------------
(* The policy.                                                             *)

risk_rank == [low |-> 1, medium |-> 2, high |-> 3, critical |-> 4, unknown |-> 5]

\* An allow rule, or the default for small risks, covers the request.
Covered(q) ==
  q.allowed \/ (policy.allowDefault /\ risk_rank[q.risk] <= risk_rank[policy.floor])

\* Mutant: an allow rule is looked for first.
EvaluateAllowFirst(r) ==
  LET q == profile[r]
  IN  IF policy.denyAll \/ ~ Covered(q) THEN "deny"
      ELSE IF q.risk \in policy.gated THEN "require_confirmation"
      ELSE "allow"

\* AllowDenyPolicy.evaluate and DenyAllPolicy.evaluate
Evaluate(r) ==
  LET q == profile[r]
  IN  IF \/ policy.denyAll
         \/ q.denied
         \/ q.risk \in {"unknown", "critical"}
         \/ ~ Covered(q)
        THEN "deny"
      ELSE IF q.risk \in policy.gated THEN "require_confirmation"
      ELSE "allow"

-----------------------------------------------------------------------------
(* The audit store.                                                        *)

\* The retained events, when s is what cleanup finds.
Recent(s) ==
  IF maxAge = 0 THEN s ELSE Keep(s, {e \in Elems(s) : now - e.at <= maxAge})

Retain(s) ==
  LET kept == Recent(s)
  IN  IF Len(kept) > MaxEvents
        THEN SubSeq(kept, Len(kept) - MaxEvents + 1, Len(kept))
        ELSE kept

\* AuditLogger.log and record
Record(r, d, c) ==
  LET e == [request |-> r, decision |-> d, confirmation |-> c, at |-> now]
  IN  /\ Len(log) < MaxLog
      /\ log' = Append(log, e)
      /\ events' = Retain(Append(events, e))

-----------------------------------------------------------------------------
(* Operations.                                                             *)

Expired(c) == confirmations[c].expires <= now

\* Mutant: any approval will do.
AnyApproval(c, r) ==
  /\ c \in DOMAIN confirmations
  /\ confirmations[c].status = "approved"
  /\ ~ Expired(c)

\* is_active_approval_for
ActiveApprovalFor(c, r) ==
  /\ c \in DOMAIN confirmations
  /\ confirmations[c].request = r
  /\ confirmations[c].status = "approved"
  /\ ~ Expired(c)

\* expires_at of a confirmation created now
Deadline == now + TTL

\* ConfirmationManager.create
CreateConfirmation(r) ==
  confirmations' = Append(confirmations,
    [request |-> r, status |-> "pending", expires |-> Deadline])

\* Mutant: a request that must be confirmed is not audited.
CheckUnaudited(r, c) ==
  /\ \/ /\ Evaluate(r) # "require_confirmation"
        /\ Record(r, Evaluate(r), 0)
        /\ UNCHANGED confirmations
     \/ /\ Evaluate(r) = "require_confirmation"
        /\ ActiveApprovalFor(c, r)
        /\ Record(r, "allow", c)
        /\ UNCHANGED confirmations
     \/ /\ Evaluate(r) = "require_confirmation"
        /\ Len(confirmations) < MaxLog
        /\ CreateConfirmation(r)
        /\ UNCHANGED <<events, log>>
  /\ UNCHANGED <<setup, now, approvals>>

\* check(r, approved_confirmation_id = c), 0 being None.
Check(r, c) ==
  /\ \/ /\ Evaluate(r) # "require_confirmation"
        /\ Record(r, Evaluate(r), 0)
        /\ UNCHANGED confirmations
     \/ /\ Evaluate(r) = "require_confirmation"
        /\ ActiveApprovalFor(c, r)
        /\ Record(r, "allow", c)
        /\ UNCHANGED confirmations
     \/ /\ Evaluate(r) = "require_confirmation"
        /\ ~ ActiveApprovalFor(c, r)
        /\ CreateConfirmation(r)
        /\ Record(r, "require_confirmation", Len(confirmations'))
  /\ UNCHANGED <<setup, now, approvals>>

\* audit_event: an event that a caller words itself.
AuditEvent ==
  /\ Record(NoRequest, "free", 0)
  /\ UNCHANGED <<setup, now, confirmations, approvals>>

\* _get_resolvable and the assignment after it.  A confirmation that is too
\* late becomes expired, and the call raises.
Resolve(c, s) ==
  /\ c \in DOMAIN confirmations
  /\ confirmations[c].status = "pending"
  /\ confirmations' = [confirmations EXCEPT ![c].status = IF Expired(c) THEN "expired" ELSE s]

Approve(c) ==
  /\ Resolve(c, "approved")
  /\ approvals' = IF Expired(c) THEN approvals
                  ELSE approvals \cup {[confirmation |-> c, at |-> now]}
  /\ UNCHANGED <<setup, now, events, log>>

Deny(c) ==
  /\ Resolve(c, "denied")
  /\ UNCHANGED <<setup, now, events, log, approvals>>

\* expire, also at the head of pending
Expire ==
  /\ confirmations' = [c \in DOMAIN confirmations |->
       IF confirmations[c].status = "pending" /\ Expired(c)
         THEN [confirmations[c] EXCEPT !.status = "expired"]
         ELSE confirmations[c]]
  /\ UNCHANGED <<setup, now, events, log, approvals>>

Tick ==
  /\ now < MaxTime
  /\ now' = now + 1
  /\ UNCHANGED <<setup, confirmations, events, log, approvals>>

GateNext ==
  \/ \E r \in Requests, c \in {0} \cup DOMAIN confirmations : Check(r, c)
  \/ AuditEvent
  \/ \E c \in DOMAIN confirmations : Approve(c) \/ Deny(c)
  \/ Expire
  \/ Tick

GateSpec == GateInit /\ [][GateNext]_gateVars

-----------------------------------------------------------------------------
(* Properties.                                                             *)

\* Whatever was allowed although its risk is gated was shown to a human and
\* approved: by an earlier check of the same request, with an approval given
\* before the confirmation expired and used before it did.
ApprovedInTime ==
  \A i \in 1..Len(log) :
    LET e == log[i]
        c == e.confirmation
    IN  /\ e.decision = "allow"
        /\ e.request \in Requests
        /\ profile[e.request].risk \in policy.gated
        => /\ c \in DOMAIN confirmations
           /\ confirmations[c].request = e.request
           /\ confirmations[c].status = "approved"
           /\ e.at < confirmations[c].expires
           /\ \E a \in approvals :
                a.confirmation = c /\ a.at <= e.at /\ a.at < confirmations[c].expires

\* A request that a deny rule matches, or whose risk is unknown or critical,
\* is never allowed, whatever was approved and whatever the policy.
FailsClosed ==
  \A i \in 1..Len(log) :
    log[i].request \in Requests /\ log[i].decision = "allow" =>
      LET q == profile[log[i].request]
      IN  ~ policy.denyAll /\ ~ q.denied /\ q.risk \notin {"unknown", "critical"}

\* A confirmation is resolved once: an approval is never taken back by a late
\* denial or by a sweep, nor a denial by an approval.
ResolvedOnce ==
  [][\A c \in DOMAIN confirmations :
       confirmations[c].status # "pending" => confirmations'[c] = confirmations[c]]_gateVars

\* Every confirmation goes back to one audited check, which named it and the
\* request that it is for.
ConfirmationsAreAudited ==
  \A c \in DOMAIN confirmations : \E i \in 1..Len(log) :
    /\ log[i].decision = "require_confirmation"
    /\ log[i].confirmation = c
    /\ log[i].request = confirmations[c].request
    /\ log[i].at + TTL = confirmations[c].expires
=============================================================================
