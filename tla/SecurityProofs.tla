--------------------------- MODULE SecurityProofs ---------------------------
(***************************************************************************)
(* What security promises, for every instance: what the permission gate    *)
(* grants, for any requests, policies, limits and lengths of the history;  *)
(* what a tool may touch, for all file systems, roots and paths; and that  *)
(* the tables of the browser provider agree at every await.                *)
(***************************************************************************)
EXTENDS PermissionGate, ComputerTools, SequenceFilterProofs, TLAPS

(***************************************************************************)
(* The permission gate.                                                    *)
(***************************************************************************)

\* An approved confirmation has been approved in time.
ApprovalsAreRecorded ==
  \A c \in DOMAIN confirmations :
    confirmations[c].status = "approved" =>
      \E a \in approvals :
        a.confirmation = c /\ a.at <= now /\ a.at < confirmations[c].expires

\* The inductive invariant.
GateInv ==
  /\ TypeOK
  /\ ApprovedInTime
  /\ FailsClosed
  /\ ConfirmationsAreAudited
  /\ ApprovalsAreRecorded

-----------------------------------------------------------------------------
(* The audit store.                                                        *)

\* What the store retains of a sequence of events is one.
LEMMA RetainType ==
  ASSUME GateAssumption, NEW s \in Seq(Event)
  PROVE  Retain(s) \in Seq(Event)
<1> DEFINE kept == Recent(s)
<1>1. kept \in Seq(Event)
  BY KeepElems DEF Recent
<1>2. Len(kept) \in Nat
  BY <1>1
<1> HIDE DEF kept
<1>3. CASE Len(kept) > MaxEvents
  <2>1. SubSeq(kept, Len(kept) - MaxEvents + 1, Len(kept)) \in Seq(Event)
    BY <1>1, <1>2, <1>3 DEF GateAssumption
  <2> QED
    BY <2>1, <1>3 DEF Retain, kept
<1>4. CASE ~ (Len(kept) > MaxEvents)
  BY <1>1, <1>4 DEF Retain, kept
<1> QED
  BY <1>3, <1>4

\* A recorded event is the last of the history, the others stay.
LEMMA RecordProperties ==
  ASSUME GateAssumption, TypeOK,
         NEW r \in Requests \cup {NoRequest}, NEW d \in Decisions \cup {"free"},
         NEW c \in Nat, Record(r, d, c)
  PROVE  /\ log' \in Seq(Event)
         /\ events' \in Seq(Event)
         /\ Len(log') = Len(log) + 1
         /\ \A i \in 1..Len(log) : log'[i] = log[i]
         /\ log'[Len(log) + 1] =
              [request |-> r, decision |-> d, confirmation |-> c, at |-> now]
<1> DEFINE e == [request |-> r, decision |-> d, confirmation |-> c, at |-> now]
<1>1. e \in Event
  BY DEF Event, TypeOK
<1>2. log \in Seq(Event) /\ events \in Seq(Event)
  BY DEF TypeOK
<1>3. log' = Append(log, e) /\ events' = Retain(Append(events, e))
  BY DEF Record
<1> HIDE DEF e
<1>4. Append(events, e) \in Seq(Event)
  BY <1>1, <1>2
<1>5. events' \in Seq(Event)
  BY <1>3, <1>4, RetainType
<1>6. /\ log' \in Seq(Event)
      /\ Len(log') = Len(log) + 1
      /\ \A i \in 1..Len(log) : log'[i] = log[i]
      /\ log'[Len(log) + 1] = e
  BY <1>1, <1>2, <1>3
<1> QED
  BY <1>5, <1>6 DEF e

-----------------------------------------------------------------------------
(* The invariant.                                                          *)

LEMMA GateInitially == GateAssumption /\ GateInit => GateInv
<1> SUFFICES ASSUME GateAssumption, GateInit PROVE GateInv
  OBVIOUS
<1>1. TypeOK
  BY DEF GateInit, TypeOK
<1>2. Len(log) = 0 /\ DOMAIN confirmations = {}
  BY DEF GateInit
<1> QED
  BY <1>1, <1>2 DEF GateInv, ApprovedInTime, FailsClosed, ConfirmationsAreAudited,
                    ApprovalsAreRecorded

\* A check that opens no confirmation: only the history grows, by an event
\* that the invariant permits.
LEMMA RecordOnly ==
  ASSUME GateAssumption, GateInv,
         NEW r \in Requests \cup {NoRequest}, NEW d \in Decisions \cup {"free"},
         NEW c \in Nat, Record(r, d, c),
         UNCHANGED <<setup, now, confirmations, approvals>>,
         r \in Requests /\ d = "allow" =>
           /\ ~ policy.denyAll /\ ~ profile[r].denied
           /\ profile[r].risk \notin {"unknown", "critical"}
           /\ profile[r].risk \in policy.gated => ActiveApprovalFor(c, r)
  PROVE  GateInv'
<1> USE DEF GateInv
<1>1. /\ log' \in Seq(Event)
      /\ events' \in Seq(Event)
      /\ Len(log') = Len(log) + 1
      /\ \A i \in 1..Len(log) : log'[i] = log[i]
      /\ log'[Len(log) + 1] =
           [request |-> r, decision |-> d, confirmation |-> c, at |-> now]
  BY RecordProperties
<1>2. /\ profile' = profile /\ policy' = policy /\ maxAge' = maxAge /\ now' = now
      /\ confirmations' = confirmations /\ approvals' = approvals
  BY DEF setup
<1>3. Len(log) \in Nat /\ now \in Nat /\ confirmations \in Seq(Confirmation)
  BY DEF TypeOK
<1>4. TypeOK'
  BY <1>1, <1>2 DEF TypeOK
<1>5. ApprovedInTime'
  <2> SUFFICES ASSUME NEW i \in 1..Len(log'),
                      log'[i].decision = "allow", log'[i].request \in Requests,
                      profile[log'[i].request].risk \in policy.gated
               PROVE  LET e == log'[i]
                          k == e.confirmation
                      IN  /\ k \in DOMAIN confirmations
                          /\ confirmations[k].request = e.request
                          /\ confirmations[k].status = "approved"
                          /\ e.at < confirmations[k].expires
                          /\ \E a \in approvals :
                               a.confirmation = k /\ a.at <= e.at
                                 /\ a.at < confirmations[k].expires
    BY <1>2 DEF ApprovedInTime
  <2>1. CASE i \in 1..Len(log)
    BY <2>1, <1>1 DEF ApprovedInTime
  <2>2. CASE i = Len(log) + 1
    <3>1. log'[i].confirmation = c /\ log'[i].at = now /\ log'[i].request = r /\ d = "allow"
      BY <2>2, <1>1
    <3>2. ActiveApprovalFor(c, r)
      BY <3>1
    <3>3. /\ c \in DOMAIN confirmations
          /\ confirmations[c].request = r
          /\ confirmations[c].status = "approved"
          /\ ~ (confirmations[c].expires <= now)
      BY <3>2 DEF ActiveApprovalFor, Expired
    <3>4. c \in 1..Len(confirmations) /\ confirmations[c] \in Confirmation
      BY <3>3, <1>3
    <3>6. confirmations[c].expires \in Nat
      BY <3>4 DEF Confirmation
    <3>5. \E a \in approvals :
            a.confirmation = c /\ a.at <= now /\ a.at < confirmations[c].expires
      BY <3>3 DEF ApprovalsAreRecorded
    <3> QED
      BY <3>1, <3>3, <3>5, <3>6, <1>3
  <2> QED
    BY <2>1, <2>2, <1>1, <1>3
<1>6. FailsClosed'
  <2> SUFFICES ASSUME NEW i \in 1..Len(log'),
                      log'[i].request \in Requests, log'[i].decision = "allow"
               PROVE  /\ ~ policy.denyAll /\ ~ profile[log'[i].request].denied
                      /\ profile[log'[i].request].risk \notin {"unknown", "critical"}
    BY <1>2 DEF FailsClosed
  <2>1. CASE i \in 1..Len(log)
    BY <2>1, <1>1 DEF FailsClosed
  <2>2. CASE i = Len(log) + 1
    BY <2>2, <1>1
  <2> QED
    BY <2>1, <2>2, <1>1, <1>3
<1>7. ConfirmationsAreAudited'
  <2> SUFFICES ASSUME NEW k \in DOMAIN confirmations
               PROVE  \E i \in 1..Len(log') :
                        /\ log'[i].decision = "require_confirmation"
                        /\ log'[i].confirmation = k
                        /\ log'[i].request = confirmations[k].request
                        /\ log'[i].at + TTL = confirmations[k].expires
    BY <1>2 DEF ConfirmationsAreAudited
  <2>1. PICK i \in 1..Len(log) :
          /\ log[i].decision = "require_confirmation"
          /\ log[i].confirmation = k
          /\ log[i].request = confirmations[k].request
          /\ log[i].at + TTL = confirmations[k].expires
    BY DEF ConfirmationsAreAudited
  <2>2. i \in 1..Len(log') /\ log'[i] = log[i]
    BY <1>1, <1>3
  <2> QED
    BY <2>1, <2>2
<1>8. ApprovalsAreRecorded'
  BY <1>2 DEF ApprovalsAreRecorded
<1> QED
  BY <1>4, <1>5, <1>6, <1>7, <1>8

\* A check that opens a confirmation.
LEMMA CreateAndRecord ==
  ASSUME GateAssumption, GateInv, NEW r \in Requests, CreateConfirmation(r),
         Record(r, "require_confirmation", Len(confirmations')),
         UNCHANGED <<setup, now, approvals>>
  PROVE  GateInv'
<1> USE DEF GateInv
<1> DEFINE n == Len(confirmations) + 1
           new == [request |-> r, status |-> "pending", expires |-> now + TTL]
<1>1. /\ profile' = profile /\ policy' = policy /\ maxAge' = maxAge /\ now' = now
      /\ approvals' = approvals
  BY DEF setup
<1>2. /\ Len(log) \in Nat /\ now \in Nat /\ TTL \in Nat
      /\ confirmations \in Seq(Confirmation) /\ Len(confirmations) \in Nat
  BY DEF TypeOK, GateAssumption
<1>3. new \in Confirmation
  BY <1>2 DEF Confirmation, Statuses
<1>4. confirmations' = Append(confirmations, new)
  BY DEF CreateConfirmation, Deadline
<1> HIDE DEF new
<1>5. /\ confirmations' \in Seq(Confirmation)
      /\ Len(confirmations') = n
      /\ DOMAIN confirmations' = 1..n
      /\ \A c \in DOMAIN confirmations : confirmations'[c] = confirmations[c]
      /\ confirmations'[n] = new
  BY <1>2, <1>3, <1>4
<1>6. /\ log' \in Seq(Event)
      /\ events' \in Seq(Event)
      /\ Len(log') = Len(log) + 1
      /\ \A i \in 1..Len(log) : log'[i] = log[i]
      /\ log'[Len(log) + 1] =
           [request |-> r, decision |-> "require_confirmation", confirmation |-> n, at |-> now]
  BY <1>2, <1>5, RecordProperties DEF Decisions
<1>7. DOMAIN confirmations = 1..Len(confirmations) /\ n = Len(confirmations) + 1
  BY <1>2
<1> HIDE DEF n
<1>8. TypeOK'
  BY <1>1, <1>5, <1>6 DEF TypeOK
<1>9. ApprovedInTime'
  <2>1. \A i \in 1..Len(log') : log'[i].decision = "allow" =>
          i \in 1..Len(log) /\ log'[i] = log[i]
    BY <1>2, <1>6
  <2>2. \A c \in DOMAIN confirmations :
          c \in DOMAIN confirmations' /\ confirmations'[c] = confirmations[c]
    BY <1>2, <1>5, <1>7
  <2> QED
    BY <1>1, <2>1, <2>2 DEF ApprovedInTime
<1>10. FailsClosed'
  <2>1. \A i \in 1..Len(log') : log'[i].decision = "allow" =>
          i \in 1..Len(log) /\ log'[i] = log[i]
    BY <1>2, <1>6
  <2> QED
    BY <1>1, <2>1 DEF FailsClosed
<1>11. ConfirmationsAreAudited'
  <2> SUFFICES ASSUME NEW c \in 1..n
               PROVE  \E i \in 1..Len(log') :
                        /\ log'[i].decision = "require_confirmation"
                        /\ log'[i].confirmation = c
                        /\ log'[i].request = confirmations'[c].request
                        /\ log'[i].at + TTL = confirmations'[c].expires
    BY <1>5 DEF ConfirmationsAreAudited
  <2>1. CASE c \in DOMAIN confirmations
    <3>1. PICK i \in 1..Len(log) :
            /\ log[i].decision = "require_confirmation"
            /\ log[i].confirmation = c
            /\ log[i].request = confirmations[c].request
            /\ log[i].at + TTL = confirmations[c].expires
      BY <2>1 DEF ConfirmationsAreAudited
    <3>2. i \in 1..Len(log') /\ log'[i] = log[i] /\ confirmations'[c] = confirmations[c]
      BY <1>2, <1>5, <1>6, <2>1
    <3> QED
      BY <3>1, <3>2
  <2>2. CASE c = n
    <3>1. Len(log) + 1 \in 1..Len(log')
      BY <1>2, <1>6
    <3>2. confirmations'[c].request = r /\ confirmations'[c].expires = now + TTL
      BY <1>5, <2>2 DEF new
    <3> QED
      BY <3>1, <3>2, <2>2, <1>6
  <2> QED
    BY <2>1, <2>2, <1>2, <1>7
<1>12. ApprovalsAreRecorded'
  <2>1. \A c \in DOMAIN confirmations' : confirmations'[c].status = "approved" =>
          c \in DOMAIN confirmations /\ confirmations'[c] = confirmations[c]
    BY <1>2, <1>5, <1>7 DEF new
  <2> QED
    BY <1>1, <2>1 DEF ApprovalsAreRecorded
<1> QED
  BY <1>8, <1>9, <1>10, <1>11, <1>12

\* Confirmations that are pending may be resolved, approved ones with a record.
LEMMA ResolvePending ==
  ASSUME GateAssumption, GateInv,
         confirmations' \in Seq(Confirmation),
         DOMAIN confirmations' = DOMAIN confirmations,
         approvals \subseteq approvals',
         approvals' \subseteq [confirmation : Nat, at : Nat],
         \A c \in DOMAIN confirmations :
           /\ confirmations'[c].request = confirmations[c].request
           /\ confirmations'[c].expires = confirmations[c].expires
           /\ confirmations[c].status # "pending" => confirmations'[c] = confirmations[c]
           /\ confirmations'[c].status = "approved" =>
                \/ confirmations[c].status = "approved"
                \/ \E a \in approvals' :
                     a.confirmation = c /\ a.at <= now /\ a.at < confirmations[c].expires,
         UNCHANGED <<setup, now, events, log>>
  PROVE  GateInv'
<1> USE DEF GateInv
<1>1. /\ profile' = profile /\ policy' = policy /\ maxAge' = maxAge /\ now' = now
      /\ events' = events /\ log' = log
  BY DEF setup
<1>2. TypeOK'
  BY <1>1 DEF TypeOK
<1>3. ApprovedInTime'
  <2>1. \A c \in DOMAIN confirmations :
          confirmations[c].status = "approved" => confirmations'[c] = confirmations[c]
    OBVIOUS
  <2> QED
    BY <1>1, <2>1 DEF ApprovedInTime
<1>4. FailsClosed'
  BY <1>1 DEF FailsClosed
<1>5. ConfirmationsAreAudited'
  BY <1>1 DEF ConfirmationsAreAudited
<1>6. ApprovalsAreRecorded'
  BY <1>1 DEF ApprovalsAreRecorded
<1> QED
  BY <1>2, <1>3, <1>4, <1>5, <1>6

\* A confirmation whose status changes stays one.
LEMMA RestatusType ==
  ASSUME NEW q \in Confirmation, NEW s \in Statuses
  PROVE  /\ [q EXCEPT !.status = s] \in Confirmation
         /\ [q EXCEPT !.status = s].request = q.request
         /\ [q EXCEPT !.status = s].expires = q.expires
         /\ [q EXCEPT !.status = s].status = s
BY DEF Confirmation

\* The confirmations after one of them was resolved.
LEMMA ResolveType ==
  ASSUME NEW c \in DOMAIN confirmations, confirmations \in Seq(Confirmation),
         NEW s \in Statuses,
         confirmations' = [confirmations EXCEPT ![c].status = s]
  PROVE  confirmations' \in Seq(Confirmation) /\ DOMAIN confirmations' = DOMAIN confirmations
<1> DEFINE q == [confirmations[c] EXCEPT !.status = s]
<1>1. confirmations[c] \in Confirmation
  OBVIOUS
<1>2. q \in Confirmation
  BY <1>1, RestatusType
<1>3. confirmations' = [confirmations EXCEPT ![c] = q]
  OBVIOUS
<1> HIDE DEF q
<1> QED
  BY <1>2, <1>3

LEMMA GateStep == GateAssumption /\ GateInv /\ [GateNext]_gateVars => GateInv'
<1> SUFFICES ASSUME GateAssumption, GateInv, [GateNext]_gateVars PROVE GateInv'
  OBVIOUS
<1>0. TypeOK /\ confirmations \in Seq(Confirmation)
  BY DEF GateInv, TypeOK
<1>1. ASSUME NEW r \in Requests, NEW c \in {0} \cup DOMAIN confirmations, Check(r, c)
      PROVE  GateInv'
  <2>0. c \in Nat /\ profile[r].risk \in Risks /\ Evaluate(r) \in Decisions
    BY <1>0 DEF Evaluate, Decisions, TypeOK, GateAssumption, Profile
  <2>1. CASE /\ Evaluate(r) # "require_confirmation"
             /\ Record(r, Evaluate(r), 0)
             /\ UNCHANGED confirmations
    <3>1. Evaluate(r) = "allow" =>
            /\ ~ policy.denyAll /\ ~ profile[r].denied
            /\ profile[r].risk \notin {"unknown", "critical"}
            /\ profile[r].risk \notin policy.gated
      BY DEF Evaluate
    <3>2. UNCHANGED <<setup, now, confirmations, approvals>>
      BY <1>1, <2>1 DEF Check
    <3> QED
      BY <2>0, <2>1, <3>1, <3>2, RecordOnly
  <2>2. CASE /\ Evaluate(r) = "require_confirmation"
             /\ ActiveApprovalFor(c, r)
             /\ Record(r, "allow", c)
             /\ UNCHANGED confirmations
    <3>1. /\ ~ policy.denyAll /\ ~ profile[r].denied
          /\ profile[r].risk \notin {"unknown", "critical"}
      BY <2>2 DEF Evaluate
    <3>2. UNCHANGED <<setup, now, confirmations, approvals>>
      BY <1>1, <2>2 DEF Check
    <3> QED
      BY <2>0, <2>2, <3>1, <3>2, RecordOnly DEF Decisions
  <2>3. CASE /\ CreateConfirmation(r)
             /\ Record(r, "require_confirmation", Len(confirmations'))
    <3>1. UNCHANGED <<setup, now, approvals>>
      BY <1>1 DEF Check
    <3> QED
      BY <2>3, <3>1, CreateAndRecord
  <2> QED
    BY <1>1, <2>1, <2>2, <2>3 DEF Check
<1>2. CASE AuditEvent
  <2>1. Record(NoRequest, "free", 0) /\ UNCHANGED <<setup, now, confirmations, approvals>>
    BY <1>2 DEF AuditEvent
  <2> QED
    BY <2>1, RecordOnly DEF GateAssumption
<1>3. ASSUME NEW c \in DOMAIN confirmations, Approve(c) PROVE GateInv'
  <2>1. /\ confirmations[c].status = "pending"
        /\ confirmations' = [confirmations EXCEPT
             ![c].status = IF Expired(c) THEN "expired" ELSE "approved"]
        /\ approvals' = IF Expired(c) THEN approvals
                        ELSE approvals \cup {[confirmation |-> c, at |-> now]}
        /\ UNCHANGED <<setup, now, events, log>>
    BY <1>3 DEF Approve, Resolve
  <2>2. /\ c \in Nat /\ now \in Nat /\ confirmations[c].expires \in Nat
        /\ approvals \subseteq [confirmation : Nat, at : Nat]
    <3>1. confirmations[c] \in Confirmation /\ c \in 1..Len(confirmations)
      BY <1>0
    <3> QED
      BY <3>1, <1>0 DEF TypeOK, Confirmation
  <2>3. confirmations' \in Seq(Confirmation) /\ DOMAIN confirmations' = DOMAIN confirmations
    <3>1. (IF Expired(c) THEN "expired" ELSE "approved") \in Statuses
      BY DEF Statuses
    <3> QED
      BY <1>0, <2>1, <3>1, ResolveType
  <2>4. ~ Expired(c) => now < confirmations[c].expires
    BY <2>2 DEF Expired
  <2>5. /\ approvals \subseteq approvals'
        /\ approvals' \subseteq [confirmation : Nat, at : Nat]
        /\ ~ Expired(c) => [confirmation |-> c, at |-> now] \in approvals'
    BY <2>1, <2>2
  <2>6. \A k \in DOMAIN confirmations :
          /\ confirmations'[k].request = confirmations[k].request
          /\ confirmations'[k].expires = confirmations[k].expires
          /\ k # c => confirmations'[k] = confirmations[k]
          /\ k = c /\ confirmations'[k].status = "approved" => ~ Expired(c)
    BY <1>0, <2>1 DEF Confirmation
  <2>7. \A k \in DOMAIN confirmations :
          confirmations'[k].status = "approved" =>
            \/ confirmations[k].status = "approved"
            \/ \E a \in approvals' :
                 a.confirmation = k /\ a.at <= now /\ a.at < confirmations[k].expires
    BY <2>2, <2>4, <2>5, <2>6
  <2> QED
    BY <2>1, <2>3, <2>5, <2>6, <2>7, ResolvePending
<1>4. ASSUME NEW c \in DOMAIN confirmations, Deny(c) PROVE GateInv'
  <2>1. /\ confirmations[c].status = "pending"
        /\ confirmations' = [confirmations EXCEPT
             ![c].status = IF Expired(c) THEN "expired" ELSE "denied"]
        /\ UNCHANGED <<setup, now, events, log, approvals>>
    BY <1>4 DEF Deny, Resolve
  <2>2. confirmations' \in Seq(Confirmation) /\ DOMAIN confirmations' = DOMAIN confirmations
    <3>1. (IF Expired(c) THEN "expired" ELSE "denied") \in Statuses
      BY DEF Statuses
    <3> QED
      BY <1>0, <2>1, <3>1, ResolveType
  <2>3. \A k \in DOMAIN confirmations :
          /\ confirmations'[k].request = confirmations[k].request
          /\ confirmations'[k].expires = confirmations[k].expires
          /\ k # c => confirmations'[k] = confirmations[k]
          /\ k = c => confirmations'[k].status # "approved"
    BY <1>0, <2>1 DEF Confirmation
  <2>4. approvals' \subseteq [confirmation : Nat, at : Nat]
    BY <1>0, <2>1 DEF TypeOK
  <2> QED
    BY <2>1, <2>2, <2>3, <2>4, ResolvePending
<1>5. CASE Expire
  <2>1. /\ confirmations' = [c \in DOMAIN confirmations |->
             IF confirmations[c].status = "pending" /\ Expired(c)
               THEN [confirmations[c] EXCEPT !.status = "expired"]
               ELSE confirmations[c]]
        /\ UNCHANGED <<setup, now, events, log, approvals>>
    BY <1>5 DEF Expire
  <2>2. confirmations' \in Seq(Confirmation) /\ DOMAIN confirmations' = DOMAIN confirmations
    <3>1. ASSUME NEW c \in DOMAIN confirmations PROVE confirmations'[c] \in Confirmation
      <4>1. confirmations[c] \in Confirmation /\ "expired" \in Statuses
        BY <1>0 DEF Statuses
      <4>2. [confirmations[c] EXCEPT !.status = "expired"] \in Confirmation
        BY <4>1, RestatusType
      <4> QED
        BY <2>1, <4>1, <4>2
    <3>2. confirmations' = [c \in 1..Len(confirmations) |-> confirmations'[c]]
            /\ Len(confirmations) \in Nat /\ DOMAIN confirmations = 1..Len(confirmations)
      BY <1>0, <2>1
    <3> QED
      BY <3>1, <3>2
  <2>3. \A c \in DOMAIN confirmations :
          /\ confirmations'[c].request = confirmations[c].request
          /\ confirmations'[c].expires = confirmations[c].expires
          /\ confirmations[c].status # "pending" => confirmations'[c] = confirmations[c]
          /\ confirmations'[c].status = "approved" => confirmations[c].status = "approved"
    BY <1>0, <2>1 DEF Confirmation
  <2>4. approvals' \subseteq [confirmation : Nat, at : Nat]
    BY <1>0, <2>1 DEF TypeOK
  <2> QED
    BY <2>1, <2>2, <2>3, <2>4, ResolvePending
<1>6. CASE Tick
  <2>1. now' = now + 1 /\ UNCHANGED <<setup, confirmations, events, log, approvals>>
    BY <1>6 DEF Tick
  <2>2. \A a \in approvals : a.at \in Nat
    BY <1>0 DEF TypeOK
  <2>3. ApprovalsAreRecorded'
    BY <1>0, <2>1, <2>2 DEF GateInv, ApprovalsAreRecorded, TypeOK
  <2> QED
    BY <2>1, <2>3 DEF GateInv, TypeOK, setup, ApprovedInTime, FailsClosed,
                      ConfirmationsAreAudited
<1>7. CASE UNCHANGED gateVars
  BY <1>7 DEF gateVars, setup, GateInv, TypeOK, ApprovedInTime, FailsClosed,
              ConfirmationsAreAudited, ApprovalsAreRecorded
<1> QED
  BY <1>1, <1>2, <1>3, <1>4, <1>5, <1>6, <1>7 DEF GateNext

-----------------------------------------------------------------------------
(* The theorems.                                                           *)

THEOREM GateInvariant == GateSpec => []GateInv
<1>1. GateInit => GateInv
  BY GateInitially, GateAssumption
<1>2. GateInv /\ [GateNext]_gateVars => GateInv'
  BY GateStep, GateAssumption
<1> QED
  BY <1>1, <1>2, PTL DEF GateSpec

\* Type correctness of the security manager's state.
THEOREM GateTypeCorrect == GateSpec => []TypeOK
<1>1. GateInv => TypeOK
  BY DEF GateInv
<1> QED
  BY <1>1, GateInvariant, PTL

\* Every allowed request of a gated risk has an approval of its own, given
\* and used before the confirmation expired (check, is_active_approval_for).
THEOREM GatedMeansApproved == GateSpec => []ApprovedInTime
<1>1. GateInv => ApprovedInTime
  BY DEF GateInv
<1> QED
  BY <1>1, GateInvariant, PTL

\* No confirmation overrides a deny rule, an unknown or a critical risk
\* (AllowDenyPolicy.evaluate).
THEOREM PolicyFailsClosed == GateSpec => []FailsClosed
<1>1. GateInv => FailsClosed
  BY DEF GateInv
<1> QED
  BY <1>1, GateInvariant, PTL

\* Every confirmation was opened by one audited check (check, create).
THEOREM ConfirmationsHaveChecks == GateSpec => []ConfirmationsAreAudited
<1>1. GateInv => ConfirmationsAreAudited
  BY DEF GateInv
<1> QED
  BY <1>1, GateInvariant, PTL

\* What ResolvedOnce says of a step.
ResolvedStay == \A c \in DOMAIN confirmations :
  confirmations[c].status # "pending" => confirmations'[c] = confirmations[c]

\* approve, deny and expire never change a resolved confirmation.
THEOREM ResolutionIsFinal == GateSpec => ResolvedOnce
<1>1. GateInv /\ [GateNext]_gateVars => ResolvedStay
  <2> SUFFICES ASSUME GateInv, [GateNext]_gateVars PROVE ResolvedStay
    OBVIOUS
  <2>0. confirmations \in Seq(Confirmation)
    BY DEF GateInv, TypeOK
  <2>1. ASSUME NEW r \in Requests, NEW c \in {0} \cup DOMAIN confirmations, Check(r, c)
        PROVE  ResolvedStay
    BY <2>0, <2>1 DEF Check, CreateConfirmation, ResolvedStay
  <2>2. ASSUME NEW c \in DOMAIN confirmations, Approve(c) \/ Deny(c)
        PROVE  ResolvedStay
    BY <2>0, <2>2 DEF Approve, Deny, Resolve, ResolvedStay
  <2>3. CASE Expire
    BY <2>3 DEF Expire, ResolvedStay
  <2>4. CASE AuditEvent \/ Tick \/ UNCHANGED gateVars
    BY <2>4 DEF AuditEvent, Tick, gateVars, ResolvedStay
  <2> QED
    BY <2>1, <2>2, <2>3, <2>4 DEF GateNext
<1>2. GateSpec => [][ResolvedStay]_gateVars
  BY <1>1, GateInvariant, PTL DEF GateSpec
<1> QED
  BY <1>2, PTL DEF ResolvedOnce, ResolvedStay

(***************************************************************************)
(* The tools.  Nothing is assumed of how paths resolve: the argument is    *)
(* that what is written is what passed the check, however much later it is *)
(* written.                                                                *)
(***************************************************************************)

\* A place that was accepted is not outside, and its call keeps it while the
\* session is created.
DownloadsAreInside ==
  \A c \in Calls :
    job[c] = "download" \/ (job[c] = "create" /\ place[c].target # <<>>)
      => place[c].target[1] \notin OutsideRoots

FilesAreFunctions == files = [at \in Places |-> files[at]]

JobsAreFunctions ==
  /\ job = [c \in Calls |-> job[c]]
  /\ place = [c \in Calls |-> place[c]]

ConfinementInv == DownloadsAreInside /\ FilesAreFunctions /\ JobsAreFunctions

\* What ensure_within returns is not outside the roots.
LEMMA AcceptedIsInside ==
  ASSUME NEW paths, NEW at \in EnsureWithin(paths)
  PROVE  at \notin OutsideRoots
  BY DEF EnsureWithin, IsWithinRoot, OutsideRoots

LEMMA WriteKeepsOthers ==
  ASSUME NEW at, at \notin OutsideRoots, NEW text, FilesAreFunctions, Write(at, text)
  PROVE  /\ \A o \in OutsideRoots : files'[o] = files[o]
         /\ FilesAreFunctions'
<1>1. \A o \in OutsideRoots : o \in Places /\ o # at
  BY DEF OutsideRoots
<1>2. files' = [files EXCEPT ![at] = <<text>>]
  BY DEF Write
<1>3. files' = [o \in Places |-> IF o = at THEN <<text>> ELSE files[o]]
  BY <1>2 DEF FilesAreFunctions
<1> QED BY <1>1, <1>3 DEF FilesAreFunctions

\* file_create and file_edit.
LEMMA FileStep ==
  ASSUME FilesAreFunctions, FileNext
  PROVE  /\ \A o \in OutsideRoots : files'[o] = files[o]
         /\ FilesAreFunctions'
<1>1. PICK at \in EnsureWithin(Paths), text \in Texts, flag \in BOOLEAN :
        \/ Create(at, text, flag)
        \/ \E old \in Words : Edit(at, old, text, flag)
  BY DEF FileNext
<1>2. at \notin OutsideRoots
  BY <1>1, AcceptedIsInside
<1>3. \E new : Write(at, new)
  BY <1>1 DEF Create, Edit
<1> QED BY <1>2, <1>3, WriteKeepsOthers

\* A call that begins or goes on to another await.
LEMMA AwaitStep ==
  ASSUME ConfinementInv, NEW c \in Calls, NEW j, j \notin {"create", "download"}, Await(c, j), UNCHANGED <<place, files>>
  PROVE  ConfinementInv'
<1>1. job' = [d \in Calls |-> IF d = c THEN j ELSE job[d]]
  BY DEF ConfinementInv, JobsAreFunctions, Await
<1> QED BY <1>1 DEF ConfinementInv, DownloadsAreInside, FilesAreFunctions, JobsAreFunctions, OutsideRoots

\* ensure_session, for a target that was accepted or none.
LEMMA CallStep ==
  ASSUME ConfinementInv, NEW c \in Calls, NEW s, NEW target,
         target # <<>> => target[1] \notin OutsideRoots,
         Call(c, s, target)
  PROVE  ConfinementInv' /\ UNCHANGED files
<1>1. UNCHANGED files
  BY DEF Call
<1>2. CASE Await(c, "over") /\ UNCHANGED place
  BY <1>1, <1>2, AwaitStep
<1>3. CASE \E p, j : /\ Await(c, j) /\ j \in {Work(target), "create"}
                     /\ place' = [place EXCEPT ![c] = Place(s, p, target)]
  <2>1. PICK p, j : /\ Await(c, j) /\ j \in {Work(target), "create"}
                    /\ place' = [place EXCEPT ![c] = Place(s, p, target)]
    BY <1>3
  <2>2. job' = [d \in Calls |-> IF d = c THEN j ELSE job[d]]
    BY <2>1 DEF ConfinementInv, JobsAreFunctions, Await
  <2>3. place' = [d \in Calls |-> IF d = c THEN Place(s, p, target) ELSE place[d]]
    BY <2>1 DEF ConfinementInv, JobsAreFunctions
  <2>4. j = "download" => target # <<>>
    BY <2>1 DEF Work
  <2>5. place'[c].target = target
    BY <2>3 DEF Place
  <2>6. DownloadsAreInside'
    BY <1>1, <2>2, <2>3, <2>4, <2>5 DEF ConfinementInv, DownloadsAreInside, OutsideRoots
  <2> QED BY <1>1, <2>2, <2>3, <2>6 DEF ConfinementInv, FilesAreFunctions, JobsAreFunctions
<1> QED BY <1>1, <1>2, <1>3 DEF Call

\* A call of a tool.
LEMMA BrowserCallStep ==
  ASSUME ConfinementInv, NEW c \in Calls, Act(c) \/ Open(c) \/ Download(c)
  PROVE  ConfinementInv' /\ UNCHANGED files
<1>1. PICK s, target : /\ Call(c, s, target)
                       /\ target = <<>> \/ \E at \in Destinations : target = <<at>>
  BY DEF Act, Open, Download
<1>2. target # <<>> => target[1] \notin OutsideRoots
  <2> SUFFICES ASSUME NEW at \in Destinations, target = <<at>>
               PROVE  target[1] \notin OutsideRoots
    BY <1>1
  <2>1. PICK paths : at \in EnsureWithin(paths)
    BY DEF Destinations
  <2> QED BY <2>1, AcceptedIsInside
<1> QED BY <1>1, <1>2, CallStep

\* The download is saved at the place that its call has kept.
LEMMA SavedStep ==
  ASSUME ConfinementInv, NEW c \in Calls, Saved(c)
  PROVE  /\ ConfinementInv'
         /\ \A o \in OutsideRoots : files'[o] = files[o]
<1>1. PICK text : Write(place[c].target[1], text)
  BY DEF Saved
<1>2. place[c].target[1] \notin OutsideRoots
  BY DEF Saved, ConfinementInv, DownloadsAreInside
<1>3. /\ \A o \in OutsideRoots : files'[o] = files[o]
      /\ FilesAreFunctions'
  BY <1>1, <1>2, WriteKeepsOthers DEF ConfinementInv
<1>4. job' = [d \in Calls |-> IF d = c THEN "size" ELSE job[d]] /\ UNCHANGED place
  BY DEF Saved, Await, ConfinementInv, JobsAreFunctions, provider
<1> QED BY <1>3, <1>4 DEF ConfinementInv, DownloadsAreInside, JobsAreFunctions, OutsideRoots

\* What leaves the files and the calls as they are.
LEMMA ProviderStep ==
  ASSUME ConfinementInv, UNCHANGED <<calls, files>>
  PROVE  ConfinementInv'
  BY DEF calls, ConfinementInv, DownloadsAreInside, FilesAreFunctions, JobsAreFunctions,
         OutsideRoots

LEMMA BrowserStep ==
  ASSUME ConfinementInv, BrowserNext
  PROVE  /\ ConfinementInv'
         /\ \A o \in OutsideRoots : files'[o] = files[o]
<1>1. CASE Start \/ StartStep \/ Stop \/ StopStep \/ StopFails \/ \E s \in Sessions : ClosePage(s)
  <2>1. UNCHANGED <<calls, files>>
    BY <1>1 DEF Start, StartStep, Stop, StopStep, StopFails, ClosePage, calls
  <2> QED BY <2>1, ProviderStep
<1>2. ASSUME NEW c \in Calls, Act(c) \/ Open(c) \/ Download(c)
      PROVE  ConfinementInv' /\ UNCHANGED files
  BY <1>2, BrowserCallStep
<1>3. ASSUME NEW c \in Calls, Saved(c)
      PROVE  /\ ConfinementInv'
             /\ \A o \in OutsideRoots : files'[o] = files[o]
  BY <1>3, SavedStep
<1>4. ASSUME NEW c \in Calls, Fails(c) \/ Acted(c) \/ Sized(c) \/ CancelCall(c)
      PROVE  ConfinementInv' /\ UNCHANGED files
  <2>1. Await(c, "over") /\ UNCHANGED <<place, files>>
    BY <1>4 DEF Fails, Acted, Sized, CancelCall
  <2> QED BY <2>1, AwaitStep
<1>5. ASSUME NEW c \in Calls, Created(c)
      PROVE  ConfinementInv' /\ UNCHANGED files
  <2>1. job[c] = "create" /\ Await(c, Work(place[c].target)) /\ UNCHANGED <<place, files>>
    BY <1>5 DEF Created
  <2>2. job' = [d \in Calls |-> IF d = c THEN Work(place[c].target) ELSE job[d]]
    BY <2>1 DEF ConfinementInv, JobsAreFunctions, Await
  <2>3. DownloadsAreInside'
    BY <2>1, <2>2 DEF Work, ConfinementInv, DownloadsAreInside, OutsideRoots
  <2> QED BY <2>1, <2>2, <2>3 DEF ConfinementInv, FilesAreFunctions, JobsAreFunctions
<1> QED BY <1>1, <1>2, <1>3, <1>4, <1>5 DEF BrowserNext

LEMMA StepConfines ==
  ASSUME ConfinementInv, [Next]_vars
  PROVE  /\ ConfinementInv'
         /\ [\A o \in OutsideRoots : files'[o] = files[o]]_files
<1>1. CASE UNCHANGED vars
  BY <1>1, ProviderStep DEF vars, browserVars
<1>2. CASE FileNext /\ UNCHANGED <<browserVars, terminalVars>>
  BY <1>2, FileStep
     DEF ConfinementInv, DownloadsAreInside, JobsAreFunctions, OutsideRoots, browserVars, calls
<1>3. CASE BrowserNext /\ UNCHANGED terminalVars
  BY <1>3, BrowserStep
<1>4. CASE TerminalNext /\ UNCHANGED <<files, browserVars>>
  BY <1>4, ProviderStep DEF browserVars
<1> QED BY <1>1, <1>2, <1>3, <1>4 DEF Next

LEMMA ConfinementStarts == Init => ConfinementInv
<1> SUFFICES ASSUME Init PROVE ConfinementInv
  OBVIOUS
<1>1. FilesAreFunctions
  BY DEF Init, InitFiles, FilesAreFunctions
<1>2. DownloadsAreInside /\ JobsAreFunctions
  BY DEF Init, InitBrowser, DownloadsAreInside, JobsAreFunctions
<1> QED BY <1>1, <1>2 DEF ConfinementInv

\* No file outside the allowed roots is changed by a tool, whatever the
\* directories and links are, whatever the paths, and however many calls and
\* sessions interleave.
THEOREM NothingOutsideIsTouched == Spec => ConfinedToRoots
<1>1. Init => ConfinementInv
  BY ConfinementStarts
<1>2. ConfinementInv /\ [Next]_vars
        => ConfinementInv' /\ [\A at \in OutsideRoots : files'[at] = files[at]]_files
  BY StepConfines
<1> QED BY <1>1, <1>2, PTL DEF Spec, ConfinedToRoots

-----------------------------------------------------------------------------
(* The tables of the browser provider.                                     *)

\* A call that creates a session names one of Sessions.
CreatorsNameSessions ==
  \A c \in Calls : job[c] = "create" => place[c].session[1] \in Sessions

TablesInv ==
  /\ SessionsMatchPages
  /\ BrowserTypeOK
  /\ place = [c \in Calls |-> place[c]]
  /\ CreatorsNameSessions

\* What a step that touches neither the calls nor the tables leaves alone.
LEMMA TablesKept ==
  ASSUME TablesInv, UNCHANGED browserVars
  PROVE  TablesInv'
  BY DEF TablesInv, SessionsMatchPages, BrowserTypeOK, CreatorsNameSessions,
    browserVars, provider, calls

\* start() and stop(): only ClosePage and the end of stop() change a table, and
\* both change the two at once.
LEMMA ProviderTables ==
  ASSUME TablesInv,
         \/ Start \/ StartStep \/ Stop \/ StopStep \/ StopFails
         \/ \E s \in Sessions : ClosePage(s)
  PROVE  TablesInv'
<1>1. UNCHANGED <<job, place>>
  BY DEF Start, StartStep, Stop, StopStep, StopFails, ClosePage, calls
<1>2. SessionsMatchPages' /\ DOMAIN pages' \subseteq Sessions
  <2>1. CASE UNCHANGED <<pages, sessions>>
    BY <2>1 DEF TablesInv, SessionsMatchPages, BrowserTypeOK
  <2>2. CASE \E s \in Sessions : Forget(s)
    BY <2>2 DEF Forget, Restrict, TablesInv, SessionsMatchPages, BrowserTypeOK
  <2>3. CASE ForgetAll
    BY <2>3 DEF ForgetAll, NoPages, SessionsMatchPages
  <2> QED
    BY <2>1, <2>2, <2>3 DEF Start, StartStep, Stop, StopStep, StopFails, ClosePage
<1>3. alive \subseteq Objects /\ open \subseteq Calls /\ todo \subseteq Sessions
  BY DEF TablesInv, BrowserTypeOK
<1>4. CASE StartStep
  <2>1. phase \in {"driver", "launch", "context"}
    BY <1>4 DEF StartStep, Started
  <2>2. AfterStart[phase] \in {"launch", "context", "up"} /\ Started[phase] \in Objects
    BY <2>1 DEF Started, AfterStart, Objects
  <2>3. alive' \subseteq Objects /\ phase' \in {"launch", "context", "up", "failed"}
    BY <1>3, <1>4, <2>2 DEF StartStep
  <2>4. UNCHANGED <<open, todo>>
    BY <1>4 DEF StartStep
  <2> QED
    BY <1>1, <1>2, <1>3, <2>3, <2>4 DEF TablesInv, SessionsMatchPages,
      BrowserTypeOK, CreatorsNameSessions
<1>5. CASE StopStep
  <2>1. phase \in {"pages", "stopContext", "stopBrowser", "stopDriver"}
    BY <1>5 DEF StopStep, AfterStop
  <2>2. phase' \in {"stopContext", "stopBrowser", "stopDriver", "down"}
    BY <1>5, <2>1 DEF StopStep, AfterStop
  <2>3. alive' \subseteq Objects /\ open' \subseteq Calls /\ UNCHANGED todo
    BY <1>3, <1>5 DEF StopStep
  <2> QED
    BY <1>1, <1>2, <2>2, <2>3 DEF TablesInv, SessionsMatchPages,
      BrowserTypeOK, CreatorsNameSessions
<1>6. CASE Start \/ Stop \/ StopFails \/ \E s \in Sessions : ClosePage(s)
  <2>1. phase' \in {"driver", "pages", "broken", phase} /\ UNCHANGED alive
    BY <1>6 DEF Start, Stop, StopFails, ClosePage
  <2>2. todo' \subseteq Sessions /\ open' \subseteq Calls
    BY <1>3, <1>6 DEF Start, Stop, StopFails, ClosePage, TablesInv, BrowserTypeOK
  <2> QED
    BY <1>1, <1>2, <1>3, <2>1, <2>2 DEF TablesInv, SessionsMatchPages,
      BrowserTypeOK, CreatorsNameSessions
<1> QED  BY <1>4, <1>5, <1>6

\* A call begins, goes on, or ends without a new session.
LEMMA AwaitTables ==
  ASSUME TablesInv, NEW c \in Calls, NEW j \in {"act", "download", "size", "over"},
         Await(c, j), open' \in SUBSET Calls,
         UNCHANGED <<phase, alive, todo, pages, sessions>>,
         place' = [d \in Calls |-> place'[d]],
         \A d \in Calls \ {c} : place'[d] = place[d]
  PROVE  TablesInv'
<1>1. job' = [d \in Calls |-> IF d = c THEN j ELSE job[d]]
  BY DEF TablesInv, BrowserTypeOK, Await
<1>2. BrowserTypeOK'
  BY <1>1 DEF TablesInv, BrowserTypeOK
<1>3. CreatorsNameSessions'
  BY <1>1 DEF TablesInv, CreatorsNameSessions
<1> QED  BY <1>2, <1>3 DEF TablesInv, SessionsMatchPages

\* ensure_session
LEMMA CallTables ==
  ASSUME TablesInv, NEW c \in Calls, NEW s \in Sessions, NEW target, Call(c, s, target)
  PROVE  TablesInv'
<1>1. UNCHANGED <<phase, alive, todo, pages, sessions, open>>
  BY DEF Call, provider
<1>2. /\ place' = [d \in Calls |-> place'[d]]
      /\ \A d \in Calls \ {c} : place'[d] = place[d]
  BY DEF Call, TablesInv
<1>3. CASE Await(c, Work(target)) \/ Await(c, "over")
  BY <1>1, <1>2, <1>3, AwaitTables DEF Work, TablesInv, BrowserTypeOK
<1>4. CASE Await(c, "create") /\ place' = [place EXCEPT ![c] = Place(s, c, target)]
  <2>1. job' = [d \in Calls |-> IF d = c THEN "create" ELSE job[d]]
    BY <1>4 DEF TablesInv, BrowserTypeOK, Await
  <2>2. place'[c].session[1] = s
    BY <1>4 DEF TablesInv, Place
  <2>3. BrowserTypeOK'
    BY <1>1, <2>1 DEF TablesInv, BrowserTypeOK
  <2>4. CreatorsNameSessions'
    BY <1>2, <2>1, <2>2 DEF TablesInv, CreatorsNameSessions
  <2> QED  BY <1>1, <1>2, <2>3, <2>4 DEF TablesInv, SessionsMatchPages
<1> QED  BY <1>3, <1>4 DEF Call

\* create_session enters the page and the session together, also over those
\* of a call that was faster or of a session that was closed meanwhile.
LEMMA CreatedTables ==
  ASSUME TablesInv, NEW c \in Calls, Created(c)
  PROVE  TablesInv'
<1> DEFINE s == place[c].session[1]
<1>1. s \in Sessions
  BY DEF Created, TablesInv, CreatorsNameSessions
<1>2. job' = [d \in Calls |-> IF d = c THEN Work(place[c].target) ELSE job[d]]
  BY DEF Created, Await, TablesInv, BrowserTypeOK
<1>3. /\ DOMAIN pages' = DOMAIN pages \cup {s} /\ sessions' = sessions \cup {s}
      /\ open' = open \cup {c} /\ UNCHANGED <<phase, alive, todo, place>>
  BY DEF Created
<1>4. BrowserTypeOK'
  BY <1>1, <1>2, <1>3 DEF TablesInv, BrowserTypeOK, Work
<1>5. CreatorsNameSessions'
  BY <1>2, <1>3 DEF TablesInv, CreatorsNameSessions, Work
<1> QED  BY <1>3, <1>4, <1>5 DEF TablesInv, SessionsMatchPages

LEMMA BrowserTables ==
  ASSUME TablesInv, BrowserNext
  PROVE  TablesInv'
<1>1. CASE \/ Start \/ StartStep \/ Stop \/ StopStep \/ StopFails
           \/ \E s \in Sessions : ClosePage(s)
  BY <1>1, ProviderTables
<1>2. ASSUME NEW c \in Calls, Act(c) \/ Open(c) \/ Download(c)
      PROVE  TablesInv'
  BY <1>2, CallTables DEF Act, Open, Download
<1>3. ASSUME NEW c \in Calls, Created(c)
      PROVE  TablesInv'
  BY <1>3, CreatedTables
<1>4. ASSUME NEW c \in Calls,
             Fails(c) \/ Acted(c) \/ Saved(c) \/ Sized(c) \/ CancelCall(c)
      PROVE  TablesInv'
  <2>1. PICK j \in {"size", "over"} : Await(c, j)
    BY <1>4 DEF Fails, Acted, Saved, Sized, CancelCall
  <2>2. UNCHANGED <<phase, alive, todo, pages, sessions, place>>
    BY <1>4 DEF Fails, Acted, Saved, Sized, CancelCall, provider
  <2>3. open' \in SUBSET Calls
    BY <1>4 DEF Fails, Acted, Saved, Sized, CancelCall, provider, TablesInv,
      BrowserTypeOK
  <2> QED  BY <2>1, <2>2, <2>3, AwaitTables DEF TablesInv
<1> QED  BY <1>1, <1>2, <1>3, <1>4 DEF BrowserNext

LEMMA TablesInvariant == Spec => []TablesInv
<1>1. Init => TablesInv
  BY DEF Init, InitBrowser, NoPages, Nowhere, TablesInv, SessionsMatchPages,
    BrowserTypeOK, CreatorsNameSessions
<1>2. TablesInv /\ [Next]_vars => TablesInv'
  BY BrowserTables, TablesKept DEF Next, vars
<1> QED  BY <1>1, <1>2, PTL DEF Spec

\* At every await the table of pages and the table of sessions have the same
\* sessions, however calls, start and stop interleave.
THEOREM TablesAgree == Spec => []SessionsMatchPages
  BY TablesInvariant, PTL DEF TablesInv

\* The provider and its calls keep their types: among them, a page is open or
\* registered only for one of the calls and sessions there are.
THEOREM BrowserTypeCorrect == Spec => []BrowserTypeOK
  BY TablesInvariant, PTL DEF TablesInv
=============================================================================
