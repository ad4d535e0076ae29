--------------------------- MODULE ServicesProofs ---------------------------
(***************************************************************************)
(* What holds, for every value of the constants, of the parts that have no *)
(* state in common with the master or the voice: the worker beside its     *)
(* master, the memory and the offline evaluation.                          *)
(***************************************************************************)
EXTENDS DistributedWorker, Memory, Evaluation, SequenceFilterProofs,
        WellFoundedInduction

(***************************************************************************)
(* The worker.  A live worker is offered work, for all ids, endpoints and  *)
(* times.  The argument bounds the age of its entry at each stage of the   *)
(* loop; Interval + 2 * Latency <= Timeout makes the bounds enough.        *)
(***************************************************************************)
Ages == Nat
Entries == [at : Endpoints, status : {"available", "stale"}, age : Ages]
Messages == [kind : {"register", "heartbeat"}, id : Ids, at : Endpoints, age : Ages]
Stages == {"down", "idle", "asking", "due", "sending", "sleeping"}

\* None or one of a set, as a sequence.
Optional(S) == {<<>>} \cup {<<x>> : x \in S}

WorkerTypes ==
  /\ sameToken \in BOOLEAN /\ mine \in BOOLEAN /\ trusted \in BOOLEAN
  /\ registry \in [Ids -> Optional(Entries)]
  /\ worker \in [stage : Stages, id : Ids, at : Endpoints, age : Ages]
  /\ timer \in Nat
  /\ posted \in Optional(Messages) /\ stray \in Optional(Messages)

\* A request on its way is the worker's own, of its stage, and has no answer.
RequestIsOurs ==
  posted # <<>> =>
    /\ reply = <<>>
    /\ posted[1].id = worker.id /\ posted[1].at = worker.at
    /\ \/ worker.stage = "asking" /\ posted[1].kind = "register"
       \/ worker.stage = "sending" /\ posted[1].kind = "heartbeat"

\* An answer on its way is awaited.
AnswerIsAwaited == reply # <<>> => worker.stage \in {"asking", "sending"}

\* An accepted registration had the right token, and stays in the registry
\* where it was made.
EntryIsOurs ==
  mine => /\ worker.stage # "down" /\ sameToken
          /\ Known(worker.id)
          /\ registry[worker.id][1].at = worker.at

EntryAge == registry[worker.id][1].age

\* How old the entry may be at each stage of the loop.
AgeIsBounded ==
  \/ worker.stage = "sending" /\ posted = <<>> /\ timer <= Latency /\ EntryAge <= timer
  \/ worker.stage = "sleeping" /\ timer <= Interval /\ EntryAge <= Latency + timer
  \/ worker.stage = "due" /\ EntryAge <= Latency + Interval
  \/ /\ worker.stage = "sending" /\ posted # <<>>
     /\ timer <= Latency /\ EntryAge <= Latency + Interval + timer

TrustIsEarned ==
  trusted => mine /\ registry[worker.id][1].status = "available" /\ AgeIsBounded

WorkerInv ==
  WorkerTypes /\ RequestIsOurs /\ AnswerIsAwaited /\ EntryIsOurs /\ TrustIsEarned

USE WorkerAssumption DEF Stages, Ages

LEMMA NextAgeIsLater ==
  ASSUME NEW age \in Nat
  PROVE  NextAge(age) \in Nat /\ NextAge(age) <= age + 1
  BY DEF NextAge

LEMMA AgedEntry ==
  ASSUME NEW s \in Optional(Entries)
  PROVE  /\ Aged(s) \in Optional(Entries)
         /\ (s = <<>>) = (Aged(s) = <<>>)
         /\ s # <<>> => /\ Aged(s)[1].at = s[1].at /\ Aged(s)[1].status = s[1].status
                         /\ Aged(s)[1].age <= s[1].age + 1
<1>1. CASE s = <<>>
  <2>1. Aged(s) = <<>>
    BY <1>1 DEF Aged
  <2> QED BY <1>1, <2>1 DEF Optional
<1>2. CASE \E x \in Entries : s = <<x>>
  <2>1. PICK x \in Entries : s = <<x>>
    BY <1>2
  <2> DEFINE y == [x EXCEPT !.age = NextAge(x.age)]
  <2>2. Aged(s) = <<y>>
    BY <2>1 DEF Aged, Entries
  <2>3. NextAge(x.age) \in Nat /\ NextAge(x.age) <= x.age + 1
    BY <2>1, NextAgeIsLater DEF Entries
  <2>4. y \in Entries /\ y.at = x.at /\ y.status = x.status /\ y.age <= x.age + 1
    BY <2>1, <2>3 DEF Entries
  <2> HIDE DEF y
  <2>5. s[1] = x /\ Aged(s)[1] = y
    BY <2>1, <2>2
  <2> QED BY <2>1, <2>2, <2>4, <2>5 DEF Optional
<1> QED BY <1>1, <1>2 DEF Optional

LEMMA AgedMessage ==
  ASSUME NEW s \in Optional(Messages)
  PROVE  /\ Aged(s) \in Optional(Messages)
         /\ (s = <<>>) = (Aged(s) = <<>>)
         /\ s # <<>> => /\ Aged(s)[1].id = s[1].id /\ Aged(s)[1].at = s[1].at
                         /\ Aged(s)[1].kind = s[1].kind
<1>1. CASE s = <<>>
  <2>1. Aged(s) = <<>>
    BY <1>1 DEF Aged
  <2> QED BY <1>1, <2>1 DEF Optional
<1>2. CASE \E x \in Messages : s = <<x>>
  <2>1. PICK x \in Messages : s = <<x>>
    BY <1>2
  <2> DEFINE y == [x EXCEPT !.age = NextAge(x.age)]
  <2>2. Aged(s) = <<y>>
    BY <2>1 DEF Aged, Messages
  <2>3. NextAge(x.age) \in Nat /\ NextAge(x.age) <= x.age + 1
    BY <2>1, NextAgeIsLater DEF Messages
  <2>4. y \in Messages /\ y.id = x.id /\ y.at = x.at /\ y.kind = x.kind
    BY <2>1, <2>3 DEF Messages
  <2> HIDE DEF y
  <2>5. s[1] = x /\ Aged(s)[1] = y
    BY <2>1, <2>2
  <2> QED BY <2>1, <2>2, <2>4, <2>5 DEF Optional
<1> QED BY <1>1, <1>2 DEF Optional

LEMMA WorkerInitially == WorkerInit => WorkerInv
<1>1. WorkerInit => WorkerTypes
  <2>1. WorkerInit => worker \in [stage : Stages, id : Ids, at : Endpoints, age : Ages]
    BY DEF WorkerInit
  <2>2. WorkerInit => registry \in [Ids -> Optional(Entries)]
    BY DEF WorkerInit, Optional
  <2> QED BY <2>1, <2>2 DEF WorkerInit, WorkerTypes, Optional
<1>2. WorkerInit => RequestIsOurs /\ AnswerIsAwaited /\ EntryIsOurs /\ TrustIsEarned
  BY DEF WorkerInit, RequestIsOurs, AnswerIsAwaited, EntryIsOurs, TrustIsEarned
<1> QED BY <1>1, <1>2 DEF WorkerInv

LEMMA EntryInRange ==
  ASSUME WorkerTypes, NEW id \in Ids, Known(id)
  PROVE  \E e \in Entries : registry[id] = <<e>> /\ registry[id][1] = e
  BY DEF WorkerTypes, Known, Optional

-----------------------------------------------------------------------------
(* The worker's own steps leave the registry alone.                        *)

LEMMA WorkerStep ==
  ASSUME WorkerInv,
         \/ StartWorker \/ StartLoop \/ RequestExit \/ LoopExits
         \/ HearsAnswer \/ WakesUp
  PROVE  WorkerInv'
<1> USE DEF WorkerInv, WorkerTypes, Enters, network, RequestIsOurs, AnswerIsAwaited,
            EntryIsOurs, TrustIsEarned, AgeIsBounded, EntryAge, Known
<1>1. CASE StartWorker
  BY <1>1 DEF StartWorker
<1>2. CASE StartLoop
  BY <1>2 DEF StartLoop
<1>3. CASE RequestExit
  BY <1>3 DEF RequestExit
<1>4. CASE LoopExits
  BY <1>4 DEF LoopExits
<1>5. CASE HearsAnswer
  <2>1. posted = <<>> /\ worker.stage \in {"asking", "sending"}
    BY <1>5 DEF HearsAnswer
  <2>2. trusted => worker.stage = "sending" /\ timer <= Latency /\ EntryAge <= timer
    BY <2>1
  <2>3. trusted => EntryAge \in Nat
    BY EntryInRange DEF Entries
  <2>4. timer' = 0 /\ worker'.id = worker.id /\ worker'.at = worker.at
        /\ worker'.stage = (IF worker.stage = "asking" THEN "idle" ELSE "sleeping")
        /\ UNCHANGED <<sameToken, registry, posted, stray, mine, trusted>> /\ reply' = <<>>
    BY <1>5 DEF HearsAnswer
  <2>5. WorkerTypes' /\ RequestIsOurs' /\ AnswerIsAwaited' /\ EntryIsOurs'
    BY <1>5, <2>1, <2>4 DEF HearsAnswer
  <2>6. TrustIsEarned'
    BY <2>2, <2>3, <2>4
  <2> QED BY <2>5, <2>6
<1>6. CASE WakesUp
  BY <1>6 DEF WakesUp
<1> QED BY <1>1, <1>2, <1>3, <1>4, <1>5, <1>6

LEMMA PostStep ==
  ASSUME WorkerInv, RegisterWithMaster \/ SendHeartbeat
  PROVE  WorkerInv'
<1>1. PICK k \in {"register", "heartbeat"}, s \in {"asking", "sending"} :
        /\ Post(k, s)
        /\ \/ k = "register" /\ s = "asking" /\ worker.stage = "idle"
           \/ k = "heartbeat" /\ s = "sending" /\ worker.stage = "due"
  BY DEF RegisterWithMaster, SendHeartbeat
<1>2. posted' = <<[kind |-> k, id |-> worker.id, at |-> worker.at, age |-> worker.age]>>
  BY <1>1 DEF Post
<1>3. posted' \in Optional(Messages)
  BY <1>2 DEF WorkerInv, WorkerTypes, Optional, Messages
<1>4. WorkerTypes'
  BY <1>1, <1>3 DEF Post, Enters, WorkerInv, WorkerTypes
<1> QED
  BY <1>1, <1>2, <1>4 DEF Post, Enters, WorkerInv, WorkerTypes, RequestIsOurs, AnswerIsAwaited,
     EntryIsOurs, TrustIsEarned, AgeIsBounded, EntryAge, Known

LEMMA LossStep ==
  ASSUME WorkerInv, PostFails \/ WorkerCrashes
  PROVE  WorkerInv'
<1> USE DEF WorkerInv, WorkerTypes, Enters, Abandoned, Optional, RequestIsOurs, AnswerIsAwaited,
            EntryIsOurs, TrustIsEarned, Known
<1>1. CASE PostFails
  BY <1>1 DEF PostFails
<1>2. CASE WorkerCrashes
  BY <1>2 DEF WorkerCrashes
<1> QED BY <1>1, <1>2

-----------------------------------------------------------------------------
(* The master's steps.                                                     *)

\* What serving any request may do to an entry that is already there.
LEMMA ServeKeepsEntry ==
  ASSUME WorkerTypes, NEW request \in Messages, Serve(request)
  PROVE  /\ registry' \in [Ids -> Optional(Entries)]
         /\ \A id \in Ids : Known(id) =>
              /\ registry'[id] # <<>>
              /\ registry'[id][1].at = registry[id][1].at
              /\ \/ registry'[id] = registry[id]
                 \/ registry'[id][1].status = "available" /\ registry'[id][1].age = 0
         /\ StatusCode(request) = 201 =>
              registry'[request.id] # <<>> /\ registry'[request.id][1].at = request.at
         /\ StatusCode(request) = 200 =>
              /\ Known(request.id) /\ registry'[request.id][1].status = "available"
              /\ registry'[request.id][1].age = 0
<1>1. request.id \in Ids /\ <<EntryOf(request)>> \in Optional(Entries)
  BY DEF Messages, EntryOf, Entries, Optional
<1>2. CASE StatusCode(request) = 201
  <2>1. ~ Known(request.id)
    BY <1>2 DEF StatusCode
  <2>2. registry' = [registry EXCEPT ![request.id] = <<EntryOf(request)>>]
    BY <1>2 DEF Serve
  <2> QED BY <1>1, <1>2, <2>1, <2>2 DEF WorkerTypes, Known, EntryOf
<1>3. CASE StatusCode(request) = 200
  <2> DEFINE entry == Beaten(registry[request.id][1])
  <2>1. Known(request.id)
    BY <1>3 DEF StatusCode
  <2>2. PICK e \in Entries : registry[request.id] = <<e>>
    BY <1>1, <2>1 DEF Known, WorkerTypes, Optional
  <2>3. <<entry>> \in Optional(Entries)
    <3>1. registry[request.id][1] = e
      BY <2>2
    <3>2. entry = [at |-> e.at, status |-> "available", age |-> 0]
      BY <3>1 DEF Beaten
    <3> QED BY <3>2 DEF Optional, Entries
  <2>4. registry' = [registry EXCEPT ![request.id] = <<entry>>]
    BY <1>3 DEF Serve
  <2> QED BY <1>1, <1>3, <2>1, <2>2, <2>3, <2>4 DEF WorkerTypes, Known, Beaten
<1>4. CASE StatusCode(request) \notin {200, 201}
  BY <1>4 DEF Serve, WorkerTypes, Known
<1> QED BY <1>2, <1>3, <1>4

LEMMA ServeStep ==
  ASSUME WorkerInv, ServeRequest \/ ServeStray
  PROVE  WorkerInv'
<1>1. CASE ServeRequest
  <2>1. posted[1] \in Messages /\ posted # <<>> /\ Serve(posted[1])
    BY <1>1 DEF ServeRequest, WorkerInv, WorkerTypes, Optional
  <2>2. worker.id \in Ids
    BY DEF WorkerInv, WorkerTypes
  <2>3. WorkerTypes'
    BY <1>1, <2>1, ServeKeepsEntry DEF ServeRequest, WorkerInv, WorkerTypes, Optional
  <2>4. RequestIsOurs' /\ AnswerIsAwaited'
    BY <1>1 DEF ServeRequest, WorkerInv, RequestIsOurs, AnswerIsAwaited
  <2>5. EntryIsOurs'
    <3>1. UNCHANGED <<worker, sameToken>> /\ mine' = (mine \/ StatusCode(posted[1]) = 201)
      BY <1>1 DEF ServeRequest
    <3>2. CASE mine
      BY <2>1, <2>2, <3>1, <3>2, ServeKeepsEntry DEF WorkerInv, EntryIsOurs, Known
    <3>3. CASE StatusCode(posted[1]) = 201
      <4>1. sameToken /\ posted[1].id = worker.id /\ posted[1].at = worker.at
            /\ worker.stage # "down"
        BY <2>1, <3>3 DEF StatusCode, WorkerInv, RequestIsOurs
      <4> QED BY <2>1, <3>1, <3>3, <4>1, ServeKeepsEntry DEF WorkerInv, EntryIsOurs, Known
    <3> QED BY <3>1, <3>2, <3>3 DEF EntryIsOurs
  <2>6. TrustIsEarned'
    <3>1. SUFFICES ASSUME trusted'
                   PROVE  TrustIsEarned'
      BY DEF TrustIsEarned
    <3>2. mine /\ Known(worker.id) /\ StatusCode(posted[1]) = 200
      <4>1. CASE trusted
        <5>1. /\ worker.stage = "sending" /\ posted[1].kind = "heartbeat"
              /\ posted[1].id = worker.id /\ mine /\ sameToken /\ Known(worker.id)
          BY <2>1, <4>1 DEF WorkerInv, RequestIsOurs, EntryIsOurs, TrustIsEarned, AgeIsBounded
        <5> QED BY <5>1 DEF StatusCode
      <4>2. CASE ~ trusted
        BY <1>1, <3>1, <4>2 DEF ServeRequest, WorkerInv, EntryIsOurs
      <4> QED BY <4>1, <4>2
    <3>3. /\ worker.stage = "sending" /\ posted[1].id = worker.id
      BY <2>1, <3>2 DEF StatusCode, WorkerInv, RequestIsOurs
    <3>4. registry'[worker.id][1].status = "available" /\ registry'[worker.id][1].age = 0
      BY <2>1, <3>2, <3>3, ServeKeepsEntry DEF WorkerInv
    <3>5. mine' /\ worker' = worker /\ posted' = <<>> /\ timer' = 0
      BY <1>1, <3>2 DEF ServeRequest
    <3> QED BY <3>3, <3>4, <3>5 DEF TrustIsEarned, AgeIsBounded, EntryAge
  <2> QED BY <2>3, <2>4, <2>5, <2>6 DEF WorkerInv
<1>2. CASE ServeStray
  <2>1. stray[1] \in Messages /\ Serve(stray[1]) /\ stray' = <<>>
    BY <1>2 DEF ServeStray, WorkerInv, WorkerTypes, Optional
  <2>2. worker.id \in Ids
    BY DEF WorkerInv, WorkerTypes
  <2>3. /\ registry' \in [Ids -> Optional(Entries)]
        /\ Known(worker.id) =>
             /\ registry'[worker.id] # <<>>
             /\ registry'[worker.id][1].at = registry[worker.id][1].at
             /\ \/ registry'[worker.id] = registry[worker.id]
                \/ registry'[worker.id][1].status = "available" /\ registry'[worker.id][1].age = 0
    BY <2>1, <2>2, ServeKeepsEntry DEF WorkerInv
  <2>4. WorkerTypes'
    BY <1>2, <2>1, <2>3 DEF ServeStray, WorkerInv, WorkerTypes, Optional
  <2>5. RequestIsOurs' /\ AnswerIsAwaited'
    BY <1>2 DEF ServeStray, WorkerInv, RequestIsOurs, AnswerIsAwaited
  <2>6. EntryIsOurs'
    BY <1>2, <2>3 DEF ServeStray, WorkerInv, EntryIsOurs, Known
  <2>7. TrustIsEarned'
    BY <1>2, <2>3 DEF ServeStray, WorkerInv, WorkerTypes, EntryIsOurs, TrustIsEarned, AgeIsBounded, EntryAge
  <2> QED BY <2>4, <2>5, <2>6, <2>7 DEF WorkerInv
<1> QED BY <1>1, <1>2

\* The entry of a trusted worker is never too old, so it is not marked.
LEMMA TrustedIsYoung ==
  ASSUME WorkerInv, trusted
  PROVE  Known(worker.id) /\ EntryAge <= Timeout
<1>1. PICK e \in Entries : registry[worker.id] = <<e>> /\ registry[worker.id][1] = e
  BY EntryInRange DEF WorkerInv, WorkerTypes, TrustIsEarned, EntryIsOurs
<1>2. EntryAge = e.age /\ e.age \in Nat /\ timer \in Nat
  BY <1>1 DEF EntryAge, Entries, WorkerInv, WorkerTypes
<1>3. AgeIsBounded
  BY DEF WorkerInv, TrustIsEarned
<1>4. e.age <= Timeout
  BY <1>2, <1>3 DEF AgeIsBounded
<1> QED BY <1>1, <1>2, <1>4 DEF Known

LEMMA MasterStep ==
  ASSUME WorkerInv, NEW id \in Ids,
         \/ MasterRestarts \/ MarkStale(id) \/ \E job \in Jobs : DispatchTask(id, job)
  PROVE  WorkerInv'
<1>1. CASE MasterRestarts
  BY <1>1 DEF MasterRestarts, network, WorkerInv, WorkerTypes, Optional, RequestIsOurs,
     AnswerIsAwaited, EntryIsOurs, TrustIsEarned
<1>2. CASE MarkStale(id)
  <2>1. PICK e \in Entries : registry[id] = <<e>> /\ registry[id][1] = e
    BY <1>2, EntryInRange DEF MarkStale, IsStale, WorkerInv
  <2> DEFINE marked == [e EXCEPT !.status = "stale"]
  <2>2. marked \in Entries /\ marked.at = e.at
    BY <2>1 DEF Entries
  <2>3. registry' = [registry EXCEPT ![id] = <<marked>>]
    BY <1>2, <2>1 DEF MarkStale
  <2>4. /\ registry' \in [Ids -> Optional(Entries)]
        /\ \A i \in Ids : i # id => registry'[i] = registry[i]
        /\ registry'[id] = <<marked>> /\ registry'[id][1] = marked
    BY <2>2, <2>3 DEF WorkerInv, WorkerTypes, Optional
  <2>5. e.age > Timeout
    BY <1>2, <2>1 DEF MarkStale, IsStale
  <2>6. UNCHANGED <<sameToken, worker, timer, posted, reply, stray, mine, trusted>>
    BY <1>2 DEF MarkStale, network
  <2>7. WorkerTypes' /\ RequestIsOurs' /\ AnswerIsAwaited'
    BY <2>4, <2>6 DEF WorkerInv, WorkerTypes, RequestIsOurs, AnswerIsAwaited
  <2>8. EntryIsOurs'
    <3>1. worker.id \in Ids /\ registry'[worker.id][1].at = registry[worker.id][1].at
          /\ (Known(worker.id) => registry'[worker.id] # <<>>)
      <4> HIDE DEF marked
      <4> QED BY <2>1, <2>2, <2>4 DEF WorkerInv, WorkerTypes, Known
    <3> QED BY <2>6, <3>1 DEF WorkerInv, EntryIsOurs, Known
  <2>9. trusted => worker.id # id /\ worker.id \in Ids
    <3>1. e.age \in Nat /\ worker.id \in Ids
      BY DEF Entries, WorkerInv, WorkerTypes
    <3>2. trusted /\ worker.id = id => e.age <= Timeout
      BY <2>1, TrustedIsYoung DEF EntryAge
    <3> QED BY <2>5, <3>1, <3>2
  <2>10. TrustIsEarned'
    BY <2>4, <2>6, <2>9 DEF WorkerInv, TrustIsEarned, AgeIsBounded, EntryAge
  <2> QED BY <2>7, <2>8, <2>10 DEF WorkerInv
<1>3. CASE \E job \in Jobs : DispatchTask(id, job)
  <2>1. UNCHANGED <<sameToken, registry, worker, timer, posted, reply, stray, mine, trusted>>
    BY <1>3 DEF DispatchTask, network
  <2> QED BY <2>1 DEF WorkerInv, WorkerTypes, RequestIsOurs, AnswerIsAwaited, EntryIsOurs,
             TrustIsEarned, AgeIsBounded, EntryAge, Known
<1> QED BY <1>1, <1>2, <1>3

-----------------------------------------------------------------------------
(* Time passes.                                                            *)

LEMMA TickStep ==
  ASSUME WorkerInv, Tick
  PROVE  WorkerInv'
<1>1. \A i \in Ids : registry[i] \in Optional(Entries) /\ registry'[i] = Aged(registry[i])
  BY DEF Tick, WorkerInv, WorkerTypes
<1>2. registry' \in [Ids -> Optional(Entries)]
  <2>1. \A i \in Ids : Aged(registry[i]) \in Optional(Entries)
    BY <1>1, AgedEntry
  <2> QED BY <2>1 DEF Tick
<1>3. worker' \in [stage : Stages, id : Ids, at : Endpoints, age : Ages]
      /\ worker'.stage = worker.stage /\ worker'.id = worker.id /\ worker'.at = worker.at
  <2>1. NextAge(worker.age) \in Nat
    BY NextAgeIsLater DEF WorkerInv, WorkerTypes
  <2> QED BY <2>1 DEF Tick, WorkerInv, WorkerTypes
<1>4. posted' \in Optional(Messages) /\ stray' \in Optional(Messages)
  BY AgedMessage DEF Tick, WorkerInv, WorkerTypes
<1>5. timer' \in Nat /\ trusted' \in BOOLEAN
  BY DEF Tick, WorkerInv, WorkerTypes
<1>6. WorkerTypes'
  BY <1>2, <1>3, <1>4, <1>5 DEF Tick, WorkerInv, WorkerTypes
<1>7. (posted' = <<>>) = (posted = <<>>)
      /\ (posted # <<>> => /\ posted'[1].id = posted[1].id /\ posted'[1].at = posted[1].at
                            /\ posted'[1].kind = posted[1].kind)
  BY AgedMessage DEF Tick, WorkerInv, WorkerTypes
<1>8. RequestIsOurs' /\ AnswerIsAwaited'
  BY <1>3, <1>7 DEF Tick, WorkerInv, RequestIsOurs, AnswerIsAwaited
<1>9. worker.id \in Ids
  BY DEF WorkerInv, WorkerTypes
<1>10. Known(worker.id) =>
         /\ registry'[worker.id] # <<>>
         /\ registry'[worker.id][1].at = registry[worker.id][1].at
         /\ registry'[worker.id][1].status = registry[worker.id][1].status
         /\ registry'[worker.id][1].age <= registry[worker.id][1].age + 1
         /\ registry[worker.id][1].age \in Nat /\ registry'[worker.id][1].age \in Nat
  <2>1. Known(worker.id) => registry'[worker.id] # <<>>
    BY <1>1, <1>9, AgedEntry DEF Known
  <2> QED BY <1>1, <1>2, <1>9, <2>1, AgedEntry DEF Known, Optional, Entries
<1>11. EntryIsOurs'
  BY <1>3, <1>10 DEF Tick, WorkerInv, EntryIsOurs, Known
<1>12. TrustIsEarned'
  <2>1. SUFFICES ASSUME trusted'
                 PROVE  TrustIsEarned'
    BY DEF TrustIsEarned
  <2>2. trusted /\ (Travelling => timer < Latency)
    BY <2>1 DEF Tick
  <2>3. mine /\ mine' /\ Known(worker.id) /\ AgeIsBounded
        /\ registry[worker.id][1].status = "available"
    BY <2>2 DEF Tick, WorkerInv, TrustIsEarned, EntryIsOurs
  <2>4. EntryAge' <= EntryAge + 1 /\ EntryAge \in Nat /\ EntryAge' \in Nat /\ timer \in Nat
    BY <1>3, <1>10, <2>3 DEF EntryAge, WorkerInv, WorkerTypes
  <2>5. AgeIsBounded'
    <3>1. CASE worker.stage = "sending"
      <4>1. timer' = timer + 1 /\ timer < Latency
        BY <2>2, <3>1 DEF Tick, Travelling
      <4> QED BY <1>3, <1>7, <2>3, <2>4, <3>1, <4>1 DEF AgeIsBounded
    <3>2. CASE worker.stage = "sleeping"
      <4>1. timer' = timer + 1 /\ timer < Interval
        BY <3>2 DEF Tick
      <4> QED BY <1>3, <2>3, <2>4, <3>2, <4>1 DEF AgeIsBounded
    <3> QED BY <2>3, <3>1, <3>2 DEF AgeIsBounded, Tick
  <2> QED BY <1>3, <1>10, <2>3, <2>5 DEF TrustIsEarned
<1> QED BY <1>6, <1>8, <1>11, <1>12 DEF WorkerInv

-----------------------------------------------------------------------------
LEMMA WorkerStutters ==
  ASSUME WorkerInv, UNCHANGED workerVars
  PROVE  WorkerInv'
  BY DEF workerVars, network, WorkerInv, WorkerTypes, Optional, RequestIsOurs,
     AnswerIsAwaited, EntryIsOurs, TrustIsEarned, AgeIsBounded, EntryAge, Known

LEMMA WorkerInvariant == WorkerSpec => []WorkerInv
<1>1. WorkerInv /\ [WorkerNext]_workerVars => WorkerInv'
  <2>1. SUFFICES ASSUME WorkerInv, WorkerNext
                 PROVE  WorkerInv'
    BY WorkerStutters
  <2>2. CASE \E id \in Ids : MarkStale(id) \/ \E job \in Jobs : DispatchTask(id, job)
    BY <2>1, <2>2, MasterStep
  <2>3. CASE \E id \in Ids : TRUE
    <3>1. CASE MasterRestarts
      BY <2>1, <2>3, <3>1, MasterStep
    <3> QED BY <2>1, <2>2, <3>1, WorkerStep, PostStep, LossStep, ServeStep, TickStep DEF WorkerNext
  <2>4. \E id \in Ids : TRUE
    BY <2>1 DEF WorkerInv, WorkerTypes
  <2> QED BY <2>3, <2>4
<1> QED BY <1>1, WorkerInitially, PTL DEF WorkerSpec

\* Whatever restarts, however late requests are served and whatever else is
\* on the network, a worker whose heartbeats come through in good time is
\* known to the master where it listens, is not stale and is not marked so.
THEOREM LiveWorkersStay == WorkerSpec => []LiveWorkerIsOffered
<1>1. WorkerInv => LiveWorkerIsOffered
  BY TrustedIsYoung DEF LiveWorkerIsOffered, EntryAge, WorkerInv, TrustIsEarned, EntryIsOurs
<1> QED BY <1>1, WorkerInvariant, PTL

HIDE WorkerAssumption DEF Stages, Ages

(***************************************************************************)
(* The memory.  An answered write lasts, for any number of requests and    *)
(* records.                                                                *)
(***************************************************************************)
Ended(r) == thread[r] \in {"done", "failed"}

MemoryTypes ==
  /\ asked \in [Requests -> {<<>>} \cup {<<op>> : op \in Operations}]
  /\ thread \in [Requests -> {"none", "running", "done", "failed"}]
  /\ caller \in [Requests -> {"none", "waiting", "answered", "raised", "cancelled"}]
  /\ before \in [Requests -> SUBSET Requests]

\* A request that was not made has no thread and no operation.
NotYetAsked ==
  \A r \in Requests : /\ caller[r] = "none" <=> asked[r] = <<>>
                      /\ caller[r] = "none" => thread[r] = "none"

\* What had ended when a request was made has ended.
BeforeIsOver == \A r \in Requests : \A q \in before[r] : Ended(q)

\* Only a write that was done is answered.
AnsweredIsDone ==
  \A r \in Requests :
    caller[r] = "answered" /\ asked[r] # <<>> /\ asked[r][1].kind # "retrieve" => thread[r] = "done"

\* A write that was done is there, or another that it did not wait for.
DoneLasts ==
  \A r \in Requests, id \in MemoryIds :
    Writes(r, id) /\ thread[r] = "done" =>
      \/ Left(r, id)
      \/ \E q \in Requests \ (before[r] \cup {r}) : Writes(q, id) /\ thread[q] = "done"

MemoryInv == MemoryTypes /\ NotYetAsked /\ BeforeIsOver /\ AnsweredIsDone /\ DoneLasts

LEMMA MemoryInvImplies == MemoryInv => AnsweredWritesLast
  BY DEF MemoryInv, AnsweredIsDone, DoneLasts, AnsweredWritesLast, Writes

LEMMA MemoryInitially == MemoryInit => MemoryInv
  BY DEF MemoryInit, NoRequests, MemoryInv, MemoryTypes, NotYetAsked, BeforeIsOver,
         AnsweredIsDone, DoneLasts, Writes

\* The statement of a store is in the table, at the instant it was given.
LEMMA StoredIsLeft ==
  ASSUME MemoryTypes, NEW r \in Requests, NEW record \in Records,
         asked[r] = <<[kind |-> "store", record |-> record]>>,
         StoreSync(record), UNCHANGED asked
  PROVE  Left(r, record.id)'
<1>1. record \in [id : Nat, content : STRING, created : Times]
  BY MemoryAssumption
<1>2. Row(record).content = record.content /\ Row(record).created = ToUtc(record.created)
  BY <1>1 DEF Row
<1>3. Instant(ToUtc(record.created)) = Instant(record.created)
  BY <1>1 DEF Instant, ToUtc, Times
<1>4. record.id \in DOMAIN table' /\ table'[record.id] = Row(record)
  BY DEF StoreSync
<1> QED BY <1>2, <1>3, <1>4 DEF Left

\* A statement on one record leaves the others.
LEMMA OthersAreLeft ==
  ASSUME NEW r \in Requests, NEW id, Left(r, id), NEW other, other # id,
         DeleteSync(other) \/ (\E record \in Records : record.id = other /\ StoreSync(record)),
         UNCHANGED asked
  PROVE  Left(r, id)'
<1>1. CASE DeleteSync(other)
  BY <1>1 DEF Left, DeleteSync, Restrict
<1>2. CASE \E record \in Records : record.id = other /\ StoreSync(record)
  BY <1>2 DEF Left, StoreSync
<1> QED BY <1>1, <1>2
LEMMA AskStep ==
  ASSUME MemoryInv, NEW r \in Requests, Ask(r)
  PROVE  MemoryInv'
<1> USE DEF MemoryInv
<1>1. PICK op \in Operations : asked' = [asked EXCEPT ![r] = <<op>>]
  BY DEF Ask
<1>2. MemoryTypes'
  BY <1>1 DEF Ask, MemoryTypes
<1>3. /\ \A q \in Requests \ {r} : asked'[q] = asked[q] /\ thread'[q] = thread[q]
                                  /\ caller'[q] = caller[q] /\ before'[q] = before[q]
      /\ thread[r] = "none" /\ asked[r] = <<>> /\ thread'[r] = "running" /\ caller'[r] = "waiting"
      /\ before'[r] = {q \in Requests : thread[q] \in {"done", "failed"}}
      /\ table' = table /\ asked'[r] = <<op>>
  BY <1>1 DEF Ask, MemoryTypes, NotYetAsked
<1>4. NotYetAsked' /\ BeforeIsOver' /\ AnsweredIsDone'
  BY <1>2, <1>3 DEF MemoryTypes, NotYetAsked, BeforeIsOver, AnsweredIsDone, Ended
<1>5. DoneLasts'
  <2> SUFFICES ASSUME NEW q \in Requests, NEW id \in MemoryIds, Writes(q, id)', thread'[q] = "done"
               PROVE  \/ Left(q, id)'
                      \/ \E p \in Requests \ (before'[q] \cup {q}) : Writes(p, id)' /\ thread'[p] = "done"
    BY DEF DoneLasts
  <2>1. q # r /\ Writes(q, id) /\ thread[q] = "done"
    BY <1>3 DEF Writes
  <2>2. CASE Left(q, id)
    BY <1>3, <2>1, <2>2 DEF Left
  <2>3. CASE \E p \in Requests \ (before[q] \cup {q}) : Writes(p, id) /\ thread[p] = "done"
    <3>1. PICK p \in Requests \ (before[q] \cup {q}) : Writes(p, id) /\ thread[p] = "done"
      BY <2>3
    <3>2. p # r
      BY <1>3, <3>1
    <3> QED BY <1>3, <2>1, <3>1, <3>2 DEF Writes
  <2> QED BY <2>1, <2>2, <2>3 DEF DoneLasts
<1> QED BY <1>2, <1>4, <1>5

\* The statement of r is run: every write it replaces had not waited for it.
LEMMA RunStep ==
  ASSUME MemoryInv, NEW r \in Requests, Runs(r)
  PROVE  MemoryInv'
<1> USE DEF MemoryInv
<1> DEFINE op == asked[r][1]
<1>1. /\ thread' = [thread EXCEPT ![r] = "done"] /\ thread[r] = "running"
      /\ UNCHANGED <<asked, caller, before>>
  BY DEF Runs
<1>2. MemoryTypes'
  BY <1>1 DEF MemoryTypes
<1>3. caller[r] # "none" /\ (\A q \in Requests \ {r} : thread'[q] = thread[q]) /\ thread'[r] = "done"
  BY <1>1 DEF MemoryTypes, NotYetAsked
<1>4. NotYetAsked' /\ BeforeIsOver' /\ AnsweredIsDone'
  BY <1>1, <1>3 DEF MemoryTypes, NotYetAsked, BeforeIsOver, AnsweredIsDone, Ended
<1>5. \A q \in Requests : r \notin before[q]
  BY <1>1 DEF BeforeIsOver, Ended
<1>6. ASSUME NEW id \in MemoryIds, Writes(r, id)
      PROVE  Left(r, id)'
  <2>1. asked[r] = <<op>> /\ op \in Operations
    BY <1>6 DEF MemoryTypes, Writes
  <2>2. CASE op.kind = "store"
    <3>1. PICK record \in Records : op = [kind |-> "store", record |-> record]
      BY <2>1, <2>2 DEF Operations
    <3>2. id = record.id /\ StoreSync(record)
      BY <1>6, <2>1, <3>1 DEF Writes, Runs
    <3> QED BY <1>1, <2>1, <3>1, <3>2, StoredIsLeft
  <2>3. CASE op.kind = "delete"
    <3>1. op.id = id /\ DeleteSync(id)
      BY <1>6, <2>1, <2>3 DEF Writes, Runs
    <3> QED BY <1>1, <2>3, <3>1 DEF Left, DeleteSync, Restrict
  <2> QED BY <1>6, <2>2, <2>3 DEF Writes
<1>7. ASSUME NEW q \in Requests, q # r, NEW id \in MemoryIds, ~ Writes(r, id), Left(q, id)
      PROVE  Left(q, id)'
  <2>1. \/ table' = table
        \/ \E other : other # id /\ (DeleteSync(other)
                                     \/ \E record \in Records : record.id = other /\ StoreSync(record))
    <3>1. asked[r] = <<op>> /\ op \in Operations
      BY <1>3 DEF MemoryTypes, NotYetAsked
    <3>2. CASE op.kind = "store" /\ StoreSync(op.record)
      <4>1. op.record \in Records
        BY <3>1, <3>2 DEF Operations
      <4>2. op.record.id # id
        BY <1>7, <3>1, <3>2 DEF Writes
      <4> QED BY <3>2, <4>1, <4>2
    <3>3. CASE op.kind = "delete" /\ DeleteSync(op.id)
      BY <1>7, <3>1, <3>3 DEF Writes
    <3> QED BY <3>2, <3>3 DEF Runs
  <2>2. CASE table' = table
    BY <1>1, <1>7, <2>2 DEF Left
  <2> QED BY <1>1, <1>7, <2>1, <2>2, OthersAreLeft
<1>8. DoneLasts'
  <2> SUFFICES ASSUME NEW q \in Requests, NEW id \in MemoryIds, Writes(q, id)', thread'[q] = "done"
               PROVE  \/ Left(q, id)'
                      \/ \E p \in Requests \ (before'[q] \cup {q}) : Writes(p, id)' /\ thread'[p] = "done"
    BY DEF DoneLasts
  <2>1. Writes(q, id)
    BY <1>1 DEF Writes
  <2>2. CASE q = r
    BY <1>6, <2>1, <2>2
  <2>3. CASE q # r /\ Writes(r, id)
    BY <1>1, <1>3, <1>5, <2>3 DEF Writes
  <2>4. CASE q # r /\ ~ Writes(r, id)
    <3>1. CASE Left(q, id)
      BY <1>7, <2>4, <3>1
    <3>2. CASE \E p \in Requests \ (before[q] \cup {q}) : Writes(p, id) /\ thread[p] = "done"
      BY <1>1, <1>3, <3>2 DEF Writes
    <3> QED BY <1>3, <2>1, <2>4, <3>1, <3>2 DEF DoneLasts
  <2> QED BY <2>2, <2>3, <2>4
<1> QED BY <1>2, <1>4, <1>8

\* A step that writes nothing, ends threads only as failed and answers only
\* writes that were done.
LEMMA QuietStep ==
  ASSUME MemoryInv, MemoryTypes', UNCHANGED <<asked, before, table>>,
         \A r \in Requests :
           /\ thread'[r] = thread[r] \/ (thread[r] = "running" /\ thread'[r] = "failed")
           /\ caller'[r] = "none" <=> caller[r] = "none"
           /\ caller'[r] = "answered" /\ caller[r] # "answered" =>
                thread'[r] = "done" \/ asked[r][1].kind = "retrieve"
  PROVE  MemoryInv'
<1> USE DEF MemoryInv
<1>1. NotYetAsked' /\ BeforeIsOver' /\ AnsweredIsDone'
  BY DEF MemoryTypes, NotYetAsked, BeforeIsOver, AnsweredIsDone, Ended
<1>2. \A q \in Requests : thread'[q] = "done" <=> thread[q] = "done"
  OBVIOUS
<1>3. DoneLasts'
  BY <1>2 DEF DoneLasts, Writes, Left
<1> QED BY <1>1, <1>3

LEMMA MemoryStep ==
  ASSUME MemoryInv, [MemoryNext]_memoryVars
  PROVE  MemoryInv'
<1>1. ASSUME NEW r \in Requests, Ask(r)
      PROVE  MemoryInv'
  BY <1>1, AskStep
<1>2. ASSUME NEW r \in Requests, Runs(r)
      PROVE  MemoryInv'
  BY <1>2, RunStep
<1>3. CASE Initialize \/ UNCHANGED memoryVars
  <2>1. MemoryTypes' /\ UNCHANGED <<asked, thread, caller, before, table>>
    BY <1>3 DEF Initialize, requests, memoryVars, MemoryInv, MemoryTypes
  <2> QED BY <2>1, QuietStep
<1>4. ASSUME NEW r \in Requests, RunFails(r) \/ Answer(r) \/ CancelCaller(r)
      PROVE  MemoryInv'
  <2>1. MemoryTypes'
    BY <1>4 DEF RunFails, Answer, CancelCaller, MemoryInv, MemoryTypes
  <2> QED BY <1>4, <2>1, QuietStep DEF RunFails, Answer, CancelCaller, MemoryInv, MemoryTypes
<1>5. CASE Kill
  <2>1. MemoryTypes'
    BY <1>5 DEF Kill, MemoryInv, MemoryTypes
  <2> QED BY <1>5, <2>1, QuietStep DEF Kill, MemoryInv, MemoryTypes
<1> QED BY <1>1, <1>2, <1>3, <1>4, <1>5 DEF MemoryNext

\* What a caller was told is written is there, until a thread writes the same
\* record that had not ended when the caller asked; for any number of calls,
\* through cancelled callers, failures and the death of the process.
THEOREM AnswersAreDurable == MemorySpec => []AnsweredWritesLast
<1>1. MemoryInit => MemoryInv
  BY MemoryInitially
<1>2. MemoryInv /\ [MemoryNext]_memoryVars => MemoryInv'
  BY MemoryStep
<1>3. MemoryInv => AnsweredWritesLast
  BY MemoryInvImplies
<1> QED BY <1>1, <1>2, <1>3, PTL DEF MemorySpec

(***************************************************************************)
(* The memory.  What is retrieved is the newest, for any times and zones.  *)
(***************************************************************************)
\* The order of the texts is that of seconds and fractions: a text without a
\* fraction comes before one with a fraction.
Earlier(s, t) == s[1] < t[1] \/ (s[1] = t[1] /\ s[2] < t[2])

UtcTimes == {t \in Times : t.offset = 0}

LEMMA TextOrder ==
  ASSUME NEW t \in UtcTimes, NEW u \in UtcTimes
  PROVE  /\ TextBefore(IsoFormat(t), IsoFormat(u)) <=> Earlier(Instant(t), Instant(u))
         /\ IsoFormat(t) = IsoFormat(u) <=> Instant(t) = Instant(u)
<1>1. /\ t.second \in Int /\ t.fraction \in Nat /\ t.offset = 0
      /\ u.second \in Int /\ u.fraction \in Nat /\ u.offset = 0
  BY DEF UtcTimes, Times
<1>2. Instant(t) = <<t.second, t.fraction>> /\ Instant(u) = <<u.second, u.fraction>>
  BY <1>1 DEF Instant
<1>3. ASSUME NEW x \in UtcTimes
      PROVE  IsoFormat(x) = IF x.fraction = 0 THEN <<x.second, 0, 0>>
                            ELSE <<x.second, 1, x.fraction, 0, 0>>
  BY DEF UtcTimes, Times, IsoFormat
<1> DEFINE s == IsoFormat(t)
           v == IsoFormat(u)
<1>4. CASE t.fraction = 0 /\ u.fraction = 0
  <2>1. s = <<t.second, 0, 0>> /\ v = <<u.second, 0, 0>>
    BY <1>3, <1>4
  <2> HIDE DEF s, v
  <2>2. DOMAIN s \cap DOMAIN v = 1..3
    BY <2>1
  <2>3. TextBefore(s, v) <=>
          \E i \in 1..3 : s[i] < v[i] /\ \A j \in 1..(i - 1) : s[j] = v[j]
    BY <2>2 DEF TextBefore
  <2>4. TextBefore(s, v) <=> t.second < u.second
    BY <1>1, <1>4, <2>1, <2>3
  <2> QED BY <1>1, <1>2, <1>4, <2>1, <2>4 DEF s, v, Earlier
<1>5. CASE t.fraction = 0 /\ u.fraction # 0
  <2>1. s = <<t.second, 0, 0>> /\ v = <<u.second, 1, u.fraction, 0, 0>>
    BY <1>3, <1>5
  <2> HIDE DEF s, v
  <2>2. DOMAIN s \cap DOMAIN v = 1..3
    BY <2>1
  <2>3. TextBefore(s, v) <=>
          \E i \in 1..3 : s[i] < v[i] /\ \A j \in 1..(i - 1) : s[j] = v[j]
    BY <2>2 DEF TextBefore
  <2>4. TextBefore(s, v) <=> t.second <= u.second
    BY <1>1, <1>5, <2>1, <2>3
  <2> QED BY <1>1, <1>2, <1>5, <2>1, <2>4 DEF s, v, Earlier
<1>6. CASE t.fraction # 0 /\ u.fraction = 0
  <2>1. s = <<t.second, 1, t.fraction, 0, 0>> /\ v = <<u.second, 0, 0>>
    BY <1>3, <1>6
  <2> HIDE DEF s, v
  <2>2. DOMAIN s \cap DOMAIN v = 1..3
    BY <2>1
  <2>3. TextBefore(s, v) <=>
          \E i \in 1..3 : s[i] < v[i] /\ \A j \in 1..(i - 1) : s[j] = v[j]
    BY <2>2 DEF TextBefore
  <2>4. TextBefore(s, v) <=> t.second < u.second
    BY <1>1, <1>6, <2>1, <2>3
  <2> QED BY <1>1, <1>2, <1>6, <2>1, <2>4 DEF s, v, Earlier
<1>7. CASE t.fraction # 0 /\ u.fraction # 0
  <2>1. s = <<t.second, 1, t.fraction, 0, 0>> /\ v = <<u.second, 1, u.fraction, 0, 0>>
    BY <1>3, <1>7
  <2> HIDE DEF s, v
  <2>2. DOMAIN s \cap DOMAIN v = 1..5
    BY <2>1
  <2>3. TextBefore(s, v) <=>
          \E i \in 1..5 : s[i] < v[i] /\ \A j \in 1..(i - 1) : s[j] = v[j]
    BY <2>2 DEF TextBefore
  <2>4. TextBefore(s, v) <=> t.second < u.second \/ (t.second = u.second /\ t.fraction < u.fraction)
    BY <1>1, <1>7, <2>1, <2>3
  <2> QED BY <1>1, <1>2, <1>7, <2>1, <2>4 DEF s, v, Earlier
<1> QED BY <1>1, <1>4, <1>5, <1>6, <1>7

\* The rows of the table, by their ids.
Stored == {r \in [id : Nat, content : STRING, created : Times] : r.created.offset = 0}

TableInv ==
  /\ table = [id \in DOMAIN table |-> table[id]]
  /\ rows = [r \in Requests |-> rows[r]]
  /\ IsFiniteSet(DOMAIN table)
  /\ \A id \in DOMAIN table : table[id] \in Stored /\ table[id].id = id

\* Any two rows of different ids are read one before the other.
LEMMA ReadOrder ==
  ASSUME NEW r \in Stored, NEW s \in Stored
  PROVE  ReadBefore(r, s) <=>
           \/ Earlier(Instant(s.created), Instant(r.created))
           \/ Instant(r.created) = Instant(s.created) /\ r.id < s.id
<1>1. r.created \in UtcTimes /\ s.created \in UtcTimes
  BY DEF Stored, UtcTimes
<1> QED BY <1>1, TextOrder DEF ReadBefore

LEMMA ReadOrderIsTotal ==
  ASSUME NEW r \in Stored, NEW s \in Stored
  PROVE  /\ ~ ReadBefore(r, r)
         /\ r.id # s.id => ReadBefore(r, s) \/ ReadBefore(s, r)
         /\ \A t \in Stored : ReadBefore(r, s) /\ ReadBefore(s, t) => ReadBefore(r, t)
<1>1. ASSUME NEW x \in Stored
      PROVE  /\ x.id \in Nat
             /\ Instant(x.created) = <<Instant(x.created)[1], Instant(x.created)[2]>>
             /\ Instant(x.created)[1] \in Int /\ Instant(x.created)[2] \in Nat
  BY DEF Stored, Times, Instant
<1> DEFINE a(x) == Instant(x.created)[1]
           b(x) == Instant(x.created)[2]
<1>2. ASSUME NEW x \in Stored, NEW y \in Stored
      PROVE  ReadBefore(x, y) <=> \/ a(y) < a(x)
                                  \/ a(y) = a(x) /\ b(y) < b(x)
                                  \/ a(y) = a(x) /\ b(y) = b(x) /\ x.id < y.id
  BY <1>1, ReadOrder DEF Earlier
<1>3. ASSUME NEW x \in Stored
      PROVE  x.id \in Nat /\ a(x) \in Int /\ b(x) \in Nat
  BY <1>1
<1> HIDE DEF a, b
<1>4. ~ ReadBefore(r, r) /\ (r.id # s.id => ReadBefore(r, s) \/ ReadBefore(s, r))
  BY <1>2, <1>3
<1>5. ASSUME NEW t \in Stored, ReadBefore(r, s), ReadBefore(s, t)
      PROVE  ReadBefore(r, t)
  BY <1>2, <1>3, <1>5
<1> QED BY <1>4, <1>5

Rows == {S \in SUBSET Stored : IsFiniteSet(S) /\ \A r, s \in S : r.id = s.id => r = s}

Preceding(S, r) == {s \in S : ReadBefore(s, r)}

LEMMA RanksIncrease ==
  ASSUME NEW S \in Rows, NEW r \in S
  PROVE  /\ Cardinality(Preceding(S, r)) \in 0..(Cardinality(S) - 1)
         /\ \A s \in S : ReadBefore(r, s) =>
              Cardinality(Preceding(S, r)) < Cardinality(Preceding(S, s))
<1>1. S \subseteq Stored /\ IsFiniteSet(S) /\ r \notin Preceding(S, r)
  BY ReadOrderIsTotal DEF Rows, Preceding
<1>2. ASSUME NEW T, IsFiniteSet(T), Preceding(S, r) \subseteq T \ {r}, r \in T
      PROVE  /\ Cardinality(Preceding(S, r)) \in Nat /\ Cardinality(T) \in Nat
             /\ Cardinality(Preceding(S, r)) < Cardinality(T)
  <2>1. IsFiniteSet(T \ {r}) /\ Cardinality(T \ {r}) = Cardinality(T) - 1
    BY <1>2, FS_RemoveElement
  <2>2. /\ IsFiniteSet(Preceding(S, r))
        /\ Cardinality(Preceding(S, r)) <= Cardinality(T \ {r})
    BY <1>2, <2>1, FS_Subset
  <2>3. Cardinality(Preceding(S, r)) \in Nat /\ Cardinality(T) \in Nat
    BY <1>2, <2>2, FS_CardinalityType
  <2> QED BY <2>1, <2>2, <2>3
<1>3. /\ Cardinality(Preceding(S, r)) \in Nat /\ Cardinality(S) \in Nat
      /\ Cardinality(Preceding(S, r)) < Cardinality(S)
  <2>1. Preceding(S, r) \subseteq S \ {r}
    BY <1>1 DEF Preceding
  <2> QED BY <1>1, <1>2, <2>1
<1>4. ASSUME NEW s \in S, ReadBefore(r, s)
      PROVE  Cardinality(Preceding(S, r)) < Cardinality(Preceding(S, s))
  <2>1. Preceding(S, r) \subseteq Preceding(S, s) \ {r} /\ r \in Preceding(S, s)
    BY <1>1, <1>4, ReadOrderIsTotal DEF Preceding
  <2>2. IsFiniteSet(Preceding(S, s))
    BY <1>1, FS_Subset DEF Preceding
  <2> QED BY <1>2, <2>1, <2>2
<1> QED BY <1>3, <1>4

\* Every row has its place, and the places are in the order of ReadBefore.
LEMMA SortedIs ==
  ASSUME NEW S \in Rows
  PROVE  LET found == Sorted(S)
             n == Cardinality(S)
         IN /\ n \in Nat /\ found \in [1..n -> S]
            /\ \A r \in S : \E i \in 1..n : found[i] = r
            /\ \A i, j \in 1..n : i < j => ~ ReadBefore(found[j], found[i])
<1> DEFINE n == Cardinality(S)
           rank == [r \in S |-> Cardinality(Preceding(S, r)) + 1]
           found == Sorted(S)
<1>1. n \in Nat /\ IsFiniteSet(S) /\ IsFiniteSet(1..n) /\ Cardinality(1..n) = n
  BY FS_CardinalityType, FS_Interval DEF Rows
<1>2. ASSUME NEW r \in S
      PROVE  rank[r] \in 1..n
  BY <1>1, RanksIncrease
<1>3. ASSUME NEW r \in S, NEW s \in S, ReadBefore(r, s)
      PROVE  rank[r] < rank[s]
  BY <1>1, <1>3, RanksIncrease
<1>4. ASSUME NEW r \in S, NEW s \in S, rank[r] = rank[s]
      PROVE  r = s
  <2>1. r.id = s.id
    <3>1. ~ ReadBefore(r, s) /\ ~ ReadBefore(s, r)
      BY <1>2, <1>3, <1>4
    <3> QED BY <3>1, ReadOrderIsTotal DEF Rows
  <2> QED BY <2>1 DEF Rows
<1>5. rank \in Surjection(S, 1..n)
  <2>1. rank \in Injection(S, 1..n)
    BY <1>2, <1>4 DEF Injection, IsInjective
  <2> QED BY <1>1, <2>1, FS_Injection
<1>6. ASSUME NEW i \in 1..n
      PROVE  found[i] \in S /\ rank[found[i]] = i
  <2>1. \E r \in S : Cardinality(Preceding(S, r)) = i - 1
    <3>1. PICK r \in S : rank[r] = i
      BY <1>5 DEF Surjection
    <3>2. Cardinality(Preceding(S, r)) \in Nat
      BY <1>1, RanksIncrease
    <3> QED BY <3>1, <3>2
  <2>2. found[i] = CHOOSE r \in S : Cardinality(Preceding(S, r)) = i - 1
    BY DEF Sorted, Preceding
  <2> QED BY <2>1, <2>2
<1>7. ASSUME NEW r \in S
      PROVE  \E i \in 1..n : found[i] = r
  BY <1>2, <1>4, <1>6
<1>8. ASSUME NEW i \in 1..n, NEW j \in 1..n, i < j, ReadBefore(found[j], found[i])
      PROVE  FALSE
  <2>1. found[i] \in S /\ found[j] \in S /\ rank[found[i]] = i /\ rank[found[j]] = j
    BY <1>6
  <2>2. rank[found[j]] < rank[found[i]]
    BY <1>3, <1>8, <2>1
  <2> QED BY <1>8, <2>1, <2>2
<1>9. found \in [1..n -> S]
  BY <1>6 DEF Sorted
<1> QED BY <1>1, <1>7, <1>8, <1>9

\* A record is written with its time in UTC.
LEMMA RowIsKept ==
  ASSUME NEW record \in Records
  PROVE  Row(record) \in Stored /\ Row(record).id = record.id
<1>1. record \in [id : Nat, content : STRING, created : Times]
  BY MemoryAssumption
<1>2. ToUtc(record.created) \in Times /\ ToUtc(record.created).offset = 0
  BY <1>1 DEF ToUtc, Times
<1> QED BY <1>1, <1>2 DEF Row, Stored

LEMMA TableInitially == MemoryInit => TableInv
<1> SUFFICES ASSUME MemoryInit PROVE TableInv
  OBVIOUS
<1>1. PICK ids \in SUBSET MemoryIds :
        /\ IsFiniteSet(ids)
        /\ \E record \in [ids -> Records] :
             /\ \A id \in ids : record[id].id = id
             /\ table = [id \in ids |-> Row(record[id])]
  BY DEF MemoryInit
<1>2. PICK record \in [ids -> Records] :
        /\ \A id \in ids : record[id].id = id
        /\ table = [id \in ids |-> Row(record[id])]
  BY <1>1
<1>3. \A id \in ids : table[id] \in Stored /\ table[id].id = id
  BY <1>1, <1>2, RowIsKept
<1>4. rows = [r \in Requests |-> <<>>]
  BY DEF MemoryInit, NoRequests
<1> QED BY <1>1, <1>2, <1>3, <1>4 DEF TableInv

LEMMA TableStep ==
  ASSUME MemoryTypes, NotYetAsked, TableInv, [MemoryNext]_memoryVars
  PROVE  TableInv'
<1>0. rows' = [r \in Requests |-> rows'[r]]
  BY DEF TableInv, MemoryNext, Initialize, Kill, Ask, Runs, RunFails, Answer, CancelCaller,
         requests, memoryVars
<1>1. CASE table' = table
  BY <1>0, <1>1 DEF TableInv
<1>2. ASSUME NEW record \in Records, StoreSync(record)
      PROVE  TableInv'
  <2>1. IsFiniteSet(DOMAIN table \cup {record.id})
    BY FS_AddElement DEF TableInv
  <2> QED BY <1>0, <1>2, <2>1, RowIsKept DEF TableInv, StoreSync
<1>3. ASSUME NEW id, DeleteSync(id)
      PROVE  TableInv'
  <2>1. IsFiniteSet(DOMAIN table \ {id})
    BY FS_RemoveElement DEF TableInv
  <2> QED BY <1>0, <1>3, <2>1 DEF TableInv, DeleteSync, Restrict
<1>4. ASSUME NEW r \in Requests, Runs(r)
      PROVE  TableInv'
  <2>1. asked[r][1] \in Operations
    BY <1>4 DEF Runs, MemoryTypes, NotYetAsked
  <2>2. asked[r][1].kind = "store" => asked[r][1].record \in Records
    BY <2>1 DEF Operations
  <2> QED BY <1>1, <1>2, <1>3, <1>4, <2>2 DEF Runs
<1>5. CASE UNCHANGED memoryVars \/ Initialize \/ Kill
           \/ \E r \in Requests : Ask(r) \/ RunFails(r) \/ Answer(r) \/ CancelCaller(r)
  BY <1>1, <1>5 DEF memoryVars, Initialize, Kill, Ask, RunFails, Answer, CancelCaller
<1> QED BY <1>4, <1>5 DEF MemoryNext

\* What a query finds are rows of different ids.
LEMMA MatchingIs ==
  ASSUME TableInv, NEW query
  PROVE  Matching(query) \in Rows
<1>1. IsFiniteSet(Range(table))
  <2>1. table \in Surjection(DOMAIN table, Range(table))
    BY DEF Surjection, Range, TableInv
  <2> QED BY <2>1, FS_Surjection DEF TableInv
<1>2. Matching(query) \subseteq Range(table)
  BY DEF Matching
<1>3. IsFiniteSet(Matching(query))
  BY <1>1, <1>2, FS_Subset
<1> QED BY <1>2, <1>3 DEF Rows, Range, TableInv

\* The first rows in the order of ReadBefore are the newest.
LEMMA NewestAreFirst ==
  ASSUME NEW S \in Rows, NEW limit \in Nat
  PROVE  LET found == Sorted(S)
             read == SubSeq(found, 1, IF Len(found) < limit THEN Len(found) ELSE limit)
             time == [i \in DOMAIN read |-> Instant(read[i].created)]
             rest == S \ Range(read)
         IN /\ \A i, j \in DOMAIN read : i < j => ~ Later(time[j], time[i])
            /\ \A s \in rest : /\ Len(read) = limit
                               /\ \A i \in DOMAIN read : ~ Later(Instant(s.created), time[i])
<1> DEFINE n == Cardinality(S)
           found == Sorted(S)
           m == IF Len(found) < limit THEN Len(found) ELSE limit
           read == SubSeq(found, 1, m)
<1>1. /\ n \in Nat /\ found \in [1..n -> S]
      /\ \A r \in S : \E i \in 1..n : found[i] = r
      /\ \A i, j \in 1..n : i < j => ~ ReadBefore(found[j], found[i])
  BY SortedIs
<1> HIDE DEF found, n
<1>2. found \in Seq(S) /\ Len(found) = n
  BY <1>1
<1>3. m \in 0..n /\ (m < n => m = limit)
  BY <1>1, <1>2
<1>4. Len(read) = m /\ DOMAIN read = 1..m /\ \A i \in 1..m : read[i] = found[i]
  BY <1>1, <1>2, <1>3
<1> HIDE DEF m, read
<1>5. \A r, s \in S : Later(Instant(r.created), Instant(s.created)) => ReadBefore(r, s)
  BY ReadOrder DEF Rows, Later, Earlier
<1>6. ASSUME NEW i \in DOMAIN read, NEW j \in DOMAIN read, i < j
      PROVE  ~ Later(Instant(read[j].created), Instant(read[i].created))
  <2>1. i \in 1..n /\ j \in 1..n /\ read[i] = found[i] /\ read[j] = found[j]
    BY <1>1, <1>3, <1>4
  <2>2. found[i] \in S /\ found[j] \in S /\ ~ ReadBefore(found[j], found[i])
    BY <1>1, <1>6, <2>1
  <2> QED BY <1>5, <2>1, <2>2
<1>7. ASSUME NEW s \in S \ Range(read)
      PROVE  /\ Len(read) = limit
             /\ \A i \in DOMAIN read : ~ Later(Instant(s.created), Instant(read[i].created))
  <2>1. PICK k \in 1..n : found[k] = s
    BY <1>1
  <2>2. k > m
    BY <1>1, <1>3, <1>4, <2>1 DEF Range
  <2>3. m = limit
    BY <1>1, <1>3, <2>2
  <2>4. ASSUME NEW i \in DOMAIN read
        PROVE  ~ Later(Instant(s.created), Instant(read[i].created))
    <3>1. i \in 1..n /\ i < k /\ read[i] = found[i]
      BY <1>1, <1>3, <1>4, <2>2
    <3>2. found[i] \in S /\ ~ ReadBefore(s, found[i])
      BY <1>1, <2>1, <3>1
    <3> QED BY <1>5, <3>1, <3>2
  <2> QED BY <1>4, <2>3, <2>4
<1> QED BY <1>6, <1>7 DEF read, m, found

\* retrieve reads the newest records that match, newest first, whatever the
\* zones and fractions of their times: sqlite's order of the texts is that of
\* the instants, for any table and limit.
THEOREM NewestAreReturned == MemorySpec => NewestAreRead
<1>1. MemoryInit => MemoryInv /\ TableInv
  BY MemoryInitially, TableInitially
<1>2. MemoryInv /\ TableInv /\ [MemoryNext]_memoryVars => MemoryInv' /\ TableInv'
  BY MemoryStep, TableStep DEF MemoryInv
<1> DEFINE P(r) ==
      thread'[r] = "done" /\ thread[r] # "done" /\ asked[r][1].kind = "retrieve" =>
         LET read == rows'[r]
             time == [i \in DOMAIN read |-> Instant(read[i].created)]
             rest == Matching(asked[r][1].query) \ Range(read)
         IN /\ \A i, j \in DOMAIN read : i < j => ~ Later(time[j], time[i])
            /\ \A s \in rest : /\ Len(read) = asked[r][1].limit
                               /\ \A i \in DOMAIN read : ~ Later(Instant(s.created), time[i])
<1>3. MemoryInv /\ TableInv /\ [MemoryNext]_memoryVars => [\A r \in Requests : P(r)]_memoryVars
  <2> SUFFICES ASSUME MemoryInv, TableInv, MemoryNext, NEW r \in Requests,
                      thread'[r] = "done", thread[r] # "done", asked[r][1].kind = "retrieve"
               PROVE  P(r)
    OBVIOUS
  <2> USE DEF MemoryInv, MemoryTypes
  <2>1. Runs(r)
    <3>1. ~ Initialize /\ ~ Kill
      BY DEF Initialize, requests, Kill
    <3>2. PICK q \in Requests : Ask(q) \/ Runs(q) \/ RunFails(q) \/ Answer(q) \/ CancelCaller(q)
      BY <3>1 DEF MemoryNext
    <3> QED BY <3>2 DEF Ask, Runs, RunFails, Answer, CancelCaller
  <2> DEFINE op == asked[r][1]
  <2>2. op \in Operations
    BY <2>1 DEF Runs, NotYetAsked
  <2>3. op.limit \in Nat
    BY <2>2, MemoryAssumption DEF Operations
  <2>4. rows' = [rows EXCEPT ![r] = RetrieveSync(op.query, op.limit)]
    BY <2>1 DEF Runs
  <2>5. rows'[r] = RetrieveSync(op.query, op.limit)
    BY <2>4 DEF TableInv
  <2>6. Matching(op.query) \in Rows
    BY MatchingIs
  <2> QED BY <2>3, <2>5, <2>6, NewestAreFirst DEF RetrieveSync
<1> QED BY <1>1, <1>2, <1>3, PTL DEF MemorySpec, NewestAreRead

(***************************************************************************)
(* The evaluation.  Its reports keep step, for any number of runs.         *)
(***************************************************************************)
ReportFiles == [run : Nat, whole : BOOLEAN]

\* A report is of a run that finished.  The markdown report of a run is
\* whole before its JSON report is begun, and is begun before any later one.
ReportInv ==
  /\ \E S : finished \in Seq(S)
  /\ markdown \in ReportFiles /\ json \in ReportFiles
  /\ json.run <= markdown.run /\ markdown.run <= Len(finished)
  /\ json.whole => json.run # 0
  /\ json.run # 0 /\ json.run = markdown.run => markdown.whole
  /\ stage = "markdown" => markdown.run < Len(finished)
  /\ stage = "markdown_open" => json.run < Len(finished) /\ markdown.run = Len(finished)
  /\ stage \in {"json", "json_open"} =>
       markdown = [run |-> Len(finished), whole |-> TRUE] /\ Len(finished) # 0
  /\ \A i \in DOMAIN loaded : loaded[i] \in DOMAIN finished

LEMMA AppendGrows ==
  ASSUME NEW S, NEW s \in Seq(S), NEW e
  PROVE  /\ Append(s, e) \in Seq(S \cup {e})
         /\ Len(Append(s, e)) = Len(s) + 1 /\ Len(s) \in Nat
         /\ DOMAIN s = 1..Len(s) /\ DOMAIN Append(s, e) = 1..(Len(s) + 1)
<1>1. s \in Seq(S \cup {e})
  OBVIOUS
<1> QED  BY <1>1

LEMMA RunsAreNumbered ==
  ASSUME ReportInv
  PROVE  Len(finished) \in Nat /\ DOMAIN finished = 1..Len(finished)
  BY DEF ReportInv

LEMMA MeasuringKeeps ==
  ASSUME ReportInv, StartEvaluation \/ RunRunner \/ RunReliabilityTest \/ Abort
  PROVE  ReportInv'
<1>1. UNCHANGED <<finished, markdown, json, loaded>>
  BY DEF StartEvaluation, RunRunner, RunReliabilityTest, Abort, reports
<1>2. stage' \in {"idle", "measure", "test", "summarise"}
  BY DEF StartEvaluation, RunRunner, RunReliabilityTest, Abort
<1> QED  BY <1>1, <1>2 DEF ReportInv

LEMMA FinishKeepsReports ==
  ASSUME ReportInv, FinishRun
  PROVE  ReportInv'
<1> DEFINE run == [results |-> results, tests |-> tests, summary |-> ComputeSummary]
<1>1. PICK S : finished \in Seq(S)
  BY DEF ReportInv
<1>2. finished' = Append(finished, run)
  BY DEF FinishRun
<1> HIDE DEF run
<1>3. /\ finished' \in Seq(S \cup {run})
      /\ Len(finished') = Len(finished) + 1 /\ Len(finished) \in Nat
      /\ DOMAIN finished = 1..Len(finished) /\ DOMAIN finished' = 1..(Len(finished) + 1)
  BY <1>1, <1>2, AppendGrows
<1>4. UNCHANGED <<markdown, json, loaded>> /\ stage' = "markdown"
  BY DEF FinishRun, reports
<1>5. json.run \in Nat /\ markdown.run \in Nat
  BY DEF ReportInv, ReportFiles
<1> QED  BY <1>3, <1>4, <1>5 DEF ReportInv

LEMMA MarkdownKeepsReports ==
  ASSUME ReportInv, WriteMarkdown
  PROVE  ReportInv'
<1>1. UNCHANGED <<finished, json, loaded>>
  BY DEF WriteMarkdown
<1>2. json.run \in Nat /\ markdown.run \in Nat /\ Len(finished) \in Nat
  BY RunsAreNumbered DEF ReportInv, ReportFiles
<1>3. CASE stage = "markdown" /\ Written(markdown, FALSE) /\ stage' = "markdown_open"
  <2>1. markdown' = [run |-> Len(finished), whole |-> FALSE]
    BY <1>3 DEF Written
  <2>2. json.run < Len(finished)
    BY <1>2, <1>3 DEF ReportInv
  <2> QED  BY <1>1, <1>2, <1>3, <2>1, <2>2 DEF ReportInv, ReportFiles
<1>4. CASE stage = "markdown_open" /\ Written(markdown, TRUE) /\ stage' = "json"
  <2>1. markdown' = [run |-> Len(finished), whole |-> TRUE]
    BY <1>4 DEF Written
  <2> QED  BY <1>1, <1>2, <1>4, <2>1 DEF ReportInv, ReportFiles
<1> QED  BY <1>3, <1>4 DEF WriteMarkdown

LEMMA JsonKeepsReports ==
  ASSUME ReportInv, WriteJson
  PROVE  ReportInv'
<1>1. UNCHANGED <<finished, markdown, loaded>> /\ stage' \in {"json_open", "idle"}
  BY DEF WriteJson
<1>2. \E whole \in BOOLEAN : json' = [run |-> Len(finished), whole |-> whole]
  BY DEF WriteJson, Written
<1>3. markdown = [run |-> Len(finished), whole |-> TRUE] /\ Len(finished) # 0
  BY DEF WriteJson, ReportInv
<1>4. Len(finished) \in Nat
  BY RunsAreNumbered
<1> QED  BY <1>1, <1>2, <1>3, <1>4 DEF ReportInv, ReportFiles

LEMMA LoadKeepsReports ==
  ASSUME ReportInv, LoadPreviousRun
  PROVE  ReportInv'
<1>1. UNCHANGED <<finished, markdown, json, stage>>
  BY DEF LoadPreviousRun
<1>2. json.run \in Nat /\ markdown.run \in Nat
  BY DEF ReportInv, ReportFiles
<1>3. json.whole => json.run \in DOMAIN finished
  BY <1>2, RunsAreNumbered DEF ReportInv
<1>4. \A i \in DOMAIN loaded' : loaded'[i] \in DOMAIN finished
  BY <1>3 DEF LoadPreviousRun
<1> QED  BY <1>1, <1>4 DEF ReportInv

LEMMA ReportInvariant == EvaluationSpec => []ReportInv
<1>1. EvaluationInit => ReportInv
  <2> SUFFICES ASSUME EvaluationInit PROVE ReportInv
    OBVIOUS
  <2>1. finished \in Seq({})
    BY DEF EvaluationInit
  <2> QED  BY <2>1 DEF EvaluationInit, ReportInv, ReportFiles, NoReport
<1>2. ReportInv /\ [EvaluationNext]_evaluationVars => ReportInv'
  BY MeasuringKeeps, FinishKeepsReports, MarkdownKeepsReports, JsonKeepsReports,
     LoadKeepsReports DEF EvaluationNext, evaluationVars, ReportInv
<1> QED  BY <1>1, <1>2, PTL DEF EvaluationSpec

\* Whenever the process is killed and however many runs follow, the JSON
\* report is not ahead of the markdown one, and what is loaded is a run that
\* finished.
THEOREM ReportsStayInStep == EvaluationSpec => []ReportsInStep
<1>1. ReportInv => ReportsInStep
  BY DEF ReportInv, ReportsInStep
<1> QED  BY <1>1, ReportInvariant, PTL

(***************************************************************************)
(* The summaries of the evaluation.  Each failure has a metric of its own, *)
(* which the report of one runner shows; that different transcripts have an *)
(* error rate takes the dynamic program, filled diagonal by diagonal.      *)
(***************************************************************************)
\* Induction over the numbers, for a set of them.
LEMMA CountUp ==
  ASSUME NEW S, 0 \in S, \A n \in Nat : n \in S => n + 1 \in S
  PROVE  Nat \subseteq S
<1>1. SUFFICES ASSUME Nat \ S # {}
               PROVE  FALSE
  OBVIOUS
<1>2. \E R : /\ \E m \in Nat \ S : \A k \in Nat \ S : ~ (<<k, m>> \in R)
             /\ \A k, m \in Nat : k < m => <<k, m>> \in R
  <2>1. \E m \in Nat \ S : \A k \in Nat \ S : ~ (<<k, m>> \in OpToRel(<, Nat))
    BY <1>1, NatLessThanWellFounded, WFMin
  <2>2. \A k, m \in Nat : k < m => <<k, m>> \in OpToRel(<, Nat)
    BY DEF OpToRel
  <2> QED  BY <2>1, <2>2, Zenon
<1>3. PICK m \in Nat \ S : \A k \in Nat \ S : ~ (k < m)
  BY <1>2
<1>4. m # 0 /\ m - 1 \in Nat /\ m - 1 < m /\ (m - 1) + 1 = m
  BY <1>3
<1> QED  BY <1>3, <1>4

\* The step of the dynamic program.
Entry(a, b, g, i, j) ==
  IF i = 0 THEN j
  ELSE IF j = 0 THEN i
  ELSE IF a[i] = b[j] THEN g[<<i - 1, j - 1>>]
  ELSE 1 + Least(g[<<i - 1, j>>], g[<<i, j - 1>>], g[<<i - 1, j - 1>>])

Tables(a, b) == [(0..Len(a)) \X (0..Len(b)) -> Nat]

LEMMA LeastIs ==
  ASSUME NEW i \in Nat, NEW j \in Nat, NEW k \in Nat
  PROVE  /\ Least(i, j, k) \in {i, j, k}
         /\ Least(i, j, k) <= i /\ Least(i, j, k) <= j /\ Least(i, j, k) <= k
<1>1. \E x \in {i, j, k} : x <= i /\ x <= j /\ x <= k
  OBVIOUS
<1> QED  BY <1>1 DEF Least

\* An entry is a number, and looks only at entries nearer to the corner.
LEMMA EntryLooksBack ==
  ASSUME NEW a, NEW b, Len(a) \in Nat, Len(b) \in Nat,
         NEW g \in Tables(a, b), NEW h,
         NEW i \in 0..Len(a), NEW j \in 0..Len(b),
         \A k \in 0..Len(a), l \in 0..Len(b) : k + l < i + j => g[<<k, l>>] = h[<<k, l>>]
  PROVE  Entry(a, b, g, i, j) \in Nat /\ Entry(a, b, g, i, j) = Entry(a, b, h, i, j)
<1>1. CASE i = 0 \/ j = 0
  BY <1>1 DEF Entry
<1>2. CASE i # 0 /\ j # 0
  <2>1. /\ i - 1 \in 0..Len(a) /\ j - 1 \in 0..Len(b)
        /\ (i - 1) + j < i + j /\ i + (j - 1) < i + j /\ (i - 1) + (j - 1) < i + j
    BY <1>2
  <2>2. /\ g[<<i - 1, j>>] = h[<<i - 1, j>>] /\ g[<<i, j - 1>>] = h[<<i, j - 1>>]
        /\ g[<<i - 1, j - 1>>] = h[<<i - 1, j - 1>>]
    BY <2>1
  <2>3. g[<<i - 1, j>>] \in Nat /\ g[<<i, j - 1>>] \in Nat /\ g[<<i - 1, j - 1>>] \in Nat
    BY <2>1 DEF Tables
  <2>4. Least(g[<<i - 1, j>>], g[<<i, j - 1>>], g[<<i - 1, j - 1>>]) \in Nat
    BY <2>3, LeastIs
  <2> QED  BY <1>2, <2>2, <2>3, <2>4 DEF Entry
<1> QED  BY <1>1, <1>2

\* The table exists: it can be filled diagonal by diagonal.
LEMMA TableIsFilled ==
  ASSUME NEW a, NEW b, Len(a) \in Nat, Len(b) \in Nat
  PROVE  /\ EditTable(a, b) \in Tables(a, b)
         /\ \A i \in 0..Len(a), j \in 0..Len(b) :
              EditTable(a, b)[<<i, j>>] = Entry(a, b, EditTable(a, b), i, j)
<1> DEFINE Filled(g, k) ==
             /\ g \in Tables(a, b)
             /\ \A i \in 0..Len(a), j \in 0..Len(b) :
                  i + j <= k => g[<<i, j>>] = Entry(a, b, g, i, j)
           S == {k \in Nat : \E g : Filled(g, k)}
<1>1. 0 \in S
  <2> DEFINE g == [p \in (0..Len(a)) \X (0..Len(b)) |-> 0]
  <2>1. g \in Tables(a, b) /\ \A i \in 0..Len(a), j \in 0..Len(b) : g[<<i, j>>] = 0
    BY DEF Tables
  <2> HIDE DEF g
  <2>2. \A i \in 0..Len(a), j \in 0..Len(b) : i + j <= 0 => g[<<i, j>>] = Entry(a, b, g, i, j)
    BY <2>1 DEF Entry
  <2> QED  BY <2>1, <2>2
<1>2. ASSUME NEW k \in Nat, k \in S
      PROVE  k + 1 \in S
  <2>1. PICK g : Filled(g, k)
    BY <1>2
  <2> DEFINE h == [p \in (0..Len(a)) \X (0..Len(b)) |->
                     IF p[1] + p[2] = k + 1 THEN Entry(a, b, g, p[1], p[2]) ELSE g[p]]
  <2>2. \A i \in 0..Len(a), j \in 0..Len(b) : Entry(a, b, g, i, j) \in Nat
    BY <2>1, EntryLooksBack
  <2>3. \A i \in 0..Len(a), j \in 0..Len(b) :
          h[<<i, j>>] = IF i + j = k + 1 THEN Entry(a, b, g, i, j) ELSE g[<<i, j>>]
    OBVIOUS
  <2>4. h \in Tables(a, b)
    BY <2>1, <2>2 DEF Tables
  <2> HIDE DEF h
  <2>5. ASSUME NEW i \in 0..Len(a), NEW j \in 0..Len(b), i + j <= k + 1
        PROVE  h[<<i, j>>] = Entry(a, b, h, i, j)
    <3>1. Entry(a, b, g, i, j) = Entry(a, b, h, i, j)
      <4>1. \A m \in 0..Len(a), l \in 0..Len(b) : m + l < i + j => g[<<m, l>>] = h[<<m, l>>]
        BY <2>3, <2>5
      <4> QED  BY <2>1, <2>4, <4>1, EntryLooksBack
    <3>2. h[<<i, j>>] = Entry(a, b, g, i, j)
      <4>1. CASE i + j = k + 1
        BY <2>3, <4>1
      <4>2. CASE i + j # k + 1
        <5>1. i + j <= k
          BY <2>5, <4>2
        <5> QED  BY <2>1, <2>3, <4>2, <5>1
      <4> QED  BY <4>1, <4>2
    <3> QED  BY <3>1, <3>2
  <2> QED  BY <2>4, <2>5
<1> HIDE DEF S
<1>3. Nat \subseteq S
  BY <1>1, <1>2, CountUp
<1>4. PICK n \in Nat : n = Len(a) + Len(b)
  OBVIOUS
<1>5. n \in S
  BY <1>3, <1>4
<1>6. PICK g : Filled(g, n)
  BY <1>5 DEF S
<1>7. \A i \in 0..Len(a), j \in 0..Len(b) : i + j <= n
  BY <1>4
<1>8. \A i \in 0..Len(a), j \in 0..Len(b) : g[<<i, j>>] = Entry(a, b, g, i, j)
  BY <1>6, <1>7
<1>9. g = [p \in (0..Len(a)) \X (0..Len(b)) |-> Entry(a, b, g, p[1], p[2])]
  BY <1>6, <1>8 DEF Tables
<1>10. EditTable(a, b)
         = [p \in (0..Len(a)) \X (0..Len(b)) |-> Entry(a, b, EditTable(a, b), p[1], p[2])]
  BY <1>9 DEF EditTable, Entry
<1> DEFINE f == EditTable(a, b)
           E == {k \in Nat : \A i \in 0..Len(a), j \in 0..Len(b) :
                               i + j < k => g[<<i, j>>] = f[<<i, j>>]}
<1>11. \A i \in 0..Len(a), j \in 0..Len(b) : f[<<i, j>>] = Entry(a, b, f, i, j)
  BY <1>10
<1>12. f = [p \in (0..Len(a)) \X (0..Len(b)) |-> f[p]]
  BY <1>10
<1> HIDE DEF f
<1>13. 0 \in E
  OBVIOUS
<1>14. ASSUME NEW k \in Nat, k \in E
       PROVE  k + 1 \in E
  <2>1. ASSUME NEW i \in 0..Len(a), NEW j \in 0..Len(b), i + j < k + 1
        PROVE  g[<<i, j>>] = f[<<i, j>>]
    <3>1. \A m \in 0..Len(a), l \in 0..Len(b) : m + l < i + j => g[<<m, l>>] = f[<<m, l>>]
      BY <1>14, <2>1
    <3>2. Entry(a, b, g, i, j) = Entry(a, b, f, i, j)
      BY <1>6, <3>1, EntryLooksBack
    <3> QED  BY <1>8, <1>11, <3>2
  <2> QED  BY <2>1
<1> HIDE DEF E
<1>15. Nat \subseteq E
  BY <1>13, <1>14, CountUp
<1>16. \A i \in 0..Len(a), j \in 0..Len(b) : g[<<i, j>>] = f[<<i, j>>]
  <2>1. n + 1 \in E /\ \A i \in 0..Len(a), j \in 0..Len(b) : i + j < n + 1
    BY <1>7, <1>15
  <2>2. \A i \in 0..Len(a), j \in 0..Len(b) : i + j < n + 1 => g[<<i, j>>] = f[<<i, j>>]
    BY <2>1 DEF E
  <2> QED  BY <2>1, <2>2
<1>17. f = g
  <2>1. \A p \in (0..Len(a)) \X (0..Len(b)) : g[p] = f[p]
    BY <1>16
  <2> QED  BY <1>6, <1>12, <2>1 DEF Tables
<1> QED  BY <1>6, <1>8, <1>17 DEF f

\* A distance of zero is one of equal prefixes.
LEMMA ZeroIsEqual ==
  ASSUME NEW a, NEW b, Len(a) \in Nat, Len(b) \in Nat,
         NEW i \in 0..Len(a), NEW j \in 0..Len(b),
         EditTable(a, b)[<<i, j>>] = 0
  PROVE  i = j /\ \A l \in 1..i : a[l] = b[l]
<1> DEFINE g == EditTable(a, b)
           S == {k \in Nat : \A m \in 0..Len(a), n \in 0..Len(b) :
                               m <= k /\ g[<<m, n>>] = 0 =>
                                 m = n /\ \A l \in 1..m : a[l] = b[l]}
<1>1. /\ g \in Tables(a, b)
      /\ \A m \in 0..Len(a), n \in 0..Len(b) : g[<<m, n>>] = Entry(a, b, g, m, n)
  BY TableIsFilled
<1> HIDE DEF g
<1>2. 0 \in S
  <2> SUFFICES ASSUME NEW n \in 0..Len(b), g[<<0, n>>] = 0
               PROVE  n = 0
    OBVIOUS
  <2>1. 0 \in 0..Len(a)
    OBVIOUS
  <2>2. Entry(a, b, g, 0, n) = n
    BY DEF Entry
  <2> QED  BY <1>1, <2>1, <2>2
<1>3. ASSUME NEW k \in Nat, k \in S
      PROVE  k + 1 \in S
  <2> SUFFICES ASSUME NEW m \in 0..Len(a), NEW n \in 0..Len(b),
                      m = k + 1, g[<<m, n>>] = 0
               PROVE  m = n /\ \A l \in 1..m : a[l] = b[l]
    BY <1>3
  <2>1. Entry(a, b, g, m, n) = 0 /\ m # 0
    BY <1>1
  <2>2. n # 0
    BY <2>1 DEF Entry
  <2>3. m - 1 \in 0..Len(a) /\ n - 1 \in 0..Len(b) /\ m - 1 = k
    BY <2>2
  <2>4. a[m] = b[n] /\ g[<<m - 1, n - 1>>] = 0
    <3>1. Least(g[<<m - 1, n>>], g[<<m, n - 1>>], g[<<m - 1, n - 1>>]) \in Nat
      <4>1. /\ g[<<m - 1, n>>] \in Nat /\ g[<<m, n - 1>>] \in Nat
            /\ g[<<m - 1, n - 1>>] \in Nat
        BY <1>1, <2>3 DEF Tables
      <4>2. \A x, y, z \in Nat : Least(x, y, z) \in Nat
        BY LeastIs
      <4> QED  BY <4>1, <4>2
    <3> QED  BY <2>1, <2>2, <3>1 DEF Entry
  <2>5. m - 1 = n - 1 /\ \A l \in 1..(m - 1) : a[l] = b[l]
    BY <1>3, <2>3, <2>4
  <2> QED  BY <2>4, <2>5
<1> HIDE DEF S
<1>4. i \in S
  BY <1>2, <1>3, CountUp
<1> QED  BY <1>4 DEF S, g

\* Two transcripts that differ have an error rate above zero.
LEMMA UnequalHasErrors ==
  ASSUME NEW a \in Transcripts, NEW b \in Transcripts, ErrorRate(a, b)[1] = 0
  PROVE  a = b
<1>1. /\ \E n \in Nat : a \in [1..n -> Words] /\ Len(a) = n
      /\ \E n \in Nat : b \in [1..n -> Words] /\ Len(b) = n
  BY EvaluationAssumption DEF Transcripts
<1>2. CASE a = <<>>
  BY <1>2 DEF ErrorRate
<1>3. CASE a # <<>>
  <2>1. EditTable(a, b)[<<Len(a), Len(b)>>] = 0
    BY <1>3 DEF ErrorRate
  <2>2. Len(a) = Len(b) /\ \A l \in 1..Len(a) : a[l] = b[l]
    <3>1. Len(a) \in 0..Len(a) /\ Len(b) \in 0..Len(b) /\ Len(a) \in Nat /\ Len(b) \in Nat
      BY <1>1
    <3> QED  BY <2>1, <3>1, ZeroIsEqual
  <2>3. PICK n \in Nat : a \in [1..n -> Words] /\ Len(a) = n
    BY <1>1
  <2>4. PICK m \in Nat : b \in [1..m -> Words] /\ Len(b) = m
    BY <1>1
  <2>5. a \in [1..n -> Words] /\ b \in [1..n -> Words]
    BY <2>2, <2>3, <2>4
  <2>6. \A l \in 1..n : a[l] = b[l]
    BY <2>2, <2>3
  <2> QED  BY <2>5, <2>6
<1> QED  BY <1>2, <1>3

Statuses == {"pass", "fail", "inconclusive", "not_measured", "not_applicable"}

\* A sequence of results, each with one of the statuses.
Rated(s) == \E S : s \in Seq(S) /\ \A x \in S : x.status \in Statuses

\* Some result of the metric is a failure.
Shows(s, metric) == \E i \in 1..Len(s) : s[i].metric = metric /\ s[i].status = "fail"

LEMMA RatedHasStatuses ==
  ASSUME NEW s, Rated(s)
  PROVE  /\ Len(s) \in Nat /\ DOMAIN s = 1..Len(s)
         /\ \A i \in 1..Len(s) : s[i].status \in Statuses
  BY DEF Rated

LEMMA JoinRated ==
  ASSUME NEW s, NEW t, Rated(s), Rated(t)
  PROVE  /\ Rated(s \o t)
         /\ \A metric : Shows(s, metric) \/ Shows(t, metric) => Shows(s \o t, metric)
<1>1. PICK S : s \in Seq(S) /\ \A x \in S : x.status \in Statuses
  BY DEF Rated
<1>2. PICK T : t \in Seq(T) /\ \A x \in T : x.status \in Statuses
  BY DEF Rated
<1>3. s \in Seq(S \cup T) /\ t \in Seq(S \cup T) /\ Len(s) \in Nat /\ Len(t) \in Nat
  BY <1>1, <1>2
<1>4. /\ s \o t \in Seq(S \cup T)
      /\ Len(s \o t) = Len(s) + Len(t)
      /\ \A i \in 1..(Len(s) + Len(t)) :
           (s \o t)[i] = IF i <= Len(s) THEN s[i] ELSE t[i - Len(s)]
  BY <1>3, ConcatProperties
<1>5. Rated(s \o t)
  BY <1>1, <1>2, <1>4 DEF Rated
<1>6. ASSUME NEW metric, Shows(s, metric)
      PROVE  Shows(s \o t, metric)
  BY <1>3, <1>4, <1>6 DEF Shows
<1>7. ASSUME NEW metric, Shows(t, metric)
      PROVE  Shows(s \o t, metric)
  <2>1. PICK i \in 1..Len(t) : t[i].metric = metric /\ t[i].status = "fail"
    BY <1>7 DEF Shows
  <2>2. /\ i + Len(s) \in 1..(Len(s) + Len(t)) /\ ~ (i + Len(s) <= Len(s))
        /\ (i + Len(s)) - Len(s) = i
    BY <1>3
  <2>3. (s \o t)[i + Len(s)] = t[i]
    BY <1>4, <2>2
  <2> QED  BY <1>4, <2>1, <2>2, <2>3 DEF Shows
<1> QED  BY <1>5, <1>6, <1>7

\* Lists of results that a runner gives one by one.
LEMMA ListRated ==
  ASSUME NEW n \in Nat, NEW s, s = [i \in 1..n |-> s[i]],
         \A i \in 1..n : s[i].status \in Statuses
  PROVE  Rated(s) /\ Len(s) = n
<1> DEFINE S == {s[i] : i \in 1..n}
<1>1. s \in [1..n -> S]
  OBVIOUS
<1>2. s \in Seq(S) /\ Len(s) = n
  BY <1>1
<1>3. \A x \in S : x.status \in Statuses
  OBVIOUS
<1> QED  BY <1>2, <1>3 DEF Rated

LEMMA OneRated ==
  ASSUME NEW x, x.status \in Statuses
  PROVE  /\ Rated(<<x>>)
         /\ x.status = "fail" => Shows(<<x>>, x.metric)
<1>1. <<x>> = [i \in 1..1 |-> <<x>>[i]] /\ <<x>>[1] = x
  OBVIOUS
<1>2. \A i \in 1..1 : <<x>>[i].status \in Statuses
  BY <1>1
<1>3. Rated(<<x>>) /\ Len(<<x>>) = 1
  BY <1>1, <1>2, ListRated
<1> QED  BY <1>1, <1>3 DEF Shows

LEMMA StatusIs ==
  ASSUME NEW b
  PROVE  /\ PassIf(b) \in {"pass", "fail"}
         /\ \A metric : /\ Flag(metric, b).metric = metric
                        /\ Flag(metric, b).status \in Statuses
                        /\ ~ b => Flag(metric, b).status = "fail"
         /\ \A metric, value, status :
              /\ Result(metric, value, status).metric = metric
              /\ Result(metric, value, status).status = status
  BY DEF PassIf, Flag, Result, Statuses

LEMMA DetailsRated ==
  ASSUME NEW metric, NEW n \in Nat
  PROVE  /\ Rated(Details(metric, n))
         /\ n > 0 /\ answers[metric] # "right" => Shows(Details(metric, n), metric)
<1> DEFINE s == Details(metric, n)
<1>1. s = [i \in 1..n |-> Flag(metric, i > 1 \/ Correct(metric))]
  BY DEF Details
<1>2. \A i \in 1..n : s[i] = Flag(metric, i > 1 \/ Correct(metric))
  BY <1>1
<1> HIDE DEF s
<1>3. s = [i \in 1..n |-> s[i]] /\ \A i \in 1..n : s[i].status \in Statuses
  BY <1>1, <1>2, StatusIs
<1>4. Rated(s) /\ Len(s) = n
  BY <1>3, ListRated
<1>5. ASSUME n > 0, answers[metric] # "right"
      PROVE  Shows(s, metric)
  <2>1. ~ Correct(metric) /\ ~ (1 > 1) /\ 1 \in 1..n
    BY <1>5 DEF Correct
  <2>2. s[1] = Flag(metric, 1 > 1 \/ Correct(metric))
    BY <1>2, <2>1
  <2>3. s[1].metric = metric /\ s[1].status = "fail"
    BY <2>1, <2>2 DEF Flag, Result, PassIf
  <2> QED  BY <1>4, <2>1, <2>3 DEF Shows
<1> QED  BY <1>4, <1>5 DEF s

LEMMA HeadlinesRated ==
  ASSUME NEW metric
  PROVE  /\ \A n : Rated(Threshold(metric, n))
         /\ \A value : Rated(Always(metric, value))
<1>1. \A n : Rated(Threshold(metric, n))
  <2> SUFFICES ASSUME NEW n PROVE Rated(Threshold(metric, n))
    OBVIOUS
  <2> DEFINE x == Result(metric, Rate(metric, n), PassIf(5 * Right(metric, n) >= 4 * n))
  <2>1. x.status \in Statuses
    BY StatusIs DEF Statuses
  <2> HIDE DEF x
  <2>2. Rated(<<x>>)
    BY <2>1, OneRated
  <2> QED  BY <2>2 DEF Threshold, x
<1>2. \A value : Rated(Always(metric, value))
  <2> SUFFICES ASSUME NEW value PROVE Rated(Always(metric, value))
    OBVIOUS
  <2> DEFINE x == Result(metric, value, "pass")
  <2>1. x.status \in Statuses
    BY StatusIs DEF Statuses
  <2> HIDE DEF x
  <2>2. Rated(<<x>>)
    BY <2>1, OneRated
  <2> QED  BY <2>2 DEF Always, x
<1> QED  BY <1>1, <1>2

LEMMA TwoRated ==
  ASSUME NEW x, NEW y, x.status \in Statuses, y.status \in Statuses
  PROVE  /\ Rated(<<x, y>>)
         /\ x.status = "fail" => Shows(<<x, y>>, x.metric)
         /\ y.status = "fail" => Shows(<<x, y>>, y.metric)
<1>1. /\ <<x, y>> = [i \in 1..2 |-> <<x, y>>[i]]
      /\ <<x, y>>[1] = x /\ <<x, y>>[2] = y
  OBVIOUS
<1>2. \A i \in 1..2 : <<x, y>>[i].status \in Statuses
  BY <1>1
<1>3. Rated(<<x, y>>) /\ Len(<<x, y>>) = 2
  BY <1>1, <1>2, ListRated
<1> QED  BY <1>1, <1>3 DEF Shows

\* The failures that a finished run must show: the citations, the wrong
\* answers, and both error rates of a transcript that is not the reference.
Wrong == {a \in Measured : answers[a] # "right"} \ {a \in {"dispatch"} : answers[a] = "wrong"}
Failing ==
  {"research_citation_presence"} \cup Wrong
    \cup IF transcript.reference = transcript.hypothesis THEN {}
         ELSE {"stt_word_error_rate", "stt_character_error_rate"}

\* The place of the runner that reports a metric.
PlaceOf(metric) ==
  CASE metric \in {"stt_word_error_rate", "stt_character_error_rate"} -> 1
    [] metric = "language" -> 2
    [] metric = "routing" -> 3
    [] metric = "planning" -> 4
    [] metric \in {"research", "research_citation_presence"} -> 5
    [] metric = "action" -> 6
    [] metric = "dispatch" -> 9
    [] metric = "e2e" -> 14

LEMMA FailingIs ==
  ASSUME NEW metric \in Failing
  PROVE  \/ metric \in {"language", "routing", "planning", "research", "action", "e2e"}
            /\ answers[metric] # "right"
         \/ metric = "dispatch" /\ answers["dispatch"] # "right" /\ answers["dispatch"] # "wrong"
         \/ metric = "research_citation_presence"
         \/ metric \in {"stt_word_error_rate", "stt_character_error_rate"}
            /\ transcript.reference # transcript.hypothesis
  BY DEF Failing, Wrong, Measured

TranscriptIsOne == transcript \in [reference : Transcripts, hypothesis : Transcripts]

LEMMA SttShows ==
  ASSUME TranscriptIsOne
  PROVE  /\ Rated(SttResults)
         /\ transcript.reference # transcript.hypothesis =>
              /\ Shows(SttResults, "stt_word_error_rate")
              /\ Shows(SttResults, "stt_character_error_rate")
<1> DEFINE wer == ErrorRate(transcript.reference, transcript.hypothesis)
           cer == ErrorRate(Spelled(transcript.reference), Spelled(transcript.hypothesis))
           x == Result("stt_word_error_rate", wer, PassIf(wer[1] = 0))
           y == Result("stt_character_error_rate", cer, PassIf(wer[1] = 0))
<1>1. /\ x.metric = "stt_word_error_rate" /\ y.metric = "stt_character_error_rate"
      /\ x.status = PassIf(wer[1] = 0) /\ y.status = PassIf(wer[1] = 0)
  BY StatusIs
<1>2. x.status \in Statuses /\ y.status \in Statuses
  BY <1>1, StatusIs DEF Statuses
<1>3. transcript.reference # transcript.hypothesis => wer[1] # 0
  BY UnequalHasErrors DEF TranscriptIsOne
<1>4. transcript.reference # transcript.hypothesis => x.status = "fail" /\ y.status = "fail"
  BY <1>1, <1>3 DEF PassIf
<1>5. SttResults = <<x, y>>
  BY DEF SttResults
<1> HIDE DEF wer, cer, x, y
<1> QED  BY <1>1, <1>2, <1>4, <1>5, TwoRated

LEMMA DetailedShow ==
  ASSUME NEW metric, NEW head, Rated(head), NEW n \in Nat \ {0}
  PROVE  /\ Rated(head \o Details(metric, n))
         /\ answers[metric] # "right" => Shows(head \o Details(metric, n), metric)
  BY DetailsRated, JoinRated

LEMMA ResearchShows ==
  /\ Rated(ResearchResults)
  /\ Shows(ResearchResults, "research_citation_presence")
  /\ answers["research"] # "right" => Shows(ResearchResults, "research")
<1> DEFINE x == Result("research_citation_presence", <<Right("research", 2), 3>>, "fail")
           headline == Always("research", Rate("research", 3))
<1>1. Rated(<<x>>) /\ Shows(<<x>>, "research_citation_presence")
  BY StatusIs, OneRated DEF Statuses
<1>2. ResearchResults = (<<x>> \o headline) \o Details("research", 3)
  BY DEF ResearchResults
<1>3. Rated(headline)
  BY HeadlinesRated
<1> HIDE DEF x, headline
<1>4. Rated(<<x>> \o headline) /\ Shows(<<x>> \o headline, "research_citation_presence")
  BY <1>1, <1>3, JoinRated
<1> QED  BY <1>2, <1>4, DetailsRated, JoinRated

LEMMA ComputerShows ==
  /\ Rated(ComputerResults)
  /\ answers["action"] # "right" => Shows(ComputerResults, "action")
<1> DEFINE headline == Always("action", Rate("action", 3))
           last == Always("computer_safe_failure_rate", <<1, 1>>)
<1>1. Rated(headline) /\ Rated(last)
  BY HeadlinesRated
<1>2. ComputerResults = (headline \o Details("action", 3)) \o last
  BY DEF ComputerResults
<1> HIDE DEF headline, last
<1>3. /\ Rated(headline \o Details("action", 3))
      /\ answers["action"] # "right" => Shows(headline \o Details("action", 3), "action")
  <2>1. 3 \in Nat \ {0}
    OBVIOUS
  <2> QED  BY <1>1, <2>1, DetailedShow
<1> QED  BY <1>1, <1>2, <1>3, JoinRated

LEMMA DistributedShows ==
  /\ Rated(DistributedResults)
  /\ answers["dispatch"] \notin {"right", "wrong"}
       /\ answers \in [Measured -> {"right", "wrong", "raises"}] =>
         Shows(DistributedResults, "dispatch")
<1> DEFINE x == Flag("dispatch", answers["dispatch"] # "raises")
           last == Always("distributed_duplicate_prevention", <<1, 1>>)
<1>1. x.metric = "dispatch" /\ x.status \in Statuses
      /\ (answers["dispatch"] = "raises" => x.status = "fail")
  BY DEF Flag, Result, PassIf, Statuses
<1>2. Rated(last) /\ DistributedResults = <<x>> \o last
  BY HeadlinesRated DEF DistributedResults
<1>3. answers \in [Measured -> {"right", "wrong", "raises"}]
        => answers["dispatch"] \in {"right", "wrong", "raises"}
  BY DEF Measured
<1> HIDE DEF x, last
<1>4. Rated(<<x>>) /\ (answers["dispatch"] = "raises" => Shows(<<x>>, "dispatch"))
  BY <1>1, OneRated
<1> QED  BY <1>2, <1>3, <1>4, JoinRated

LEMMA OthersRated ==
  /\ Rated(BrowserResults) /\ Rated(VisionResults) /\ Rated(SecurityResults)
  /\ Rated(VoiceTimingResults) /\ Rated(AvatarResults) /\ Rated(MemoryResults)
  /\ Rated(LoopResults) /\ Rated(VerificationResults) /\ Rated(PredictionResults)
<1>1. Rated(BrowserResults)
  <2> DEFINE x == Always("browser_safe_action_rate", <<1, 1>>)
             y == Always("browser_unsafe_scheme_rejected", <<1, 1>>)
             z == Always("browser_domain_policy_respected", <<1, 1>>)
  <2>1. Rated(x) /\ Rated(y) /\ Rated(z) /\ BrowserResults = (x \o y) \o z
    BY HeadlinesRated DEF BrowserResults
  <2> HIDE DEF x, y, z
  <2> QED  BY <2>1, JoinRated
\* A list of flags, or of latencies, and what is put behind it.
<1>2. ASSUME NEW n \in Nat, NEW s, s = [i \in 1..n |-> s[i]],
             \A i \in 1..n : s[i].status \in Statuses,
             NEW metric, NEW value
      PROVE  Rated(s) /\ Rated(s \o Always(metric, value))
  BY <1>2, ListRated, HeadlinesRated, JoinRated
<1>3. Rated(VisionResults)
  <2> DEFINE s == [i \in 1..2 |-> Flag("vision_observation_accuracy", TRUE)]
  <2>1. s = [i \in 1..2 |-> s[i]] /\ \A i \in 1..2 : s[i].status \in Statuses
    BY StatusIs
  <2>2. VisionResults = s \o Always("vision_untrusted_text_handling", <<1, 1>>)
    BY DEF VisionResults
  <2> HIDE DEF s
  <2> QED  BY <1>2, <2>1, <2>2
<1>4. Rated(SecurityResults)
  <2> DEFINE s == [i \in 1..6 |-> Flag("security", TRUE)]
  <2>1. s = [i \in 1..6 |-> s[i]] /\ \A i \in 1..6 : s[i].status \in Statuses
    BY StatusIs
  <2>2. SecurityResults = s \o Always("security_untrusted_vision_text", <<1, 1>>)
    BY DEF SecurityResults
  <2> HIDE DEF s
  <2> QED  BY <1>2, <2>1, <2>2
<1>5. Rated(VoiceTimingResults)
  <2> DEFINE s == [i \in 1..5 |-> Result("voice_latency", <<i, 1>>, "not_measured")]
  <2>1. s = [i \in 1..5 |-> s[i]] /\ \A i \in 1..5 : s[i].status \in Statuses
    BY StatusIs DEF Statuses
  <2>2. VoiceTimingResults = s \o Always("voice_interruption_response", <<1, 1>>)
    BY DEF VoiceTimingResults
  <2> HIDE DEF s
  <2> QED  BY <1>2, <2>1, <2>2
<1>6. Rated(AvatarResults)
  <2>1. \E states : AvatarResults =
          [i \in DOMAIN Events |-> Flag("avatar_event_propagation", states[i] = Expected[i])]
            \o Always("avatar_voice_avatar_sync", <<1, 1>>)
    BY DEF AvatarResults
  <2>2. PICK states : AvatarResults =
          [i \in DOMAIN Events |-> Flag("avatar_event_propagation", states[i] = Expected[i])]
            \o Always("avatar_voice_avatar_sync", <<1, 1>>)
    BY <2>1
  <2> DEFINE s == [i \in DOMAIN Events |->
                     Flag("avatar_event_propagation", states[i] = Expected[i])]
  <2>3. DOMAIN Events = 1..4
    BY DEF Events
  <2>4. s = [i \in 1..4 |-> s[i]] /\ \A i \in 1..4 : s[i].status \in Statuses
    BY <2>3, StatusIs
  <2> HIDE DEF s
  <2> QED  BY <1>2, <2>2, <2>4 DEF s
<1>7. Rated(MemoryResults)
  <2>1. DOMAIN MemoryFixtures = 1..3
    BY DEF MemoryFixtures
  <2>2. /\ MemoryResults = [i \in 1..3 |-> MemoryResults[i]]
        /\ \A i \in 1..3 : MemoryResults[i].status \in Statuses
    BY <2>1, StatusIs DEF MemoryResults
  <2> QED  BY <2>2, ListRated
<1>8. Rated(LoopResults)
  <2>1. DOMAIN LoopFixtures = 1..4
    BY DEF LoopFixtures
  <2>2. /\ LoopResults = [i \in 1..4 |-> LoopResults[i]]
        /\ \A i \in 1..4 : LoopResults[i].status \in Statuses
    BY <2>1, StatusIs DEF LoopResults
  <2> QED  BY <2>2, ListRated
<1>9. Rated(VerificationResults)
  <2>1. PICK value, found, missed :
          VerificationResults =
            Always("verification_accuracy", value)
              \o <<Flag("verification_accuracy", found), Flag("verification_accuracy", missed)>>
    BY DEF VerificationResults
  <2> DEFINE x == Flag("verification_accuracy", found)
             y == Flag("verification_accuracy", missed)
  <2>2. x.status \in Statuses /\ y.status \in Statuses
    BY StatusIs
  <2>3. Rated(Always("verification_accuracy", value))
    BY HeadlinesRated
  <2> HIDE DEF x, y
  <2>4. Rated(<<x, y>>)
    BY <2>2, TwoRated
  <2> QED  BY <2>1, <2>3, <2>4, JoinRated DEF x, y
<1>10. Rated(PredictionResults)
  <2> DEFINE x == Result("prediction", <<1, 1>>, "not_measured")
  <2>1. x.status \in Statuses
    BY StatusIs DEF Statuses
  <2> HIDE DEF x
  <2>2. Rated(<<x>>)
    BY <2>1, OneRated
  <2> QED  BY <2>2 DEF PredictionResults, x
<1> QED  BY <1>1, <1>3, <1>4, <1>5, <1>6, <1>7, <1>8, <1>9, <1>10

LEMMA MeasuredShow ==
  /\ Rated(LanguageResults) /\ (answers["language"] # "right" => Shows(LanguageResults, "language"))
  /\ Rated(RoutingResults) /\ (answers["routing"] # "right" => Shows(RoutingResults, "routing"))
  /\ Rated(PlanningResults) /\ (answers["planning"] # "right" => Shows(PlanningResults, "planning"))
  /\ Rated(E2eResults) /\ (answers["e2e"] # "right" => Shows(E2eResults, "e2e"))
<1>1. ASSUME NEW metric, NEW n \in Nat \ {0}
      PROVE  /\ Rated(Threshold(metric, n) \o Details(metric, n))
             /\ answers[metric] # "right" =>
                  Shows(Threshold(metric, n) \o Details(metric, n), metric)
  BY HeadlinesRated, DetailedShow
<1>2. 8 \in Nat \ {0} /\ 3 \in Nat \ {0} /\ 1 \in Nat /\ 1 > 0
  OBVIOUS
<1>3. /\ Rated(E2eResults)
      /\ answers["e2e"] # "right" => Shows(E2eResults, "e2e")
  BY <1>2, DetailsRated DEF E2eResults
<1> QED  BY <1>1, <1>2, <1>3 DEF LanguageResults, RoutingResults, PlanningResults

AnswersAre == answers \in [Measured -> {"right", "wrong", "raises"}]

\* Each report is rated, and shows the failures whose place it is.
LEMMA ReportShows ==
  ASSUME AnswersAre, TranscriptIsOne, NEW p \in 1..Len(Runners)
  PROVE  /\ Rated(Report(Runners[p]))
         /\ \A metric \in Failing : PlaceOf(metric) = p => Shows(Report(Runners[p]), metric)
<1>1. p \in 1..17
  BY DEF Runners
<1>2. Report(Runners[p]) =
        CASE p = 1 -> SttResults [] p = 2 -> LanguageResults [] p = 3 -> RoutingResults
          [] p = 4 -> PlanningResults [] p = 5 -> ResearchResults [] p = 6 -> ComputerResults
          [] p = 7 -> BrowserResults [] p = 8 -> VisionResults [] p = 9 -> DistributedResults
          [] p = 10 -> SecurityResults [] p = 11 -> VoiceTimingResults [] p = 12 -> AvatarResults
          [] p = 13 -> MemoryResults [] p = 14 -> E2eResults [] p = 15 -> LoopResults
          [] p = 16 -> VerificationResults [] p = 17 -> PredictionResults
  BY <1>1 DEF Report, Runners
<1>3. Rated(Report(Runners[p]))
  BY <1>1, <1>2, SttShows, MeasuredShow, ResearchShows, ComputerShows, DistributedShows, OthersRated
<1>4. ASSUME NEW metric \in Failing, PlaceOf(metric) = p
      PROVE  Shows(Report(Runners[p]), metric)
  <2>1. CASE metric \in {"stt_word_error_rate", "stt_character_error_rate"}
    BY <1>2, <1>4, <2>1, FailingIs, SttShows DEF PlaceOf
  <2>2. CASE metric \in {"language", "routing", "planning", "e2e"}
    BY <1>2, <1>4, <2>2, FailingIs, MeasuredShow DEF PlaceOf
  <2>3. CASE metric \in {"research", "research_citation_presence"}
    BY <1>2, <1>4, <2>3, FailingIs, ResearchShows DEF PlaceOf
  <2>4. CASE metric = "action"
    BY <1>2, <1>4, <2>4, FailingIs, ComputerShows DEF PlaceOf
  <2>5. CASE metric = "dispatch"
    BY <1>2, <1>4, <2>5, FailingIs, DistributedShows DEF PlaceOf, AnswersAre
  <2> QED  BY <2>1, <2>2, <2>3, <2>4, <2>5, FailingIs
<1> QED  BY <1>3, <1>4

LEMMA PlacesAre ==
  ASSUME NEW metric \in Failing
  PROVE  PlaceOf(metric) \in 1..14
  BY FailingIs DEF PlaceOf

\* Distinct metrics that a list shows to fail are as many failures.
LEMMA FailuresOfList ==
  ASSUME NEW s, Rated(s), NEW F, \A metric \in F : Shows(s, metric)
  PROVE  /\ IsFiniteSet(F)
         /\ Cardinality(F) <= Cardinality({i \in 1..Len(s) : s[i].status = "fail"})
<1> DEFINE D == {i \in 1..Len(s) : s[i].status = "fail"}
           f == [metric \in F |-> CHOOSE i \in D : s[i].metric = metric]
<1>1. IsFiniteSet(D)
  <2>1. Len(s) \in Nat /\ Len(s) \in Int /\ 1 \in Int
    BY RatedHasStatuses
  <2>2. IsFiniteSet(1..Len(s))
    BY <2>1, FS_Interval
  <2> QED  BY <2>2, FS_Subset
<1>2. \A metric \in F : f[metric] \in D /\ s[f[metric]].metric = metric
  <2> SUFFICES ASSUME NEW metric \in F
               PROVE  f[metric] \in D /\ s[f[metric]].metric = metric
    OBVIOUS
  <2>1. \E i \in D : s[i].metric = metric
    BY DEF Shows
  <2> QED  BY <2>1
<1>3. f \in Injection(F, D)
  BY <1>2 DEF Injection, IsInjective
<1> HIDE DEF D, f
<1>4. IsFiniteSet(F) /\ Cardinality(F) <= Cardinality(D)
  BY <1>1, <1>3, FS_Injection
<1> QED  BY <1>4 DEF D

LEMMA FailingCount ==
  ASSUME IsFiniteSet(Failing)
  PROVE  Cardinality(Failing) =
           1 + Cardinality(Wrong)
             + IF transcript.reference = transcript.hypothesis THEN 0 ELSE 2
<1>1. Wrong \subseteq Failing
  BY DEF Failing
<1>2. IsFiniteSet(Wrong) /\ Cardinality(Wrong) \in Nat
  BY <1>1, FS_Subset, FS_CardinalityType
<1>3. /\ "research_citation_presence" \notin Wrong
      /\ "stt_word_error_rate" \notin Wrong /\ "stt_character_error_rate" \notin Wrong
  BY DEF Wrong, Measured
<1> DEFINE A == Wrong \cup {"research_citation_presence"}
           B == A \cup {"stt_word_error_rate"}
           C == B \cup {"stt_character_error_rate"}
<1>4. IsFiniteSet(A) /\ Cardinality(A) = Cardinality(Wrong) + 1
  BY <1>2, <1>3, FS_AddElement
<1>5. "stt_word_error_rate" \notin A /\ "stt_character_error_rate" \notin B
  BY <1>3
<1>6. IsFiniteSet(B) /\ Cardinality(B) = Cardinality(A) + 1
  <2> HIDE DEF A
  <2> QED  BY <1>4, <1>5, FS_AddElement
<1>7. Cardinality(C) = Cardinality(B) + 1
  <2> HIDE DEF B
  <2> QED  BY <1>5, <1>6, FS_AddElement
<1>8. CASE transcript.reference = transcript.hypothesis
  <2>1. Failing = A
    BY <1>8 DEF Failing
  <2> HIDE DEF A
  <2> QED  BY <1>2, <1>4, <1>8, <2>1
<1>9. CASE transcript.reference # transcript.hypothesis
  <2>1. Failing = C
    BY <1>9 DEF Failing
  <2> HIDE DEF A, B, C
  <2> QED  BY <1>2, <1>4, <1>6, <1>7, <1>9, <2>1
<1> QED  BY <1>8, <1>9

\* Every result has one of the five statuses.
LEMMA StatusesAddUp ==
  ASSUME NEW s, Rated(s)
  PROVE  LET Of(status) == Cardinality({i \in 1..Len(s) : s[i].status = status}) IN
         Len(s) = Of("pass") + Of("fail") + Of("inconclusive") + Of("not_measured")
                    + Of("not_applicable")
<1> DEFINE At(status) == {i \in 1..Len(s) : s[i].status = status}
           Of(status) == Cardinality(At(status))
           A == At("pass") \cup At("fail")
           B == A \cup At("inconclusive")
           C == B \cup At("not_measured")
           E == C \cup At("not_applicable")
<1>1. Len(s) \in Nat /\ IsFiniteSet(1..Len(s)) /\ Cardinality(1..Len(s)) = Len(s)
  <2>1. Len(s) \in Nat /\ Len(s) \in Int /\ 1 \in Int
    BY RatedHasStatuses
  <2>2. IsFiniteSet(1..Len(s)) /\ Cardinality(1..Len(s)) = IF 1 > Len(s) THEN 0 ELSE Len(s) - 1 + 1
    BY <2>1, FS_Interval
  <2> QED  BY <2>1, <2>2
<1>2. \A status : IsFiniteSet(At(status)) /\ Of(status) \in Nat
  BY <1>1, FS_Subset, FS_CardinalityType
<1>3. ASSUME NEW S, NEW T, IsFiniteSet(S), IsFiniteSet(T), S \cap T = {}
      PROVE  /\ IsFiniteSet(S \cup T)
             /\ Cardinality(S \cup T) = Cardinality(S) + Cardinality(T)
  <2>1. /\ IsFiniteSet(S \cup T)
        /\ Cardinality(S \cup T) =
             Cardinality(S) + Cardinality(T) - Cardinality(S \cap T)
    BY <1>3, FS_Union
  <2>2. Cardinality(S) \in Nat /\ Cardinality(T) \in Nat /\ Cardinality(S \cap T) = 0
    BY <1>3, FS_CardinalityType, FS_EmptySet
  <2> QED  BY <2>1, <2>2
<1>4. /\ At("pass") \cap At("fail") = {} /\ A \cap At("inconclusive") = {}
      /\ B \cap At("not_measured") = {} /\ C \cap At("not_applicable") = {}
  OBVIOUS
<1>5. E = 1..Len(s)
  BY RatedHasStatuses DEF Statuses
<1> HIDE DEF At, A, B, C, E
<1>6. IsFiniteSet(A) /\ Cardinality(A) = Of("pass") + Of("fail")
  BY <1>2, <1>3, <1>4 DEF A
<1>7. IsFiniteSet(B) /\ Cardinality(B) = Cardinality(A) + Of("inconclusive")
  BY <1>2, <1>3, <1>4, <1>6 DEF B
<1>8. IsFiniteSet(C) /\ Cardinality(C) = Cardinality(B) + Of("not_measured")
  BY <1>2, <1>3, <1>4, <1>7 DEF C
<1>9. Cardinality(E) = Cardinality(C) + Of("not_applicable")
  BY <1>2, <1>3, <1>4, <1>8 DEF E
<1>10. Len(s) = Of("pass") + Of("fail") + Of("inconclusive") + Of("not_measured")
                 + Of("not_applicable")
  BY <1>1, <1>2, <1>5, <1>6, <1>7, <1>8, <1>9
<1> QED  BY <1>10 DEF At

LEMMA CountedIs ==
  ASSUME NEW s, Rated(s), NEW status
  PROVE  Counted([i \in DOMAIN s |-> s[i].status], {status})
           = Cardinality({i \in 1..Len(s) : s[i].status = status})
<1> DEFINE f == [i \in DOMAIN s |-> s[i].status]
<1>1. DOMAIN f = 1..Len(s) /\ \A i \in 1..Len(s) : f[i] = s[i].status
  BY RatedHasStatuses
<1> HIDE DEF f
<1>2. {i \in DOMAIN f : f[i] \in {status}} = {i \in 1..Len(s) : s[i].status = status}
  BY <1>1
<1>3. Counted(f, {status}) = Cardinality({i \in 1..Len(s) : s[i].status = status})
  BY <1>2 DEF Counted
<1> QED  BY <1>3 DEF f

\* A run has the failures of the runners it is past, and a finished one all.
FailureInv ==
  /\ \E S : finished \in Seq(S)
  /\ AnswersAre /\ TranscriptIsOne
  /\ stage \in {"measure", "test", "summarise"} => Rated(results)
  /\ stage = "measure" =>
       /\ place \in 1..Len(Runners)
       /\ \A metric \in Failing : PlaceOf(metric) < place => Shows(results, metric)
  /\ stage \in {"test", "summarise"} => \A metric \in Failing : Shows(results, metric)
  /\ FailuresAreCounted

\* The answers and the transcript are those of the whole behaviour.
LEMMA FailingStays ==
  UNCHANGED fixtures => /\ Failing' = Failing /\ AnswersAre' = AnswersAre
                        /\ TranscriptIsOne' = TranscriptIsOne
                        /\ (finished' = finished =>
                              FailuresAreCounted' = FailuresAreCounted)
  BY DEF fixtures, Failing, Wrong, AnswersAre, TranscriptIsOne, FailuresAreCounted

LEMMA MeasureKeepsFailures ==
  ASSUME FailureInv, StartEvaluation \/ RunRunner
  PROVE  FailureInv'
<1>1. UNCHANGED fixtures /\ finished' = finished
  BY DEF StartEvaluation, RunRunner
<1>2. Len(Runners) = 17
  BY DEF Runners
<1>3. CASE StartEvaluation
  <2>1. results' = <<>> /\ place' = 1 /\ stage' = "measure"
    BY <1>3 DEF StartEvaluation, NewEnvironment
  <2>2. Rated(<<>>)
    <3>1. PICK S : S = {}
      OBVIOUS
    <3>2. <<>> \in Seq(S) /\ \A x \in S : x.status \in Statuses
      BY <3>1
    <3> QED  BY <3>2 DEF Rated
  <2>3. \A metric \in Failing : ~ (PlaceOf(metric) < 1)
    BY PlacesAre
  <2> QED  BY <1>1, <1>2, <2>1, <2>2, <2>3, FailingStays DEF FailureInv
<1>4. CASE RunRunner
  <2>1. place \in 1..Len(Runners) /\ Rated(results) /\ AnswersAre /\ TranscriptIsOne
    BY <1>4 DEF RunRunner, FailureInv
  <2>2. Rated(results') /\ \A metric : Shows(results, metric) \/ Shows(Report(Runners[place]), metric)
                                         => Shows(results', metric)
    BY <1>4, <2>1, ReportShows, JoinRated DEF RunRunner
  <2>3. ASSUME NEW metric \in Failing, PlaceOf(metric) <= place
        PROVE  Shows(results', metric)
    <3>1. PlaceOf(metric) < place \/ PlaceOf(metric) = place
      BY <1>2, <2>1, <2>3, PlacesAre
    <3>2. stage = "measure"
      BY <1>4 DEF RunRunner
    <3> QED  BY <2>1, <2>2, <3>1, <3>2, ReportShows DEF FailureInv
  <2>4. CASE place < Len(Runners)
    <3>1. stage' = "measure" /\ place' = place + 1
      BY <1>4, <2>4 DEF RunRunner
    <3>2. \A metric \in Failing : PlaceOf(metric) < place + 1 => PlaceOf(metric) <= place
      BY <1>2, <2>1, PlacesAre
    <3> QED  BY <1>1, <1>2, <2>1, <2>2, <2>3, <2>4, <3>1, <3>2, FailingStays DEF FailureInv
  <2>5. CASE ~ (place < Len(Runners))
    <3>1. stage' = "test"
      BY <1>4, <2>5 DEF RunRunner
    <3>2. \A metric \in Failing : PlaceOf(metric) <= place
      BY <1>2, <2>1, <2>5, PlacesAre
    <3> QED  BY <1>1, <2>2, <2>3, <3>1, <3>2, FailingStays DEF FailureInv
  <2> QED  BY <2>4, <2>5
<1> QED  BY <1>3, <1>4

\* What a run's summary counts.
LEMMA SummaryIs ==
  ASSUME Rated(results), \A metric \in Failing : Shows(results, metric)
  PROVE  /\ ComputeSummary.fail >=
              1 + Cardinality(Wrong)
                + IF transcript.reference = transcript.hypothesis THEN 0 ELSE 2
         /\ ComputeSummary.total =
              ComputeSummary.pass + ComputeSummary.fail + ComputeSummary.inconclusive
                + ComputeSummary.not_measured + ComputeSummary.not_applicable
<1> DEFINE Of(status) == Cardinality({i \in 1..Len(results) : results[i].status = status})
<1>1. /\ ComputeSummary.total = Len(results)
      /\ ComputeSummary.pass = Of("pass") /\ ComputeSummary.fail = Of("fail")
      /\ ComputeSummary.inconclusive = Of("inconclusive")
      /\ ComputeSummary.not_measured = Of("not_measured")
      /\ ComputeSummary.not_applicable = Of("not_applicable")
  BY CountedIs DEF ComputeSummary
<1>2. IsFiniteSet(Failing) /\ Cardinality(Failing) <= Of("fail")
  BY FailuresOfList
<1>3. Cardinality(Failing) =
        1 + Cardinality(Wrong)
          + IF transcript.reference = transcript.hypothesis THEN 0 ELSE 2
  BY <1>2, FailingCount
<1>4. Cardinality(Failing) \in Nat /\ Of("fail") \in Nat
  <2>1. Len(results) \in Nat /\ Len(results) \in Int /\ 1 \in Int
    BY RatedHasStatuses
  <2>2. IsFiniteSet(1..Len(results))
    BY <2>1, FS_Interval
  <2>3. IsFiniteSet({i \in 1..Len(results) : results[i].status = "fail"})
    BY <2>2, FS_Subset
  <2> QED  BY <1>2, <2>3, FS_CardinalityType
<1>5. Len(results) = Of("pass") + Of("fail") + Of("inconclusive") + Of("not_measured")
                       + Of("not_applicable")
  BY StatusesAddUp
<1> HIDE DEF Of
<1> QED  BY <1>1, <1>2, <1>3, <1>4, <1>5

LEMMA FinishKeepsFailures ==
  ASSUME FailureInv, FinishRun
  PROVE  FailureInv'
<1> DEFINE run == [results |-> results, tests |-> tests, summary |-> ComputeSummary]
<1>1. run.summary = ComputeSummary
  OBVIOUS
<1>2. finished' = Append(finished, run) /\ UNCHANGED fixtures /\ stage' = "markdown"
  BY DEF FinishRun
<1> HIDE DEF run
<1>3. PICK S : finished \in Seq(S)
  BY DEF FailureInv
<1>4. /\ finished' \in Seq(S \cup {run}) /\ Len(finished) \in Nat
      /\ DOMAIN finished = 1..Len(finished) /\ DOMAIN finished' = 1..(Len(finished) + 1)
  BY <1>2, <1>3, AppendGrows
<1>5. \A i \in DOMAIN finished' :
        \/ i \in DOMAIN finished /\ finished'[i] = finished[i]
        \/ finished'[i] = run
  BY <1>2, <1>3, <1>4
<1>6. stage = "summarise"
  BY DEF FinishRun
<1>7. /\ ComputeSummary.fail >=
           1 + Cardinality(Wrong)
             + IF transcript.reference = transcript.hypothesis THEN 0 ELSE 2
      /\ ComputeSummary.total =
           ComputeSummary.pass + ComputeSummary.fail + ComputeSummary.inconclusive
             + ComputeSummary.not_measured + ComputeSummary.not_applicable
  BY <1>6, SummaryIs DEF FailureInv
<1>8. UNCHANGED <<answers, transcript>>
  BY <1>2 DEF fixtures
<1>9. FailuresAreCounted'
  <2> SUFFICES ASSUME NEW i \in DOMAIN finished'
               PROVE  LET summary == finished'[i].summary IN
                      /\ summary.fail >=
                           1 + Cardinality(Wrong)
                             + IF transcript.reference = transcript.hypothesis THEN 0 ELSE 2
                      /\ summary.total =
                           summary.pass + summary.fail + summary.inconclusive
                             + summary.not_measured + summary.not_applicable
    BY <1>8 DEF FailuresAreCounted, Wrong
  <2>1. CASE finished'[i] = run
    BY <1>1, <1>7, <2>1
  <2>2. CASE i \in DOMAIN finished /\ finished'[i] = finished[i]
    BY <2>2 DEF FailureInv, FailuresAreCounted, Wrong
  <2> QED  BY <1>5, <2>1, <2>2
<1> QED  BY <1>2, <1>4, <1>9, FailingStays DEF FailureInv

LEMMA FailureInvariant == EvaluationSpec => []FailureInv
<1>1. EvaluationInit => FailureInv
  <2> SUFFICES ASSUME EvaluationInit PROVE FailureInv
    OBVIOUS
  <2>1. finished \in Seq({}) /\ finished = <<>> /\ stage = "idle"
    BY DEF EvaluationInit
  <2>2. FailuresAreCounted
    BY <2>1 DEF FailuresAreCounted
  <2> QED  BY <2>1, <2>2 DEF EvaluationInit, FailureInv, AnswersAre, TranscriptIsOne
<1>2. FailureInv /\ [EvaluationNext]_evaluationVars => FailureInv'
  <2> SUFFICES ASSUME FailureInv, [EvaluationNext]_evaluationVars
               PROVE  FailureInv'
    OBVIOUS
  <2>1. CASE RunReliabilityTest
    <3>1. /\ UNCHANGED <<fixtures, finished, results>> /\ stage = "test"
          /\ stage' \in {"test", "summarise"}
      BY <2>1 DEF RunReliabilityTest
    <3> QED  BY <3>1, FailingStays DEF FailureInv
  <2>2. CASE WriteMarkdown \/ WriteJson \/ Abort
    <3>1. /\ UNCHANGED <<fixtures, finished, results>>
          /\ stage' \in {"markdown_open", "json", "json_open", "idle"}
      BY <2>2 DEF WriteMarkdown, WriteJson, Abort
    <3> QED  BY <3>1, FailingStays DEF FailureInv
  <2>3. CASE LoadPreviousRun \/ UNCHANGED evaluationVars
    <3>1. UNCHANGED <<fixtures, finished, results, stage, place>>
      BY <2>3 DEF LoadPreviousRun, evaluationVars, fixtures
    <3> QED  BY <3>1, FailingStays DEF FailureInv
  <2> QED
    BY <2>1, <2>2, <2>3, MeasureKeepsFailures, FinishKeepsFailures DEF EvaluationNext
<1> QED  BY <1>1, <1>2, PTL DEF EvaluationSpec

\* Whatever the providers answer and however the transcript differs, and
\* after any number of runs, the summary of each has the failures.
THEOREM NoFailureIsLost == EvaluationSpec => []FailuresAreCounted
<1>1. FailureInv => FailuresAreCounted
  BY DEF FailureInv
<1> QED  BY <1>1, FailureInvariant, PTL

(***************************************************************************)
(* That the table's distance is the least.  The reference s is fixed, and  *)
(* Edits(s, i, t) is the entry for its first i words and the whole of t.   *)
(***************************************************************************)
Texts == UNION {[1..n -> Words] : n \in Nat}

Edits(s, i, t) == EditTable(s, t)[<<i, Len(t)>>]

Cut(t) == [k \in 1..(Len(t) - 1) |-> t[k]]
Plus(t, x) == [k \in 1..(Len(t) + 1) |-> IF k <= Len(t) THEN t[k] ELSE x]

LEMMA TextIs ==
  ASSUME NEW t \in Texts
  PROVE  /\ Len(t) \in Nat /\ t \in [1..Len(t) -> Words]
         /\ \A u \in Texts : Len(u) = Len(t) /\ (\A k \in 1..Len(t) : u[k] = t[k]) => u = t
<1>1. ASSUME NEW u \in Texts
      PROVE  Len(u) \in Nat /\ u \in [1..Len(u) -> Words]
  <2>1. PICK n \in Nat : u \in [1..n -> Words]
    BY DEF Texts
  <2>2. u \in Seq(Words) /\ Len(u) = n
    BY <2>1
  <2> QED  BY <2>1, <2>2
<1>2. ASSUME NEW u \in Texts, Len(u) = Len(t), \A k \in 1..Len(t) : u[k] = t[k]
      PROVE  u = t
  <2>1. u \in [1..Len(t) -> Words] /\ t \in [1..Len(t) -> Words]
    BY <1>1, <1>2
  <2> QED  BY <1>2, <2>1
<1> QED  BY <1>1, <1>2

LEMMA TextOf ==
  ASSUME NEW n \in Nat, NEW t \in [1..n -> Words]
  PROVE  t \in Texts /\ Len(t) = n
<1>1. t \in Seq(Words) /\ Len(t) = n
  OBVIOUS
<1> QED  BY <1>1 DEF Texts

LEMMA CutIs ==
  ASSUME NEW t \in Texts, Len(t) # 0
  PROVE  /\ Cut(t) \in Texts /\ Len(Cut(t)) = Len(t) - 1
         /\ \A k \in 1..(Len(t) - 1) : Cut(t)[k] = t[k]
<1>1. Len(t) - 1 \in Nat /\ \A k \in 1..(Len(t) - 1) : t[k] \in Words
  BY TextIs
<1>2. Cut(t) \in [1..(Len(t) - 1) -> Words] /\ \A k \in 1..(Len(t) - 1) : Cut(t)[k] = t[k]
  BY <1>1 DEF Cut
<1> QED  BY <1>1, <1>2, TextOf

LEMMA PlusIs ==
  ASSUME NEW t \in Texts, NEW x \in Words
  PROVE  /\ Plus(t, x) \in Texts /\ Len(Plus(t, x)) = Len(t) + 1
         /\ \A k \in 1..Len(t) : Plus(t, x)[k] = t[k]
         /\ Plus(t, x)[Len(t) + 1] = x
         /\ Cut(Plus(t, x)) = t
<1>1. Len(t) \in Nat /\ Len(t) + 1 \in Nat /\ \A k \in 1..Len(t) : t[k] \in Words
  BY TextIs
<1>2. /\ Plus(t, x) \in [1..(Len(t) + 1) -> Words]
      /\ \A k \in 1..Len(t) : Plus(t, x)[k] = t[k]
      /\ Plus(t, x)[Len(t) + 1] = x
  BY <1>1 DEF Plus
<1>3. Plus(t, x) \in Texts /\ Len(Plus(t, x)) = Len(t) + 1
  BY <1>1, <1>2, TextOf
<1>4. /\ Cut(Plus(t, x)) \in Texts /\ Len(Cut(Plus(t, x))) = Len(t)
      /\ \A k \in 1..Len(t) : Cut(Plus(t, x))[k] = t[k]
  BY <1>1, <1>2, <1>3, CutIs
<1> QED  BY <1>2, <1>3, <1>4, TextIs

\* The entries for a text do not look at the words that follow.
LEMMA PrefixTable ==
  ASSUME NEW s \in Texts, NEW t \in Texts, Len(t) # 0,
         NEW i \in 0..Len(s), NEW j \in 0..(Len(t) - 1)
  PROVE  EditTable(s, t)[<<i, j>>] = EditTable(s, Cut(t))[<<i, j>>]
<1> DEFINE u == Cut(t)
           g == EditTable(s, t)
           h == EditTable(s, u)
           E == {k \in Nat : \A m \in 0..Len(s), l \in 0..(Len(t) - 1) :
                               m + l < k => g[<<m, l>>] = h[<<m, l>>]}
<1>1. /\ Len(s) \in Nat /\ Len(t) \in Nat /\ Len(u) = Len(t) - 1 /\ Len(u) \in Nat
      /\ \A k \in 1..Len(u) : u[k] = t[k]
  BY TextIs, CutIs
<1>2. /\ \A m \in 0..Len(s), l \in 0..Len(t) : g[<<m, l>>] = Entry(s, t, g, m, l)
      /\ \A m \in 0..Len(s), l \in 0..Len(u) : h[<<m, l>>] = Entry(s, u, h, m, l)
  BY <1>1, TableIsFilled
<1> HIDE DEF g, h, u
<1>3. 0 \in E
  BY <1>1
<1>4. ASSUME NEW k \in Nat, k \in E
      PROVE  k + 1 \in E
  <2>1. ASSUME NEW m \in 0..Len(s), NEW l \in 0..(Len(t) - 1), m + l < k + 1
        PROVE  g[<<m, l>>] = h[<<m, l>>]
    <3>1. l \in 0..Len(t) /\ l \in 0..Len(u) /\ m \in Int /\ l \in Int
      BY <1>1
    <3>2. CASE m = 0 \/ l = 0
      <4>1. Entry(s, t, g, m, l) = Entry(s, u, h, m, l)
        BY <3>2 DEF Entry
      <4> QED  BY <1>2, <3>1, <4>1
    <3>3. CASE m # 0 /\ l # 0
      <4>1. /\ m - 1 \in 0..Len(s) /\ l - 1 \in 0..(Len(t) - 1)
            /\ (m - 1) + l < k /\ m + (l - 1) < k /\ (m - 1) + (l - 1) < k
        BY <1>1, <2>1, <3>1, <3>3
      <4>2. /\ g[<<m - 1, l>>] = h[<<m - 1, l>>] /\ g[<<m, l - 1>>] = h[<<m, l - 1>>]
            /\ g[<<m - 1, l - 1>>] = h[<<m - 1, l - 1>>]
        BY <1>4, <4>1
      <4>3. u[l] = t[l]
        BY <1>1, <3>1, <3>3
      <4>4. Entry(s, t, g, m, l) = Entry(s, u, h, m, l)
        BY <4>2, <4>3 DEF Entry
      <4> QED  BY <1>2, <3>1, <4>4
    <3> QED  BY <3>2, <3>3
  <2> QED  BY <2>1
<1>5. i + j + 1 \in Nat /\ i + j < i + j + 1
  BY <1>1
<1> HIDE DEF E
<1>6. i + j + 1 \in E
  BY <1>3, <1>4, <1>5, CountUp
<1> QED  BY <1>5, <1>6 DEF E, g, h, u

\* The recurrence of the dynamic program, for whole texts.
LEMMA EditsAre ==
  ASSUME NEW s \in Texts, NEW t \in Texts, NEW i \in 0..Len(s)
  PROVE  /\ Edits(s, i, t) \in Nat
         /\ i = 0 => Edits(s, i, t) = Len(t)
         /\ Len(t) = 0 => Edits(s, i, t) = i
         /\ i # 0 /\ Len(t) # 0 =>
              /\ s[i] = t[Len(t)] => Edits(s, i, t) = Edits(s, i - 1, Cut(t))
              /\ s[i] # t[Len(t)] =>
                   Edits(s, i, t) =
                     1 + Least(Edits(s, i - 1, t), Edits(s, i, Cut(t)), Edits(s, i - 1, Cut(t)))
<1> DEFINE g == EditTable(s, t)
<1>1. Len(s) \in Nat /\ Len(t) \in Nat
  BY TextIs
<1>2. /\ g \in Tables(s, t)
      /\ \A m \in 0..Len(s), l \in 0..Len(t) : g[<<m, l>>] = Entry(s, t, g, m, l)
  BY <1>1, TableIsFilled
<1>3. Edits(s, i, t) = g[<<i, Len(t)>>] /\ Len(t) \in 0..Len(t)
  BY <1>1 DEF Edits
<1>4. g[<<i, Len(t)>>] \in Nat /\ g[<<i, Len(t)>>] = Entry(s, t, g, i, Len(t))
  BY <1>2, <1>3 DEF Tables
<1>5. ASSUME i # 0, Len(t) # 0
      PROVE  /\ Edits(s, i - 1, t) = g[<<i - 1, Len(t)>>]
             /\ Edits(s, i, Cut(t)) = g[<<i, Len(t) - 1>>]
             /\ Edits(s, i - 1, Cut(t)) = g[<<i - 1, Len(t) - 1>>]
  <2>1. /\ i - 1 \in 0..Len(s) /\ Len(t) - 1 \in 0..(Len(t) - 1) /\ Len(Cut(t)) = Len(t) - 1
    BY <1>1, <1>5, CutIs
  <2> QED  BY <1>5, <2>1, PrefixTable DEF Edits
<1> HIDE DEF g
<1> QED  BY <1>3, <1>4, <1>5 DEF Entry

\* What the recurrence says of the four entries at a corner, as arithmetic.
LEMMA CornerIs ==
  ASSUME NEW s \in Texts, NEW t \in Texts, NEW i \in 0..Len(s), i # 0, Len(t) # 0
  PROVE  LET x == Edits(s, i, t)
             up == Edits(s, i - 1, t)
             left == Edits(s, i, Cut(t))
             corner == Edits(s, i - 1, Cut(t))
         IN /\ x \in Nat /\ up \in Nat /\ left \in Nat /\ corner \in Nat
            /\ s[i] = t[Len(t)] => x = corner
            /\ s[i] # t[Len(t)] =>
                 /\ x \in {1 + up, 1 + left, 1 + corner}
                 /\ x <= 1 + up /\ x <= 1 + left /\ x <= 1 + corner
<1>1. Len(s) \in Nat /\ Len(t) \in Nat /\ i - 1 \in 0..Len(s) /\ Cut(t) \in Texts
  BY TextIs, CutIs
<1>2. /\ Edits(s, i, t) \in Nat /\ Edits(s, i - 1, t) \in Nat
      /\ Edits(s, i, Cut(t)) \in Nat /\ Edits(s, i - 1, Cut(t)) \in Nat
  BY <1>1, EditsAre
<1>3. /\ s[i] = t[Len(t)] => Edits(s, i, t) = Edits(s, i - 1, Cut(t))
      /\ s[i] # t[Len(t)] =>
           Edits(s, i, t) =
             1 + Least(Edits(s, i - 1, t), Edits(s, i, Cut(t)), Edits(s, i - 1, Cut(t)))
  BY EditsAre
<1> DEFINE least == Least(Edits(s, i - 1, t), Edits(s, i, Cut(t)), Edits(s, i - 1, Cut(t)))
<1>4. /\ least \in {Edits(s, i - 1, t), Edits(s, i, Cut(t)), Edits(s, i - 1, Cut(t))}
      /\ least <= Edits(s, i - 1, t) /\ least <= Edits(s, i, Cut(t))
      /\ least <= Edits(s, i - 1, Cut(t))
  BY <1>2, LeastIs
<1> QED  BY <1>2, <1>3, <1>4

\* Neighbouring entries of the table differ by at most one.
Near(s, i, t) ==
  /\ Len(t) # 0 => /\ Edits(s, i, Cut(t)) <= Edits(s, i, t) + 1
                   /\ Edits(s, i, t) <= Edits(s, i, Cut(t)) + 1
  /\ i # 0 => /\ Edits(s, i - 1, t) <= Edits(s, i, t) + 1
              /\ Edits(s, i, t) <= Edits(s, i - 1, t) + 1
  /\ i # 0 /\ Len(t) # 0 => Edits(s, i, t) <= Edits(s, i - 1, Cut(t)) + 1

LEMMA NeighboursAreNear ==
  ASSUME NEW s \in Texts, NEW t \in Texts, NEW i \in 0..Len(s)
  PROVE  Near(s, i, t)
<1> DEFINE S == {n \in Nat : \A m \in 0..Len(s), u \in Texts : m + Len(u) <= n => Near(s, m, u)}
<1>1. Len(s) \in Nat /\ \A u \in Texts : Len(u) \in Nat
  BY TextIs
<1>2. ASSUME NEW n \in Nat, NEW m \in 0..Len(s), NEW u \in Texts, m + Len(u) <= n,
             \A k \in 0..Len(s), v \in Texts : k + Len(v) < n => Near(s, k, v)
      PROVE  Near(s, m, u)
  <2>1. Len(u) \in Nat /\ m \in Nat
    BY <1>1
  <2>2. CASE m = 0 /\ Len(u) = 0
    BY <2>2 DEF Near
  <2>3. CASE m = 0 /\ Len(u) # 0
    <3>1. Cut(u) \in Texts /\ Len(Cut(u)) = Len(u) - 1
      BY <2>3, CutIs
    <3>2. Edits(s, m, u) = Len(u) /\ Edits(s, m, Cut(u)) = Len(u) - 1
      BY <2>3, <3>1, EditsAre
    <3> QED  BY <2>1, <2>3, <3>2 DEF Near
  <2>4. CASE m # 0 /\ Len(u) = 0
    <3>1. m - 1 \in 0..Len(s)
      BY <1>1, <2>4
    <3>2. Edits(s, m, u) = m /\ Edits(s, m - 1, u) = m - 1
      BY <2>4, <3>1, EditsAre
    <3> QED  BY <2>1, <2>4, <3>2 DEF Near
  <2>5. CASE m # 0 /\ Len(u) # 0
    <3>1. Cut(u) \in Texts /\ Len(Cut(u)) = Len(u) - 1 /\ m - 1 \in 0..Len(s)
      BY <1>1, <2>5, CutIs
    <3>2. (m - 1) + Len(u) < n /\ m + Len(Cut(u)) < n
      BY <1>2, <2>1, <3>1
    <3>3. Near(s, m - 1, u) /\ Near(s, m, Cut(u))
      BY <1>2, <3>1, <3>2
    <3>4. /\ Edits(s, m - 1, Cut(u)) <= Edits(s, m - 1, u) + 1
          /\ Edits(s, m - 1, u) <= Edits(s, m - 1, Cut(u)) + 1
          /\ Edits(s, m - 1, Cut(u)) <= Edits(s, m, Cut(u)) + 1
          /\ Edits(s, m, Cut(u)) <= Edits(s, m - 1, Cut(u)) + 1
      BY <2>5, <3>3 DEF Near
    <3> DEFINE x == Edits(s, m, u)
               up == Edits(s, m - 1, u)
               left == Edits(s, m, Cut(u))
               corner == Edits(s, m - 1, Cut(u))
    <3>5. /\ x \in Nat /\ up \in Nat /\ left \in Nat /\ corner \in Nat
          /\ s[m] = u[Len(u)] => x = corner
          /\ s[m] # u[Len(u)] =>
               /\ x \in {1 + up, 1 + left, 1 + corner}
               /\ x <= 1 + up /\ x <= 1 + left /\ x <= 1 + corner
      BY <2>5, CornerIs
    <3>6. /\ corner <= up + 1 /\ up <= corner + 1
          /\ corner <= left + 1 /\ left <= corner + 1
      BY <3>4
    <3> HIDE DEF x, up, left, corner
    <3>7. /\ left <= x + 1 /\ x <= left + 1 /\ up <= x + 1 /\ x <= up + 1 /\ x <= corner + 1
      BY <3>5, <3>6
    <3> QED  BY <2>5, <3>7 DEF Near, x, up, left, corner
  <2> QED  BY <2>2, <2>3, <2>4, <2>5
<1>3. 0 \in S
  <2>1. \A k \in 0..Len(s), v \in Texts : ~ (k + Len(v) < 0)
    BY <1>1
  <2> QED  BY <1>2, <2>1
<1>4. ASSUME NEW n \in Nat, n \in S
      PROVE  n + 1 \in S
  <2>1. \A k \in 0..Len(s), v \in Texts : k + Len(v) < n + 1 => Near(s, k, v)
    BY <1>1, <1>4
  <2> QED  BY <1>2, <2>1
<1> HIDE DEF S
<1>5. i + Len(t) \in S
  <2>1. i + Len(t) \in Nat
    BY <1>1
  <2> QED  BY <1>3, <1>4, <2>1, CountUp
<1> QED  BY <1>1, <1>5 DEF S

\* A distance is at most what it takes to delete all and to insert all.
LEMMA EditsAreFew ==
  ASSUME NEW s \in Texts, NEW t \in Texts, NEW i \in 0..Len(s)
  PROVE  Edits(s, i, t) <= i + Len(t)
<1> DEFINE S == {n \in Nat : \A u \in Texts : Len(u) = n => Edits(s, i, u) <= i + n}
<1>1. \A u \in Texts : Len(u) \in Nat /\ Edits(s, i, u) \in Nat
  BY TextIs, EditsAre
<1>2. 0 \in S
  BY <1>1, EditsAre
<1>3. ASSUME NEW n \in Nat, n \in S
      PROVE  n + 1 \in S
  <2> SUFFICES ASSUME NEW u \in Texts, Len(u) = n + 1
               PROVE  Edits(s, i, u) <= i + (n + 1)
    OBVIOUS
  <2>1. Cut(u) \in Texts /\ Len(Cut(u)) = n /\ Len(u) # 0
    BY CutIs
  <2>2. Edits(s, i, Cut(u)) <= i + n
    BY <1>3, <2>1
  <2>3. Edits(s, i, u) <= Edits(s, i, Cut(u)) + 1
    BY <2>1, NeighboursAreNear DEF Near
  <2>4. Edits(s, i, Cut(u)) \in Nat /\ Edits(s, i, u) \in Nat /\ i \in Nat
    BY <1>1, <2>1, TextIs
  <2> QED  BY <2>2, <2>3, <2>4
<1> HIDE DEF S
<1>4. Len(t) \in S
  BY <1>1, <1>2, <1>3, CountUp
<1> QED  BY <1>4 DEF S

\* A text is at no distance from itself, and from no other.
LEMMA NoEditsIsEqual ==
  ASSUME NEW s \in Texts, NEW t \in Texts
  PROVE  Edits(s, Len(s), t) = 0 <=> t = s
<1>1. Len(s) \in Nat /\ Len(t) \in Nat
  BY TextIs
<1>2. ASSUME Edits(s, Len(s), t) = 0
      PROVE  t = s
  <2>1. Len(s) = Len(t) /\ \A l \in 1..Len(s) : s[l] = t[l]
    BY <1>1, <1>2, ZeroIsEqual DEF Edits
  <2> QED  BY <2>1, TextIs
<1>3. Edits(s, Len(s), s) = 0
  <2> DEFINE g == EditTable(s, s)
             S == {n \in Nat : n <= Len(s) => g[<<n, n>>] = 0}
  <2>1. \A i \in 0..Len(s), j \in 0..Len(s) : g[<<i, j>>] = Entry(s, s, g, i, j)
    BY <1>1, TableIsFilled
  <2> HIDE DEF g
  <2>2. 0 \in S
    <3>1. Entry(s, s, g, 0, 0) = 0 /\ 0 \in 0..Len(s)
      BY <1>1 DEF Entry
    <3> QED  BY <2>1, <3>1
  <2>3. ASSUME NEW n \in Nat, n \in S
        PROVE  n + 1 \in S
    <3> SUFFICES ASSUME n + 1 <= Len(s)
                 PROVE  g[<<n + 1, n + 1>>] = 0
      OBVIOUS
    <3>1. n + 1 \in 0..Len(s) /\ n + 1 # 0 /\ (n + 1) - 1 = n /\ n <= Len(s)
      BY <1>1
    <3>2. Entry(s, s, g, n + 1, n + 1) = g[<<n, n>>]
      BY <3>1 DEF Entry
    <3> QED  BY <2>1, <2>3, <3>1, <3>2
  <2> HIDE DEF S
  <2>4. Len(s) \in S
    BY <1>1, <2>2, <2>3, CountUp
  <2> QED  BY <1>1, <2>4 DEF S, g, Edits
<1> QED  BY <1>2, <1>3

\* One edit of two texts is one at their ends or one before equal last words.
Drops(r, t) == Len(r) = Len(t) + 1 /\ \E p \in DOMAIN r : Without(r, p) = t

LEMMA DropIs ==
  ASSUME NEW r \in Texts, NEW t \in Texts, Drops(r, t)
  PROVE  \/ t = Cut(r)
         \/ /\ Len(t) # 0 /\ r[Len(r)] = t[Len(t)]
            /\ Drops(Cut(r), Cut(t))
<1>1. /\ Len(r) \in Nat /\ Len(t) \in Nat /\ Len(r) = Len(t) + 1 /\ DOMAIN r = 1..Len(r)
  BY TextIs DEF Drops
<1>2. PICK p \in 1..Len(r) : Without(r, p) = t
  BY <1>1 DEF Drops
<1>3. \A j \in 1..Len(t) : t[j] = IF j < p THEN r[j] ELSE r[j + 1]
  BY <1>1, <1>2 DEF Without
<1>4. CASE p = Len(r)
  <2>1. /\ Cut(r) \in Texts /\ Len(Cut(r)) = Len(t)
        /\ \A k \in 1..Len(t) : Cut(r)[k] = r[k]
    BY <1>1, CutIs
  <2>2. \A k \in 1..Len(t) : Cut(r)[k] = t[k]
    BY <1>1, <1>3, <1>4, <2>1
  <2> QED  BY <2>1, <2>2, TextIs
<1>5. CASE p < Len(r)
  <2>1. /\ Cut(r) \in Texts /\ Len(Cut(r)) = Len(t)
        /\ \A k \in 1..Len(t) : Cut(r)[k] = r[k]
        /\ Len(t) # 0 /\ Cut(t) \in Texts /\ Len(Cut(t)) = Len(t) - 1
        /\ \A k \in 1..(Len(t) - 1) : Cut(t)[k] = t[k]
    BY <1>1, <1>5, CutIs
  <2>2. t[Len(t)] = r[Len(r)]
    BY <1>1, <1>3, <1>5
  <2>3. p \in DOMAIN Cut(r)
    <3>1. DOMAIN Cut(r) = 1..Len(Cut(r))
      BY <2>1, TextIs
    <3> QED  BY <1>1, <1>5, <2>1, <3>1
  <2>4. Without(Cut(r), p) = Cut(t)
    <3>1. ASSUME NEW j \in 1..(Len(t) - 1)
          PROVE  (IF j < p THEN Cut(r)[j] ELSE Cut(r)[j + 1]) = t[j]
      <4>1. j \in 1..Len(t) /\ j + 1 \in 1..Len(t)
        BY <1>1
      <4> QED  BY <1>3, <2>1, <4>1
    <3>2. Without(Cut(r), p) = [j \in 1..(Len(t) - 1) |-> t[j]]
      BY <2>1, <3>1 DEF Without
    <3> QED  BY <3>2 DEF Cut
  <2> QED  BY <1>1, <2>1, <2>2, <2>3, <2>4 DEF Drops
<1> QED  BY <1>1, <1>4, <1>5

Replaces(r, t) ==
  Len(r) = Len(t) /\ \E p \in 1..Len(r) : {i \in 1..Len(r) : r[i] # t[i]} = {p}

LEMMA OneEditIs ==
  ASSUME NEW r \in Texts, NEW t \in Texts
  PROVE  OneEdit(r, t) <=> Replaces(r, t) \/ Drops(r, t) \/ Drops(t, r)
<1> DEFINE D == {i \in 1..Len(r) : r[i] # t[i]}
<1>1. Len(r) \in Nat /\ DOMAIN r = 1..Len(r) /\ DOMAIN t = 1..Len(t)
  BY TextIs
<1>2. IsFiniteSet(D)
  <2>1. IsFiniteSet(1..Len(r))
    BY <1>1, FS_Interval
  <2> QED  BY <2>1, FS_Subset
<1>3. Cardinality(D) = 1 <=> \E p : D = {p}
  BY <1>2, FS_Singleton
<1>4. (\E p : D = {p}) <=> \E p \in 1..Len(r) : D = {p}
  OBVIOUS
<1> QED  BY <1>1, <1>3, <1>4 DEF OneEdit, Replaces, Drops

LEMMA ReplaceIs ==
  ASSUME NEW r \in Texts, NEW t \in Texts, Replaces(r, t)
  PROVE  /\ Len(r) # 0 /\ Len(t) = Len(r)
         /\ \/ Cut(r) = Cut(t)
            \/ r[Len(r)] = t[Len(t)] /\ Replaces(Cut(r), Cut(t))
<1>1. Len(r) \in Nat /\ Len(t) = Len(r)
  BY TextIs DEF Replaces
<1>2. PICK p \in 1..Len(r) : {i \in 1..Len(r) : r[i] # t[i]} = {p}
  BY DEF Replaces
<1>3. r[p] # t[p] /\ \A i \in 1..Len(r) : i # p => r[i] = t[i]
  BY <1>2
<1>4. /\ Cut(r) \in Texts /\ Len(Cut(r)) = Len(r) - 1
      /\ Cut(t) \in Texts /\ Len(Cut(t)) = Len(r) - 1
      /\ \A k \in 1..(Len(r) - 1) : Cut(r)[k] = r[k] /\ Cut(t)[k] = t[k]
  BY <1>1, CutIs
<1>5. CASE p = Len(r)
  <2>1. \A k \in 1..(Len(r) - 1) : Cut(r)[k] = Cut(t)[k]
    BY <1>1, <1>3, <1>4, <1>5
  <2>2. Cut(r) = Cut(t)
    BY <1>4, <2>1, TextIs
  <2> QED  BY <1>1, <2>2
<1>6. CASE p < Len(r)
  <2>1. r[Len(r)] = t[Len(r)]
    BY <1>1, <1>3, <1>6
  <2>2. {i \in 1..(Len(r) - 1) : Cut(r)[i] # Cut(t)[i]} = {p}
    BY <1>1, <1>3, <1>4, <1>6
  <2>3. p \in 1..(Len(r) - 1)
    BY <1>1, <1>6
  <2> QED  BY <1>1, <1>4, <2>1, <2>2, <2>3 DEF Replaces
<1> QED  BY <1>1, <1>5, <1>6

\* Edits at the end of a text, and before a word that is added.
LEMMA EditsAtTheEnd ==
  ASSUME NEW u \in Texts, NEW x \in Words, NEW y \in Words
  PROVE  /\ OneEdit(u, Plus(u, x)) /\ OneEdit(Plus(u, x), u)
         /\ x # y => OneEdit(Plus(u, x), Plus(u, y))
<1>1. /\ Len(u) \in Nat
      /\ Plus(u, x) \in Texts /\ Len(Plus(u, x)) = Len(u) + 1 /\ Cut(Plus(u, x)) = u
      /\ Plus(u, y) \in Texts /\ Len(Plus(u, y)) = Len(u) + 1
      /\ \A k \in 1..Len(u) : Plus(u, x)[k] = u[k] /\ Plus(u, y)[k] = u[k]
      /\ Plus(u, x)[Len(u) + 1] = x /\ Plus(u, y)[Len(u) + 1] = y
      /\ DOMAIN Plus(u, x) = 1..(Len(u) + 1)
  BY TextIs, PlusIs
<1>2. Drops(Plus(u, x), u)
  <2>1. Without(Plus(u, x), Len(u) + 1) = [j \in 1..Len(u) |-> Plus(u, x)[j]]
    BY <1>1 DEF Without
  <2>2. Cut(Plus(u, x)) = [j \in 1..Len(u) |-> Plus(u, x)[j]]
    BY <1>1 DEF Cut
  <2>3. Without(Plus(u, x), Len(u) + 1) = u /\ Len(u) + 1 \in DOMAIN Plus(u, x)
    BY <1>1, <2>1, <2>2
  <2> QED  BY <1>1, <2>3 DEF Drops
<1>3. ASSUME x # y
      PROVE  Replaces(Plus(u, x), Plus(u, y))
  <2>1. \A k \in 1..(Len(u) + 1) : Plus(u, x)[k] # Plus(u, y)[k] <=> k = Len(u) + 1
    BY <1>1, <1>3
  <2>2. Len(u) + 1 \in 1..(Len(u) + 1)
    BY <1>1
  <2>3. {k \in 1..(Len(u) + 1) : Plus(u, x)[k] # Plus(u, y)[k]} = {Len(u) + 1}
    BY <2>1, <2>2
  <2> QED  BY <1>1, <2>2, <2>3 DEF Replaces
<1> QED  BY <1>1, <1>2, <1>3, OneEditIs

LEMMA DropBefore ==
  ASSUME NEW u \in Texts, NEW v \in Texts, NEW x \in Words, Drops(u, v)
  PROVE  Drops(Plus(u, x), Plus(v, x))
<1>1. /\ Len(u) \in Nat /\ Len(v) \in Nat /\ Len(u) = Len(v) + 1 /\ DOMAIN u = 1..Len(u)
      /\ Plus(u, x) \in Texts /\ Len(Plus(u, x)) = Len(u) + 1
      /\ Plus(v, x) \in Texts /\ Len(Plus(v, x)) = Len(v) + 1
      /\ \A k \in 1..Len(u) : Plus(u, x)[k] = u[k]
      /\ \A k \in 1..Len(v) : Plus(v, x)[k] = v[k]
      /\ Plus(u, x)[Len(u) + 1] = x /\ Plus(v, x)[Len(v) + 1] = x
      /\ DOMAIN Plus(u, x) = 1..(Len(u) + 1)
  <2>1. Len(u) \in Nat /\ Len(v) \in Nat /\ Len(u) = Len(v) + 1 /\ DOMAIN u = 1..Len(u)
    BY TextIs DEF Drops
  <2>2. /\ Plus(u, x) \in Texts /\ Len(Plus(u, x)) = Len(u) + 1
        /\ \A k \in 1..Len(u) : Plus(u, x)[k] = u[k]
        /\ Plus(u, x)[Len(u) + 1] = x
    BY PlusIs
  <2>3. /\ Plus(v, x) \in Texts /\ Len(Plus(v, x)) = Len(v) + 1
        /\ \A k \in 1..Len(v) : Plus(v, x)[k] = v[k]
        /\ Plus(v, x)[Len(v) + 1] = x
    BY PlusIs
  <2>4. DOMAIN Plus(u, x) = 1..(Len(u) + 1)
    BY <2>2, TextIs
  <2> QED  BY <2>1, <2>2, <2>3, <2>4
<1>2. PICK p \in 1..Len(u) : Without(u, p) = v
  BY <1>1 DEF Drops
<1>3. \A j \in 1..Len(v) : v[j] = IF j < p THEN u[j] ELSE u[j + 1]
  BY <1>1, <1>2 DEF Without
<1>4. ASSUME NEW j \in 1..Len(u)
      PROVE  (IF j < p THEN Plus(u, x)[j] ELSE Plus(u, x)[j + 1]) = Plus(v, x)[j]
  <2>1. CASE j <= Len(v)
    <3>1. j \in 1..Len(v) /\ j \in 1..Len(u) /\ j + 1 \in 1..Len(u)
      BY <1>1, <2>1
    <3> QED  BY <1>1, <1>3, <3>1
  <2>2. CASE j = Len(u)
    BY <1>1, <2>2
  <2> QED  BY <1>1, <2>1, <2>2
<1>5. Plus(v, x) = [j \in 1..Len(u) |-> Plus(v, x)[j]]
  BY <1>1, TextIs
<1>6. Without(Plus(u, x), p) = Plus(v, x)
  <2>1. Without(Plus(u, x), p) =
          [j \in 1..Len(u) |-> IF j < p THEN Plus(u, x)[j] ELSE Plus(u, x)[j + 1]]
    BY <1>1 DEF Without
  <2> QED  BY <1>4, <1>5, <2>1
<1> QED  BY <1>1, <1>6 DEF Drops

LEMMA EditBefore ==
  ASSUME NEW u \in Texts, NEW v \in Texts, NEW x \in Words, OneEdit(u, v)
  PROVE  OneEdit(Plus(u, x), Plus(v, x))
<1>1. Plus(u, x) \in Texts /\ Plus(v, x) \in Texts
  BY PlusIs
<1>2. ASSUME Replaces(u, v)
      PROVE  Replaces(Plus(u, x), Plus(v, x))
  <2>1. /\ Len(u) \in Nat /\ Len(v) = Len(u)
        /\ Len(Plus(u, x)) = Len(u) + 1 /\ Len(Plus(v, x)) = Len(u) + 1
        /\ \A k \in 1..Len(u) : Plus(u, x)[k] = u[k] /\ Plus(v, x)[k] = v[k]
        /\ Plus(u, x)[Len(u) + 1] = x /\ Plus(v, x)[Len(u) + 1] = x
    <3>1. Len(u) \in Nat /\ Len(v) = Len(u)
      BY <1>2, TextIs DEF Replaces
    <3>2. /\ Len(Plus(u, x)) = Len(u) + 1 /\ Plus(u, x)[Len(u) + 1] = x
          /\ \A k \in 1..Len(u) : Plus(u, x)[k] = u[k]
      BY PlusIs
    <3>3. /\ Len(Plus(v, x)) = Len(v) + 1 /\ Plus(v, x)[Len(v) + 1] = x
          /\ \A k \in 1..Len(v) : Plus(v, x)[k] = v[k]
      BY PlusIs
    <3> QED  BY <3>1, <3>2, <3>3
  <2>2. PICK p \in 1..Len(u) : {i \in 1..Len(u) : u[i] # v[i]} = {p}
    BY <1>2 DEF Replaces
  <2>3. \A i \in 1..Len(u) : u[i] # v[i] <=> i = p
    BY <2>2
  <2>4. \A i \in 1..(Len(u) + 1) : Plus(u, x)[i] # Plus(v, x)[i] <=> i = p
    <3> SUFFICES ASSUME NEW i \in 1..(Len(u) + 1)
                 PROVE  Plus(u, x)[i] # Plus(v, x)[i] <=> i = p
      OBVIOUS
    <3>1. CASE i \in 1..Len(u)
      BY <2>1, <2>3, <3>1
    <3>2. CASE i = Len(u) + 1
      BY <2>1, <3>2
    <3> QED  BY <2>1, <3>1, <3>2
  <2>5. p \in 1..(Len(u) + 1)
    BY <2>1
  <2>6. {i \in 1..(Len(u) + 1) : Plus(u, x)[i] # Plus(v, x)[i]} = {p}
    BY <2>4, <2>5
  <2> QED  BY <2>1, <2>5, <2>6 DEF Replaces
<1> QED  BY <1>1, <1>2, DropBefore, OneEditIs

\* An edit costs at most one: no chain of edits is shorter than the distance.
LEMMA EditCostsOne ==
  ASSUME NEW s \in Texts, NEW r \in Texts, NEW t \in Texts, OneEdit(r, t), NEW i \in 0..Len(s)
  PROVE  Edits(s, i, t) <= Edits(s, i, r) + 1
<1> DEFINE S == {n \in Nat : \A m \in 0..Len(s), u, v \in Texts :
                               m + Len(u) <= n /\ OneEdit(u, v) =>
                                 Edits(s, m, v) <= Edits(s, m, u) + 1}
<1>1. Len(s) \in Nat /\ \A u \in Texts : Len(u) \in Nat
  BY TextIs
<1>2. \A m \in 0..Len(s), u \in Texts : Edits(s, m, u) \in Nat
  BY EditsAre
<1>3. ASSUME NEW n \in Nat, NEW m \in 0..Len(s), NEW u \in Texts, NEW v \in Texts,
             m + Len(u) <= n, OneEdit(u, v),
             \A k \in 0..Len(s), x, y \in Texts :
               k + Len(x) < n /\ OneEdit(x, y) => Edits(s, k, y) <= Edits(s, k, x) + 1
      PROVE  Edits(s, m, v) <= Edits(s, m, u) + 1
  <2>1. m \in Nat /\ Len(u) \in Nat /\ Len(v) \in Nat
    BY <1>1
  <2>2. /\ Len(u) = Len(v) \/ Len(u) = Len(v) + 1 \/ Len(v) = Len(u) + 1
        /\ \/ Len(u) # 0 /\ v = Cut(u)
           \/ Len(v) # 0 /\ u = Cut(v)
           \/ /\ Len(u) # 0 /\ Len(v) # 0
              /\ \/ Cut(u) = Cut(v)
                 \/ u[Len(u)] = v[Len(v)] /\ OneEdit(Cut(u), Cut(v))
    <3>1. CASE Replaces(u, v)
      <4>1. Len(u) # 0 /\ Len(v) = Len(u)
        BY <3>1, ReplaceIs
      <4>2. Cut(u) \in Texts /\ Cut(v) \in Texts
        BY <4>1, CutIs
      <4> QED  BY <3>1, <4>1, <4>2, ReplaceIs, OneEditIs
    <3>2. CASE Drops(u, v)
      <4>1. Len(u) = Len(v) + 1 /\ Len(u) # 0
        BY <2>1, <3>2 DEF Drops
      <4>2. Len(v) # 0 => Cut(u) \in Texts /\ Cut(v) \in Texts
        BY <4>1, CutIs
      <4> QED  BY <3>2, <4>1, <4>2, DropIs, OneEditIs
    <3>3. CASE Drops(v, u)
      <4>1. Len(v) = Len(u) + 1 /\ Len(v) # 0
        BY <2>1, <3>3 DEF Drops
      <4>2. Len(u) # 0 => Cut(u) \in Texts /\ Cut(v) \in Texts
        BY <4>1, CutIs
      <4> QED  BY <3>3, <4>1, <4>2, DropIs, OneEditIs
    <3> QED  BY <1>3, <3>1, <3>2, <3>3, OneEditIs
  <2>3. CASE Len(u) # 0 /\ v = Cut(u)
    BY <2>3, NeighboursAreNear DEF Near
  <2>4. CASE Len(v) # 0 /\ u = Cut(v)
    BY <2>4, NeighboursAreNear DEF Near
  <2>5. CASE m = 0
    <3>1. Edits(s, m, u) = Len(u) /\ Edits(s, m, v) = Len(v)
      BY <2>5, EditsAre
    <3> QED  BY <2>1, <2>2, <3>1
  <2>6. CASE m # 0 /\ Len(u) # 0 /\ Len(v) # 0
    <3>1. /\ m - 1 \in 0..Len(s) /\ Cut(u) \in Texts /\ Len(Cut(u)) = Len(u) - 1
          /\ Cut(v) \in Texts
      BY <1>1, <2>6, CutIs
    <3>2. (m - 1) + Len(u) < n /\ m + Len(Cut(u)) < n /\ (m - 1) + Len(Cut(u)) < n
      BY <1>3, <2>1, <3>1
    <3>3. Edits(s, m - 1, v) <= Edits(s, m - 1, u) + 1
      BY <1>3, <3>1, <3>2
    <3> DEFINE x == Edits(s, m, u)
               xup == Edits(s, m - 1, u)
               xleft == Edits(s, m, Cut(u))
               xcorner == Edits(s, m - 1, Cut(u))
               y == Edits(s, m, v)
               yup == Edits(s, m - 1, v)
               yleft == Edits(s, m, Cut(v))
               ycorner == Edits(s, m - 1, Cut(v))
    <3>4. /\ x \in Nat /\ xup \in Nat /\ xleft \in Nat /\ xcorner \in Nat
          /\ s[m] = u[Len(u)] => x = xcorner
          /\ s[m] # u[Len(u)] => x \in {1 + xup, 1 + xleft, 1 + xcorner}
      BY <2>6, CornerIs
    <3>5. /\ y \in Nat /\ yup \in Nat /\ yleft \in Nat /\ ycorner \in Nat
          /\ s[m] = v[Len(v)] => y = ycorner
          /\ s[m] # v[Len(v)] => y <= 1 + yup /\ y <= 1 + yleft /\ y <= 1 + ycorner
      BY <2>6, CornerIs
    <3>6. y <= 1 + yup /\ y <= 1 + yleft /\ y <= 1 + ycorner
      <4>1. Near(s, m, v)
        BY NeighboursAreNear
      <4>2. y <= yup + 1 /\ y <= yleft + 1 /\ y <= ycorner + 1
        BY <2>6, <4>1 DEF Near
      <4> HIDE DEF y, yup, yleft, ycorner
      <4> QED  BY <3>5, <4>2
    <3>7. CASE Cut(u) = Cut(v)
      <4>1. xleft = yleft /\ xcorner = ycorner /\ yup <= xup + 1
        BY <3>3, <3>7
      <4> HIDE DEF x, xup, xleft, xcorner, y, yup, yleft, ycorner
      <4>2. y <= x + 1
        BY <3>4, <3>5, <3>6, <4>1
      <4> QED  BY <4>2 DEF x, y
    <3>8. CASE u[Len(u)] = v[Len(v)] /\ OneEdit(Cut(u), Cut(v))
      <4>1. yleft <= xleft + 1 /\ ycorner <= xcorner + 1 /\ yup <= xup + 1
        BY <1>3, <3>1, <3>2, <3>3, <3>8
      <4>2. s[m] = u[Len(u)] <=> s[m] = v[Len(v)]
        BY <3>8
      <4> HIDE DEF x, xup, xleft, xcorner, y, yup, yleft, ycorner
      <4>3. CASE s[m] = u[Len(u)]
        <5>1. x = xcorner /\ y = ycorner
          BY <3>4, <3>5, <4>2, <4>3
        <5> QED  BY <3>4, <3>5, <4>1, <5>1 DEF x, y
      <4>4. CASE s[m] # u[Len(u)]
        <5>1. /\ x \in {1 + xup, 1 + xleft, 1 + xcorner}
              /\ y <= 1 + yup /\ y <= 1 + yleft /\ y <= 1 + ycorner
          BY <3>4, <3>5, <4>2, <4>4
        <5>2. y <= x + 1
          BY <3>4, <3>5, <4>1, <5>1
        <5> QED  BY <5>2 DEF x, y
      <4> QED  BY <4>3, <4>4
    <3> QED  BY <2>2, <2>3, <2>4, <2>6, <3>7, <3>8
  <2> QED  BY <2>2, <2>3, <2>4, <2>5, <2>6
<1>4. 0 \in S
  <2>1. \A k \in 0..Len(s), x \in Texts : ~ (k + Len(x) < 0)
    BY <1>1
  <2> QED  BY <1>3, <2>1
<1>5. ASSUME NEW n \in Nat, n \in S
      PROVE  n + 1 \in S
  <2>1. \A k \in 0..Len(s), x, y \in Texts :
          k + Len(x) < n + 1 /\ OneEdit(x, y) => Edits(s, k, y) <= Edits(s, k, x) + 1
    BY <1>1, <1>5
  <2> QED  BY <1>3, <2>1
<1> HIDE DEF S
<1>6. i + Len(r) \in S
  <2>1. i + Len(r) \in Nat
    BY <1>1
  <2> QED  BY <1>4, <1>5, <2>1, CountUp
<1> QED  BY <1>1, <1>6 DEF S

\* A text at some distance is one edit from a text that is nearer and no longer
\* than both: a chain of that many edits exists, and it can stay within the
\* lengths of the two.
Nearer(s, i, t) ==
  \E r \in Texts : /\ Len(r) <= i \/ Len(r) <= Len(t)
                   /\ OneEdit(r, t)
                   /\ Edits(s, i, r) < Edits(s, i, t)

LEMMA EndsWith ==
  ASSUME NEW s \in Texts, NEW t \in Texts, NEW i \in 0..Len(s), i # 0
  PROVE  /\ Plus(t, s[i]) \in Texts /\ Len(Plus(t, s[i])) = Len(t) + 1
         /\ Edits(s, i, Plus(t, s[i])) = Edits(s, i - 1, t)
<1>1. Len(s) \in Nat /\ Len(t) \in Nat /\ i \in 1..Len(s) /\ s[i] \in Words
  BY TextIs
<1> DEFINE u == Plus(t, s[i])
<1>2. u \in Texts /\ Len(u) = Len(t) + 1 /\ u[Len(t) + 1] = s[i] /\ Cut(u) = t
  BY <1>1, PlusIs
<1>3. Len(u) # 0 /\ s[i] = u[Len(u)]
  BY <1>1, <1>2
<1> HIDE DEF u
<1>4. Edits(s, i, u) = Edits(s, i - 1, Cut(u))
  BY <1>2, <1>3, EditsAre
<1> QED  BY <1>2, <1>4 DEF u

LEMMA SomeTextIsNearer ==
  ASSUME NEW s \in Texts, NEW t \in Texts, NEW i \in 0..Len(s), Edits(s, i, t) # 0
  PROVE  Nearer(s, i, t)
<1> DEFINE S == {n \in Nat : \A m \in 0..Len(s), u \in Texts :
                               m + Len(u) <= n /\ Edits(s, m, u) # 0 => Nearer(s, m, u)}
<1>1. Len(s) \in Nat /\ \A u \in Texts : Len(u) \in Nat
  BY TextIs
<1>2. \A m \in 0..Len(s), u \in Texts : Edits(s, m, u) \in Nat
  BY EditsAre
<1>3. ASSUME NEW n \in Nat, NEW m \in 0..Len(s), NEW u \in Texts,
             m + Len(u) <= n, Edits(s, m, u) # 0,
             \A k \in 0..Len(s), v \in Texts :
               k + Len(v) < n /\ Edits(s, k, v) # 0 => Nearer(s, k, v)
      PROVE  Nearer(s, m, u)
  <2>1. m \in Nat /\ Len(u) \in Nat
    BY <1>1
  <2> DEFINE last == u[Len(u)]
  <2>2. Len(u) # 0 => /\ Cut(u) \in Texts /\ Len(Cut(u)) = Len(u) - 1
                      /\ last \in Words /\ u = Plus(Cut(u), last)
                      /\ OneEdit(Cut(u), u)
    <3> SUFFICES ASSUME Len(u) # 0
                 PROVE  /\ Cut(u) \in Texts /\ Len(Cut(u)) = Len(u) - 1
                        /\ last \in Words /\ u = Plus(Cut(u), last)
                        /\ OneEdit(Cut(u), u)
      OBVIOUS
    <3>1. /\ Cut(u) \in Texts /\ Len(Cut(u)) = Len(u) - 1
          /\ \A k \in 1..(Len(u) - 1) : Cut(u)[k] = u[k]
      BY CutIs
    <3>2. last \in Words
      BY <2>1, TextIs
    <3>3. /\ Plus(Cut(u), last) \in Texts /\ Len(Plus(Cut(u), last)) = Len(u)
          /\ \A k \in 1..(Len(u) - 1) : Plus(Cut(u), last)[k] = u[k]
          /\ Plus(Cut(u), last)[Len(u)] = last
      BY <2>1, <3>1, <3>2, PlusIs
    <3>4. u = Plus(Cut(u), last)
      <4>1. \A k \in 1..Len(u) : Plus(Cut(u), last)[k] = u[k]
        BY <2>1, <3>3
      <4> QED  BY <3>3, <4>1, TextIs
    <3>5. OneEdit(Cut(u), Plus(Cut(u), last))
      BY <3>1, <3>2, EditsAtTheEnd
    <3> QED  BY <3>1, <3>2, <3>4, <3>5
  <2>3. m # 0 => /\ m - 1 \in 0..Len(s) /\ s[m] \in Words
    BY <1>1, TextIs
  <2>4. ASSUME m # 0, Len(u) < m, Edits(s, m - 1, u) < Edits(s, m, u)
        PROVE  Nearer(s, m, u)
    <3> DEFINE r == Plus(u, s[m])
    <3>1. r \in Texts /\ Len(r) = Len(u) + 1 /\ Edits(s, m, r) = Edits(s, m - 1, u)
      BY <2>4, EndsWith
    <3>2. OneEdit(r, u)
      BY <2>3, <2>4, EditsAtTheEnd
    <3>3. Len(r) <= m
      BY <2>1, <2>4, <3>1
    <3> QED  BY <2>4, <3>1, <3>2, <3>3 DEF Nearer
  <2>5. ASSUME Len(u) # 0, Edits(s, m, Cut(u)) < Edits(s, m, u)
        PROVE  Nearer(s, m, u)
    <3>1. Cut(u) \in Texts /\ Len(Cut(u)) <= Len(u) /\ OneEdit(Cut(u), u)
      BY <2>1, <2>2, <2>5
    <3> QED  BY <2>5, <3>1 DEF Nearer
  <2>6. CASE m = 0
    <3>1. Edits(s, m, u) = Len(u) /\ Len(u) # 0
      BY <1>3, <2>6, EditsAre
    <3>2. Edits(s, m, Cut(u)) = Len(u) - 1
      BY <2>2, <2>6, <3>1, EditsAre
    <3> QED  BY <2>1, <2>5, <3>1, <3>2
  <2>7. CASE m # 0 /\ Len(u) = 0
    <3>1. Edits(s, m, u) = m /\ Edits(s, m - 1, u) = m - 1
      BY <2>3, <2>7, EditsAre
    <3> QED  BY <2>1, <2>4, <2>7, <3>1
  <2>8. CASE m # 0 /\ Len(u) # 0 /\ s[m] = last
    <3>1. Edits(s, m, u) = Edits(s, m - 1, Cut(u))
      BY <2>8, EditsAre
    <3>2. (m - 1) + Len(Cut(u)) < n
      BY <1>3, <2>1, <2>2, <2>8
    <3>3. Nearer(s, m - 1, Cut(u))
      BY <1>3, <2>2, <2>3, <2>8, <3>1, <3>2
    <3>4. PICK v \in Texts : /\ Len(v) <= m - 1 \/ Len(v) <= Len(u) - 1
                             /\ OneEdit(v, Cut(u))
                             /\ Edits(s, m - 1, v) < Edits(s, m - 1, Cut(u))
      BY <2>2, <2>8, <3>3 DEF Nearer
    <3> DEFINE r == Plus(v, s[m])
    <3>5. r \in Texts /\ Len(r) = Len(v) + 1 /\ Edits(s, m, r) = Edits(s, m - 1, v)
      BY <2>8, EndsWith
    <3>6. OneEdit(r, Plus(Cut(u), last))
      BY <2>2, <2>8, <3>4, EditBefore
    <3>7. Len(r) <= m \/ Len(r) <= Len(u)
      BY <1>1, <2>1, <3>4, <3>5
    <3>8. OneEdit(r, u) /\ Edits(s, m, r) < Edits(s, m, u)
      BY <2>2, <2>8, <3>1, <3>4, <3>5, <3>6
    <3> QED  BY <3>5, <3>7, <3>8 DEF Nearer
  <2>9. CASE m # 0 /\ Len(u) # 0 /\ s[m] # last
    <3> DEFINE x == Edits(s, m, u)
               up == Edits(s, m - 1, u)
               left == Edits(s, m, Cut(u))
               corner == Edits(s, m - 1, Cut(u))
    <3>1. /\ x \in Nat /\ up \in Nat /\ left \in Nat /\ corner \in Nat
          /\ x \in {1 + up, 1 + left, 1 + corner}
      BY <2>9, CornerIs
    <3>2. CASE x = 1 + left
      BY <2>5, <2>9, <3>1, <3>2
    <3>3. CASE x = 1 + corner
      <4> DEFINE r == Plus(Cut(u), s[m])
      <4>1. r \in Texts /\ Len(r) = Len(u) /\ Edits(s, m, r) = corner
        BY <2>1, <2>2, <2>9, EndsWith
      <4>2. OneEdit(r, Plus(Cut(u), last))
        BY <2>2, <2>3, <2>9, EditsAtTheEnd
      <4>3. OneEdit(r, u) /\ Edits(s, m, r) < Edits(s, m, u) /\ Len(r) <= Len(u)
        BY <2>1, <2>2, <2>9, <3>1, <3>3, <4>1, <4>2
      <4> QED  BY <4>1, <4>3 DEF Nearer
    <3>4. CASE x = 1 + up /\ Len(u) < m
      BY <2>4, <2>9, <3>1, <3>4
    <3>5. CASE x = 1 + up /\ m <= Len(u)
      <4>1. up # 0
        <5> SUFFICES ASSUME up = 0 PROVE FALSE
          OBVIOUS
        <5>1. /\ m - 1 \in 0..Len(s) /\ Len(u) \in 0..Len(u)
              /\ EditTable(s, u)[<<m - 1, Len(u)>>] = 0
          BY <2>1, <2>3, <2>9 DEF Edits
        <5>2. m - 1 = Len(u)
          BY <1>1, <5>1, ZeroIsEqual
        <5> QED  BY <2>1, <3>5, <5>2
      <4>2. (m - 1) + Len(u) < n
        BY <1>3, <2>1
      <4>3. Nearer(s, m - 1, u)
        BY <1>3, <2>3, <2>9, <4>1, <4>2
      <4>4. PICK r \in Texts : /\ Len(r) <= m - 1 \/ Len(r) <= Len(u)
                               /\ OneEdit(r, u)
                               /\ Edits(s, m - 1, r) < up
        BY <4>3 DEF Nearer
      <4>5. Edits(s, m, r) <= Edits(s, m - 1, r) + 1
        BY <2>9, NeighboursAreNear DEF Near
      <4>6. Edits(s, m, r) \in Nat /\ Edits(s, m - 1, r) \in Nat
        BY <1>2, <2>3, <2>9
      <4>7. Edits(s, m, r) < Edits(s, m, u)
        BY <3>1, <3>5, <4>4, <4>5, <4>6
      <4>8. Len(r) <= m \/ Len(r) <= Len(u)
        BY <1>1, <2>1, <4>4
      <4> QED  BY <4>4, <4>7, <4>8 DEF Nearer
    <3>6. Len(u) < m \/ m <= Len(u)
      BY <2>1
    <3> QED  BY <3>1, <3>2, <3>3, <3>4, <3>5, <3>6
  <2> QED  BY <2>6, <2>7, <2>8, <2>9
<1>4. 0 \in S
  <2>1. \A k \in 0..Len(s), v \in Texts : ~ (k + Len(v) < 0)
    BY <1>1
  <2> QED  BY <1>3, <2>1
<1>5. ASSUME NEW n \in Nat, n \in S
      PROVE  n + 1 \in S
  <2>1. \A k \in 0..Len(s), v \in Texts :
          k + Len(v) < n + 1 /\ Edits(s, k, v) # 0 => Nearer(s, k, v)
    BY <1>1, <1>5
  <2> QED  BY <1>3, <2>1
<1> HIDE DEF S
<1>6. i + Len(t) \in S
  <2>1. i + Len(t) \in Nat
    BY <1>1
  <2> QED  BY <1>4, <1>5, <2>1, CountUp
<1> QED  BY <1>1, <1>6 DEF S

\* What k edits reach is what is within the distance k.
LEMMA ReachedIs ==
  ASSUME NEW s \in Transcripts, NEW k \in 0..(2 * MaxWords)
  PROVE  Reached(s)[k] = {t \in Transcripts : Edits(s, Len(s), t) <= k}
<1> DEFINE N == 2 * MaxWords
           Spread(f, n) ==
             IF n = 0 THEN {s}
             ELSE f[n - 1] \cup {t \in Transcripts : \E r \in f[n - 1] : OneEdit(r, t)}
           w == [n \in 0..N |-> {t \in Transcripts : Edits(s, Len(s), t) <= n}]
<1>1. /\ N \in Nat
      /\ \A t \in Transcripts : t \in Texts /\ Len(t) <= MaxWords
      /\ \A t \in Texts : Len(t) <= MaxWords => t \in Transcripts
  <2>1. ASSUME NEW t \in Transcripts
        PROVE  t \in Texts /\ Len(t) <= MaxWords
    <3>1. PICK n \in 0..MaxWords : t \in [1..n -> Words]
      BY DEF Transcripts
    <3>2. n \in Nat /\ n <= MaxWords
      BY EvaluationAssumption
    <3> QED  BY <3>1, <3>2, TextOf
  <2>2. ASSUME NEW t \in Texts, Len(t) <= MaxWords
        PROVE  t \in Transcripts
    <3>1. Len(t) \in 0..MaxWords /\ t \in [1..Len(t) -> Words]
      BY <2>2, EvaluationAssumption, TextIs
    <3> QED  BY <3>1 DEF Transcripts
  <2> QED  BY <2>1, <2>2, EvaluationAssumption
<1>2. s \in Texts /\ Len(s) \in 0..Len(s) /\ Len(s) <= MaxWords /\ Len(s) \in Nat
  BY <1>1, TextIs
<1>3. \A t \in Transcripts : Edits(s, Len(s), t) \in Nat
  BY <1>1, <1>2, EditsAre
<1>4. ASSUME NEW n \in 0..N
      PROVE  w[n] = Spread(w, n)
  <2>1. CASE n = 0
    <3>1. \A t \in Transcripts : Edits(s, Len(s), t) <= 0 <=> t = s
      BY <1>1, <1>2, <1>3, NoEditsIsEqual
    <3> QED  BY <2>1, <3>1
  <2>2. CASE n # 0
    <3>1. n - 1 \in 0..N /\ n \in Nat
      BY <1>1, <2>2
    <3>2. ASSUME NEW t \in Transcripts, NEW r \in Transcripts,
                 Edits(s, Len(s), r) <= n - 1, OneEdit(r, t)
          PROVE  Edits(s, Len(s), t) <= n
      <4>1. Edits(s, Len(s), t) <= Edits(s, Len(s), r) + 1
        BY <1>1, <1>2, <3>2, EditCostsOne
      <4> QED  BY <1>3, <3>1, <3>2, <4>1
    <3>3. ASSUME NEW t \in Transcripts, Edits(s, Len(s), t) <= n, ~ (Edits(s, Len(s), t) <= n - 1)
          PROVE  \E r \in Transcripts : Edits(s, Len(s), r) <= n - 1 /\ OneEdit(r, t)
      <4>1. Edits(s, Len(s), t) = n
        BY <1>3, <3>1, <3>3
      <4>2. PICK r \in Texts : /\ Len(r) <= Len(s) \/ Len(r) <= Len(t)
                               /\ OneEdit(r, t)
                               /\ Edits(s, Len(s), r) < Edits(s, Len(s), t)
        BY <1>1, <1>2, <2>2, <4>1, SomeTextIsNearer DEF Nearer
      <4>3. Len(t) \in Nat /\ Len(r) \in Nat
        BY <1>1, TextIs
      <4>4. r \in Transcripts
        BY <1>1, <1>2, <4>2, <4>3, EvaluationAssumption
      <4> QED  BY <1>3, <3>1, <4>1, <4>2, <4>4
    <3>4. \A t \in Transcripts : Edits(s, Len(s), t) <= n - 1 => Edits(s, Len(s), t) <= n
      BY <1>3, <3>1
    <3>5. /\ w[n] = {t \in Transcripts : Edits(s, Len(s), t) <= n}
          /\ w[n - 1] = {t \in Transcripts : Edits(s, Len(s), t) <= n - 1}
      BY <3>1
    <3> HIDE DEF w
    <3> QED  BY <2>2, <3>2, <3>3, <3>4, <3>5
  <2> QED  BY <2>1, <2>2
<1>5. w = [n \in 0..N |-> Spread(w, n)]
  BY <1>4
<1>6. Reached(s) = [n \in 0..N |-> Spread(Reached(s), n)]
  <2> HIDE DEF w
  <2> QED  BY <1>5 DEF Reached
<1> DEFINE S == {n \in Nat : n <= N => Reached(s)[n] = w[n]}
<1> HIDE DEF w, N
<1>7. 0 \in S
  <2>1. 0 \in 0..N
    BY <1>1
  <2> QED  BY <1>4, <1>6, <2>1
<1>8. ASSUME NEW n \in Nat, n \in S
      PROVE  n + 1 \in S
  <2> SUFFICES ASSUME n + 1 <= N
               PROVE  Reached(s)[n + 1] = w[n + 1]
    OBVIOUS
  <2>1. n + 1 \in 0..N /\ n + 1 # 0 /\ (n + 1) - 1 = n /\ n <= N
    BY <1>1
  <2>2. Reached(s)[n] = w[n]
    BY <1>8, <2>1
  <2>3. Spread(Reached(s), n + 1) = Spread(w, n + 1)
    BY <2>1, <2>2
  <2>4. Reached(s)[n + 1] = Spread(Reached(s), n + 1)
    BY <1>6, <2>1
  <2>5. w[n + 1] = Spread(w, n + 1)
    BY <1>4, <2>1
  <2> QED  BY <2>3, <2>4, <2>5
<1> HIDE DEF S
<1>9. k \in S /\ k <= N
  <2>1. k \in Nat /\ k <= N
    BY <1>1 DEF N
  <2> QED  BY <1>7, <1>8, <2>1, CountUp
<1> QED  BY <1>9 DEF S, w, N

\* The reports of the first runner.
FirstReport ==
  /\ TranscriptIsOne
  /\ stage = "measure" =>
       /\ place \in Nat
       /\ place # 0
       /\ place = 1 => results = <<>>
       /\ place = 2 => results = SttResults

LEMMA FirstReportInvariant == EvaluationSpec => []FirstReport
<1>1. EvaluationInit => FirstReport
  BY DEF EvaluationInit, FirstReport, TranscriptIsOne
<1>2. FirstReport /\ [EvaluationNext]_evaluationVars => FirstReport'
  <2> SUFFICES ASSUME FirstReport, [EvaluationNext]_evaluationVars
               PROVE  FirstReport'
    OBVIOUS
  <2>1. CASE StartEvaluation
    BY <2>1 DEF StartEvaluation, NewEnvironment, fixtures, FirstReport, TranscriptIsOne
  <2>2. CASE RunRunner
    <3>1. /\ stage = "measure" /\ place \in Nat /\ place # 0 /\ UNCHANGED <<answers, transcript>>
          /\ results' = results \o Report(Runners[place])
          /\ \/ stage' = "measure" /\ place' = place + 1
             \/ stage' = "test"
      BY <2>2 DEF RunRunner, fixtures, FirstReport
    <3>2. TranscriptIsOne'
      BY <3>1 DEF FirstReport, TranscriptIsOne
    <3>3. ASSUME stage' = "measure", place' = 2
          PROVE  results' = SttResults'
      <4>1. place = 1
        BY <3>1, <3>3
      <4>2. results = <<>> /\ Runners[place] = "stt"
        BY <3>1, <4>1 DEF FirstReport, Runners
      <4>3. Report("stt") = SttResults
        BY DEF Report
      <4>4. <<>> \o SttResults = SttResults
        <5>1. PICK a, b : SttResults = <<a, b>>
          BY DEF SttResults
        <5>2. <<a, b>> \in Seq({a, b})
          OBVIOUS
        <5> QED  BY <5>1, <5>2
      <4>5. SttResults' = SttResults
        BY <3>1 DEF SttResults
      <4> QED  BY <3>1, <4>2, <4>3, <4>4, <4>5
    <3> QED  BY <3>1, <3>2, <3>3 DEF FirstReport
  <2>3. CASE RunReliabilityTest \/ FinishRun \/ WriteMarkdown \/ WriteJson \/ Abort
    <3>1. stage' # "measure" /\ UNCHANGED transcript
      BY <2>3 DEF RunReliabilityTest, FinishRun, WriteMarkdown, WriteJson, Abort, fixtures,
                  Written
    <3> QED  BY <3>1 DEF FirstReport, TranscriptIsOne
  <2>4. CASE LoadPreviousRun \/ UNCHANGED evaluationVars
    <3>1. UNCHANGED <<stage, place, results, transcript>>
      BY <2>4 DEF LoadPreviousRun, evaluationVars, fixtures
    <3> QED  BY <3>1 DEF FirstReport, TranscriptIsOne, SttResults
  <2> QED  BY <2>1, <2>2, <2>3, <2>4 DEF EvaluationNext
<1> QED  BY <1>1, <1>2, PTL DEF EvaluationSpec

\* The word error rate that the dynamic program computes is the least number of
\* words inserted, deleted and replaced that makes the hypothesis of the
\* reference, for any words and transcripts of any length.
THEOREM ErrorRateIsLeast == EvaluationSpec => []DistanceIsLeast
<1>1. FirstReport => DistanceIsLeast
  <2> SUFFICES ASSUME FirstReport, stage = "measure", place = 2, transcript.reference # <<>>
               PROVE  LET edits == results[1].value[1]
                          within == Reached(transcript.reference)
                      IN /\ transcript.hypothesis \in within[edits]
                         /\ edits > 0 => transcript.hypothesis \notin within[edits - 1]
    BY DEF DistanceIsLeast
  <2> DEFINE s == transcript.reference
             t == transcript.hypothesis
             d == Edits(s, Len(s), t)
  <2>1. s \in Transcripts /\ t \in Transcripts
    BY DEF FirstReport, TranscriptIsOne
  <2>2. results[1].value[1] = d
    <3>1. results = SttResults
      BY DEF FirstReport
    <3>2. ErrorRate(s, t)[1] = d
      BY DEF ErrorRate, Edits
    <3>3. SttResults[1].value = ErrorRate(s, t)
      BY DEF SttResults, Result
    <3> QED  BY <3>1, <3>2, <3>3
  <2>3. ASSUME NEW u \in Transcripts
        PROVE  u \in Texts /\ Len(u) <= MaxWords /\ Len(u) \in Nat
    <3>1. PICK n \in 0..MaxWords : u \in [1..n -> Words]
      BY DEF Transcripts
    <3>2. n \in Nat /\ n <= MaxWords
      BY EvaluationAssumption
    <3> QED  BY <3>1, <3>2, TextOf
  <2>4. d \in Nat /\ d <= Len(s) + Len(t)
    <3>1. s \in Texts /\ t \in Texts /\ Len(s) \in 0..Len(s)
      BY <2>1, <2>3
    <3> QED  BY <3>1, EditsAre, EditsAreFew
  <2>5. d \in 0..(2 * MaxWords)
    <3>1. /\ Len(s) \in Nat /\ Len(s) <= MaxWords
          /\ Len(t) \in Nat /\ Len(t) <= MaxWords
      BY <2>1, <2>3
    <3> HIDE DEF s, t, d
    <3> QED  BY <2>4, <3>1, EvaluationAssumption
  <2> HIDE DEF s, t
  <2>6. t \in Reached(s)[d]
    BY <2>1, <2>4, <2>5, ReachedIs
  <2>7. ASSUME d > 0
        PROVE  t \notin Reached(s)[d - 1]
    <3>1. d - 1 \in 0..(2 * MaxWords) /\ ~ (d <= d - 1)
      BY <2>4, <2>5, <2>7, EvaluationAssumption
    <3>2. Reached(s)[d - 1] = {u \in Transcripts : Edits(s, Len(s), u) <= d - 1}
      BY <2>1, <3>1, ReachedIs
    <3> QED  BY <3>1, <3>2
  <2> QED  BY <2>2, <2>6, <2>7 DEF s, t
<1> QED  BY <1>1, FirstReportInvariant, PTL
=============================================================================
