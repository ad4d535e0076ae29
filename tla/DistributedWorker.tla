-------------------------- MODULE DistributedWorker --------------------------
(***************************************************************************)
(* A worker and its master over HTTP: WorkerService with its heartbeat     *)
(* loop, HttpMasterTransport, the master's registry behind its endpoints,  *)
(* and the dispatch to the endpoint a worker registered.  Either process   *)
(* restarts at any time; requests are late, fail before or after they are  *)
(* served, and are served after their sender gave up.                      *)
(*                                                                         *)
(* Time passes in ticks, and the clocks of the two machines agree.  An age *)
(* past the time limit is kept as one tick past it.                        *)
(***************************************************************************)
EXTENDS Integers, Sequences

CONSTANTS
  Ids,        \* the ids a worker may be given
  Endpoints,  \* the addresses it may listen on
  Interval,   \* heartbeat_interval_seconds
  Timeout,    \* heartbeat_timeout_seconds
  Latency,    \* how long a request, or an answer, takes at most in good times
  Patience,   \* how long the HTTP client waits for either
  MaxStarts   \* a bound on the starts of the worker

ASSUME WorkerAssumption ==
  /\ Interval \in Nat \ {0} /\ Timeout \in Nat /\ Latency \in Nat
  /\ Patience \in Nat /\ MaxStarts \in Nat
  /\ Interval + 2 * Latency <= Timeout

VARIABLES
  sameToken,  \* both processes were given the same auth_token
  registry,   \* of each id <<[at, status, age]>>, or <<>>
  worker,     \* [stage, id, at, age]; age is that of its WorkerInfo
  timer,      \* ticks since the worker began to sleep, or a message left
  posted,     \* <<the worker's request>> on its way
  reply,      \* <<the status code>> on its way back
  stray,      \* <<a request whose sender has given up>>
  exit,       \* the exit_event of the loop
  starts,     \* of the worker
  dispatched, \* what came of the last dispatch
  mine,       \* this master accepted the registration of this process
  trusted     \* it has applied a heartbeat, and nothing went wrong since

network == <<posted, reply, stray>>
workerVars ==
  <<sameToken, registry, worker, timer, network, exit, starts, dispatched, mine, trusted>>

NextAge(age) == IF age > Timeout THEN age ELSE age + 1

WorkerInit ==
  /\ sameToken \in BOOLEAN
  /\ registry = [i \in Ids |-> <<>>]
  /\ worker \in [stage : {"down"}, id : Ids, at : Endpoints, age : {0}]
  /\ timer = 0 /\ posted = <<>> /\ reply = <<>> /\ stray = <<>> /\ exit = FALSE
  /\ starts = 0 /\ dispatched = "none" /\ mine = FALSE /\ trusted = FALSE

-----------------------------------------------------------------------------
(* The worker.                                                             *)

Enters(stage) == worker' = [worker EXCEPT !.stage = stage]

\* A new process builds its WorkerInfo, whose last_heartbeat is now.
StartWorker ==
  /\ worker.stage = "down" /\ starts < MaxStarts
  /\ worker' \in [stage : {"idle"}, id : Ids, at : Endpoints, age : {0}]
  /\ starts' = starts + 1 /\ exit' = FALSE
  /\ UNCHANGED <<sameToken, registry, timer, network, dispatched, mine, trusted>>

Post(kind, stage) ==
  /\ Enters(stage)
  /\ posted' = <<[kind |-> kind, id |-> worker.id, at |-> worker.at, age |-> worker.age]>>
  /\ timer' = 0
  /\ UNCHANGED <<sameToken, registry, reply, stray, exit, starts, dispatched, mine, trusted>>

RegisterWithMaster == worker.stage = "idle" /\ Post("register", "asking")

SendHeartbeat == worker.stage = "due" /\ ~ exit /\ Post("heartbeat", "sending")

StartLoop ==
  /\ worker.stage = "idle" /\ Enters("due")
  /\ UNCHANGED <<sameToken, registry, timer, network, exit, starts, dispatched, mine, trusted>>

RequestExit ==
  /\ worker.stage # "down" /\ exit' = TRUE
  /\ UNCHANGED <<sameToken, registry, worker, timer, network, starts, dispatched, mine, trusted>>

LoopExits ==
  /\ worker.stage = "due" /\ exit
  /\ Enters("idle") /\ trusted' = FALSE
  /\ UNCHANGED <<sameToken, registry, timer, network, exit, starts, dispatched, mine>>

\* Whether the answer was a success is returned, and the loop ignores it.
HearsAnswer ==
  /\ reply # <<>>
  /\ Enters(IF worker.stage = "asking" THEN "idle" ELSE "sleeping")
  /\ reply' = <<>> /\ timer' = 0
  /\ UNCHANGED <<sameToken, registry, posted, stray, exit, starts, dispatched, mine, trusted>>

WakesUp ==
  /\ worker.stage = "sleeping" /\ timer = Interval
  /\ Enters("due")
  /\ UNCHANGED <<sameToken, registry, timer, network, exit, starts, dispatched, mine, trusted>>

\* What becomes of a request nobody waits for any more.
Abandoned ==
  /\ posted' = <<>> /\ reply' = <<>>
  /\ stray' \in {stray, IF posted = <<>> THEN stray ELSE posted}

\* Any HTTPError is a TransportError, which nothing in the loop catches.
PostFails ==
  /\ worker.stage \in {"asking", "sending"}
  /\ Enters("idle") /\ Abandoned /\ trusted' = FALSE
  /\ UNCHANGED <<sameToken, registry, timer, exit, starts, dispatched, mine>>

WorkerCrashes ==
  /\ worker.stage # "down"
  /\ Enters("down") /\ Abandoned /\ mine' = FALSE /\ trusted' = FALSE
  /\ UNCHANGED <<sameToken, registry, timer, exit, starts, dispatched>>

-----------------------------------------------------------------------------
(* The master.                                                             *)

Known(id) == registry[id] # <<>>

StatusCode(request) ==
  IF ~ sameToken THEN 401
  ELSE IF request.kind = "register" THEN IF Known(request.id) THEN 409 ELSE 201
  ELSE IF Known(request.id) THEN 200 ELSE 404

\* register keeps the info as it came, with the last_heartbeat it was built
\* with; heartbeat leaves the endpoint alone.
EntryOf(request) == [at |-> request.at, status |-> "available", age |-> request.age]
Beaten(entry) == [at |-> entry.at, status |-> "available", age |-> 0]

Serve(request) ==
  registry' =
    CASE StatusCode(request) = 201 ->
           [registry EXCEPT ![request.id] = <<EntryOf(request)>>]
      [] StatusCode(request) = 200 ->
           [registry EXCEPT ![request.id] = <<Beaten(registry[request.id][1])>>]
      [] OTHER -> registry

ServeRequest ==
  /\ posted # <<>>
  /\ Serve(posted[1])
  /\ reply' = <<StatusCode(posted[1])>> /\ posted' = <<>> /\ timer' = 0
  /\ mine' = (mine \/ StatusCode(posted[1]) = 201)
  /\ trusted' = (trusted \/ (mine /\ StatusCode(posted[1]) = 200))
  /\ UNCHANGED <<sameToken, worker, stray, exit, starts, dispatched>>

ServeStray ==
  /\ stray # <<>>
  /\ Serve(stray[1]) /\ stray' = <<>>
  /\ UNCHANGED <<sameToken, worker, timer, posted, reply, exit, starts, dispatched, mine, trusted>>

MasterRestarts ==
  /\ registry' = [i \in Ids |-> <<>>] /\ mine' = FALSE /\ trusted' = FALSE
  /\ UNCHANGED <<sameToken, worker, timer, network, exit, starts, dispatched>>

\* Mutant: a dispatch that timed out is blamed on the worker.
BlamesTheWorker(id) == Known(id)

IsStale(id) == Known(id) /\ registry[id][1].age > Timeout

\* check_in_flight finds an assignment of the worker past its time limit.
MarkStale(id) ==
  /\ IsStale(id)
  /\ registry' = [registry EXCEPT ![id] = <<[registry[id][1] EXCEPT !.status = "stale"]>>]
  /\ UNCHANGED <<sameToken, worker, timer, network, exit, starts, dispatched, mine, trusted>>

\* handle_task: whether the executor declares the capabilities and approves
\* the type, what the worker's own policy says, and how the executor ends.
Jobs ==
  [capable : BOOLEAN, approved : BOOLEAN, policy : {"none", "allow", "confirm", "deny"},
   ends : {"ok", "fail", "raises"}]

HandleTask(task) ==
  IF ~ task.capable \/ ~ task.approved THEN "fail"
  ELSE IF task.policy \in {"confirm", "deny"} THEN "fail"
  ELSE IF task.ends = "raises" THEN "transport error"
  ELSE task.ends

\* The scheduler looks at the status, and at the age if the caller of
\* dispatch_next gave it a clock.
DispatchTask(id, task) ==
  /\ Known(id) /\ registry[id][1].status = "available"
  /\ dispatched' =
       IF worker.stage = "down" \/ worker.at # registry[id][1].at THEN "unreachable"
       ELSE IF ~ sameToken THEN "transport error"
       ELSE HandleTask(task)
  /\ UNCHANGED <<sameToken, registry, worker, timer, network, exit, starts, mine, trusted>>

-----------------------------------------------------------------------------
(* Time.  The loop does not linger before it sends, nor oversleep; a       *)
(* message that takes longer than Latency is no longer good times.         *)

Travelling == worker.stage \in {"asking", "sending"}

Aged(messages) == [i \in DOMAIN messages |-> [messages[i] EXCEPT !.age = NextAge(@)]]

Tick ==
  /\ worker.stage # "due"
  /\ worker.stage = "sleeping" => timer < Interval
  /\ Travelling => timer < Patience
  /\ timer' = IF Travelling \/ worker.stage = "sleeping" THEN timer + 1 ELSE timer
  /\ trusted' = (trusted /\ (Travelling => timer < Latency))
  /\ registry' = [i \in Ids |-> Aged(registry[i])]
  /\ worker' = [worker EXCEPT !.age = IF worker.stage = "down" THEN @ ELSE NextAge(@)]
  /\ posted' = Aged(posted) /\ stray' = Aged(stray)
  /\ UNCHANGED <<sameToken, reply, exit, starts, dispatched, mine>>

WorkerNext ==
  \/ StartWorker \/ RegisterWithMaster \/ StartLoop \/ SendHeartbeat
  \/ RequestExit \/ LoopExits \/ HearsAnswer \/ WakesUp \/ PostFails \/ WorkerCrashes
  \/ ServeRequest \/ ServeStray \/ MasterRestarts \/ Tick
  \/ \E id \in Ids : MarkStale(id) \/ \E task \in Jobs : DispatchTask(id, task)

WorkerSpec == WorkerInit /\ [][WorkerNext]_workerVars

-----------------------------------------------------------------------------
\* A worker whose registration this master accepted, whose last heartbeat it
\* applied and whose requests since were answered in good time is offered
\* work where it listens: its entry has its endpoint, is not older than the
\* time limit and was not marked stale, at any moment of the loop's period
\* and whatever other processes, of its id or another, left on the network.
LiveWorkerIsOffered ==
  trusted =>
    /\ Known(worker.id)
    /\ registry[worker.id][1].at = worker.at
    /\ registry[worker.id][1].status = "available"
    /\ registry[worker.id][1].age <= Timeout
=============================================================================
