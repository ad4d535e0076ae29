----------------------------- MODULE AvatarParts -----------------------------
(***************************************************************************)
(* The sub-controllers of the avatar: g is a GestureController, l a        *)
(* LipSyncController, m an AvatarMovementController and p an               *)
(* AnimationController.  An operator is a method, its value the controller *)
(* after the call.  They run on injected times: an age is the time since   *)
(* the method that started the animation, in ticks, and grows no further   *)
(* than the length it is compared with.  Poses, visemes and leg angles are *)
(* drawing and left out, as are the events.                                *)
(***************************************************************************)
EXTENDS Integers, Sequences, SequenceFilter

CONSTANTS
  Duration,      \* GestureSpec.duration in ticks, for each kind
  SuccessTicks,  \* success_duration_seconds
  Speeches,      \* the lengths a timing may have; 0 is allowed
  Points         \* positions on the path of the character

None == "none"
Kinds == {"explain", "celebrate", "warning", "thinking_pose"}
Loop == {"thinking_pose"}

ASSUME PartsAssumption ==
  /\ Duration \in [Kinds -> Nat \ {0}]
  /\ SuccessTicks \in Nat \ {0}
  /\ Speeches \subseteq Nat
  /\ Points \subseteq Int

\* Mutant: celebrating does not preempt the thinking pose.
LowPriority == [explain |-> 60, celebrate |-> 40, warning |-> 100, thinking_pose |-> 40]

\* GESTURE_SPECS: the priority of the kinds the controller starts.
Priority == [explain |-> 60, celebrate |-> 90, warning |-> 100, thinking_pose |-> 40]

-----------------------------------------------------------------------------
(* GestureController: the kind that runs and those that wait.              *)

NoGesture == [active |-> None, age |-> 0, queue |-> <<>>]

\* start()
StartGesture(g, k) ==
  IF g.active = None \/ Priority[k] > Priority[g.active]
  THEN [active |-> k, age |-> 0, queue |-> g.queue]
  ELSE [g EXCEPT !.queue = Append(@, k)]

\* cancel(): the next one of the queue does not start here.
CancelGesture(g, k) ==
  [active |-> IF g.active = k THEN None ELSE g.active,
   age |-> IF g.active = k THEN 0 ELSE g.age,
   queue |-> Keep(g.queue, Kinds \ {k})]

CancelAll(g) == NoGesture

Expired(g) == g.active \in Kinds \ Loop /\ g.age >= Duration[g.active]

\* current(): an expired gesture gives way to the first of the queue.
Advance(g) ==
  IF ~ Expired(g) THEN g
  ELSE IF g.queue = <<>> THEN NoGesture
  ELSE [active |-> Head(g.queue), age |-> 0, queue |-> Tail(g.queue)]

-----------------------------------------------------------------------------
(* LipSyncController                                                       *)

Silence == [on |-> FALSE, age |-> 0, length |-> 0]
StartSpeech(length) == [on |-> TRUE, age |-> 0, length |-> length]

\* current(): a timing of length zero never ends.
Spoken(l) == IF l.on /\ l.length > 0 /\ l.age >= l.length THEN Silence ELSE l

-----------------------------------------------------------------------------
(* AvatarMovementController: target is <<>>, or holds the point it moves to. *)

StandingAt(p) == [position |-> p, from |-> p, target |-> <<>>, age |-> 0]

\* stop()
Halt(m) == StandingAt(m.position)

\* move_to(), for another point than the one it moves to.
MoveTo(m, p) == [m EXCEPT !.from = m.position, !.target = <<p>>, !.age = 0]

Distance(m) == LET d == m.target[1] - m.from IN IF d < 0 THEN -d ELSE d

\* update(): a unit of the path per tick.
Moved(m) ==
  IF m.target = <<>> THEN m
  ELSE IF m.age >= Distance(m) THEN StandingAt(m.target[1])
  ELSE [m EXCEPT !.position =
          IF m.target[1] > m.from THEN m.from + m.age ELSE m.from - m.age]

-----------------------------------------------------------------------------
(* AnimationController                                                     *)

Pose(mode) == [mode |-> mode, age |-> 0]
SetMode(p, mode) == IF p.mode = mode THEN p ELSE Pose(mode)

\* pose(): the one animation that ends by itself is that of a success.
Posed(p) == IF p.mode = "success" /\ p.age >= SuccessTicks THEN Pose("idle") ELSE p

-----------------------------------------------------------------------------
(* A tick passes.                                                          *)

Older(c, length) == IF c.age < length THEN [c EXCEPT !.age = @ + 1] ELSE c
=============================================================================
