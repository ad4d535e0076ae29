-------------------------- MODULE AvatarController --------------------------
(***************************************************************************)
(* AvatarController: the signals that drive the character, the animations  *)
(* it starts and stops, and the frames it renders.  The controller is      *)
(* synchronous, so an action is one call; Pass is the clock.  A call that  *)
(* is refused changes nothing and is left out.                             *)
(*                                                                         *)
(* Left out: the event log, eyes, clock face, expressions and drawing.     *)
(***************************************************************************)
EXTENDS AvatarParts

CONSTANT MaxQueue   \* bounds the calls: no signal makes the queue longer

ASSUME ControllerAssumption == MaxQueue \in Nat

VARIABLES
  running,   \* _running
  visible,   \* the window is visible
  state,     \* of the state machine
  pose,      \* the animation mode and its age
  gestures,  \* what runs, its age and what waits
  speech,    \* the timing that is played back
  mouth,     \* the mouth has the shape of a viseme, not of the expression
  walking,   \* the legs walk
  movement,  \* the position and where it moves to
  asked      \* history: the state in which walk_to asked for the movement under way

body == <<pose, gestures, speech, mouth, walking, movement, asked>>
avatarVars == <<running, visible, state, body>>

States == {"idle", "listening", "thinking", "working", "speaking", "happy",
           "concerned", "warning", "success", "error", "sleeping", "hidden",
           "walking", "explaining", "interrupted"}

Signals == {"idle", "listening", "thinking", "working", "speaking", "success",
            "error", "concerned", "warning", "explaining", "walking",
            "interrupted", "hide"}

\* SIGNAL_MAP: a signal names its state.
Target(s) == IF s = "hide" THEN "hidden" ELSE s

\* TRANSITIONS
Transitions ==
  [idle |-> States \ {"idle"},
   listening |-> {"thinking", "working", "speaking", "happy", "success", "error",
                  "idle", "sleeping", "hidden"},
   thinking |-> {"working", "speaking", "concerned", "error", "success", "idle",
                 "hidden"},
   working |-> {"speaking", "success", "error", "listening", "idle", "hidden",
                "warning"},
   speaking |-> {"idle", "listening", "success", "error", "happy", "hidden",
                 "warning", "interrupted"},
   happy |-> {"idle", "speaking", "success", "error", "hidden"},
   concerned |-> {"error", "warning", "idle", "speaking", "hidden"},
   warning |-> {"error", "concerned", "idle", "hidden"},
   success |-> {"idle", "speaking", "hidden"},
   error |-> {"idle", "concerned", "hidden"},
   sleeping |-> {"idle", "hidden"},
   hidden |-> {"idle"},
   walking |-> {"idle", "listening", "thinking", "speaking", "success", "error",
                "warning", "hidden", "sleeping", "explaining", "interrupted"},
   explaining |-> {"idle", "listening", "thinking", "working", "speaking",
                   "success", "warning", "error", "hidden", "walking",
                   "interrupted"},
   interrupted |-> {"idle", "listening", "thinking", "working", "speaking",
                    "concerned", "hidden"}]

\* _animation_mode_for
ModeFor(s) ==
  IF s \in {"listening", "thinking", "working", "success"} THEN s ELSE "idle"

Modes == {"idle", "listening", "thinking", "working", "success"}

AvatarTypeOK ==
  /\ {running, visible, mouth, walking} \subseteq BOOLEAN
  /\ state \in States \ {"happy", "sleeping"}
  /\ pose \in [mode : Modes, age : 0..SuccessTicks]
  /\ gestures \in [active : Kinds \cup {None}, age : Nat, queue : Seq(Kinds)]
  /\ gestures.active \in Kinds => gestures.age <= Duration[gestures.active]
  /\ speech \in [on : BOOLEAN, age : Nat, length : Speeches \cup {0}]
  /\ speech.age <= speech.length
  /\ movement.target \in {<<p>> : p \in Points} \cup {<<>>}
  /\ asked \in States \cup {None}

AvatarInit ==
  /\ running = FALSE
  /\ visible \in BOOLEAN
  /\ state = "idle"
  /\ pose = Pose("idle")
  /\ gestures = NoGesture
  /\ speech = Silence
  /\ mouth = FALSE
  /\ walking = FALSE
  /\ movement = StandingAt(0)
  /\ asked = None

-----------------------------------------------------------------------------
(* What a call is made of.                                                 *)

\* Mutant: the end of a speech leaves the mouth as it is.
TickKeepingMouth(l, talking) ==
  /\ speech' = Spoken(l)
  /\ mouth' = (talking \/ speech'.on)

\* _tick_lipsync: talking is the shape of the mouth before.  The end of a
\* speech gives the mouth back to the expression.
TickLipsync(l, talking) ==
  /\ speech' = Spoken(l)
  /\ mouth' = IF speech'.on THEN TRUE ELSE talking /\ ~ l.on

\* A movement that is over was asked for in no state.
Recall == asked' = IF movement'.target = <<>> THEN None ELSE asked

\* update(), of the controllers p, g, l and m.
Update(p, g, l, m, talking) ==
  /\ pose' = Posed(p)
  /\ gestures' = Advance(g)
  /\ movement' = Moved(m)
  /\ Recall
  /\ TickLipsync(l, talking)

\* The walk a signal starts, keeps or stops.
Walks(s) ==
  \/ s = "walking"
  \/ walking /\ state # "walking" /\ s # "interrupted"

\* The gesture of each signal that starts one.
GestureOf == [explaining |-> "explain", success |-> "celebrate", warning |-> "warning"]

\* The gesture a signal starts; one that starts none stops the thinking pose
\* of the state it leaves.
Gestured(s) ==
  IF s \in DOMAIN GestureOf THEN StartGesture(gestures, GestureOf[s])
  ELSE IF s = "thinking" /\ gestures.active = None
    THEN StartGesture(gestures, "thinking_pose")
  ELSE IF state = "thinking" THEN CancelGesture(gestures, "thinking_pose")
  ELSE gestures

Accepts(s) == Target(s) \in Transitions[state]

\* Mutant: the interrupt leaves the movement under way.
HandleSignalStillMoving(s, l) ==
  /\ state' = Target(s)
  /\ visible' = (visible /\ s # "hide")
  /\ walking' = Walks(s)
  /\ LET p == SetMode(pose, ModeFor(state'))
     IN IF s = "interrupted"
        THEN Update(p, CancelAll(gestures), Silence, movement, FALSE)
        ELSE Update(p, Gestured(s), l, movement, FALSE)

\* handle(), for a signal that is accepted, with l the lip-sync of its last
\* frame.  INTERRUPTED cancels what the signal itself started.
HandleSignal(s, l) ==
  /\ state' = Target(s)
  /\ visible' = (visible /\ s # "hide")
  /\ walking' = Walks(s)
  /\ LET p == SetMode(pose, ModeFor(state'))
     IN IF s = "interrupted"
        THEN Update(p, CancelAll(gestures), Silence, Halt(movement), FALSE)
        ELSE Update(p, Gestured(s), l, movement, FALSE)

-----------------------------------------------------------------------------
(* The calls.                                                              *)

Start ==
  /\ ~ running
  /\ running' = TRUE
  /\ visible' = TRUE
  /\ state' = "idle"
  /\ Update(Pose("idle"), gestures, speech, movement, FALSE)
  /\ UNCHANGED walking

Stop ==
  /\ running
  /\ running' = FALSE
  /\ visible' = FALSE
  /\ speech' = Silence
  /\ gestures' = CancelAll(gestures)
  /\ walking' = FALSE
  /\ movement' = Halt(movement)
  /\ Recall
  /\ UNCHANGED <<state, pose, mouth>>

\* handle and interrupt
Signal(s) ==
  /\ running
  /\ Accepts(s)
  /\ HandleSignal(s, speech)
  /\ Len(gestures'.queue) <= MaxQueue
  /\ UNCHANGED running

\* VOICE_EVENT_SIGNAL_MAP: the signal of an event of the voice session.
SignalOf ==
  [SESSION_STARTED |-> "idle", WAKE_WORD_DETECTED |-> "listening",
   LISTENING_STARTED |-> "listening", SPEECH_STARTED |-> "listening",
   TRANSCRIPTION_STARTED |-> "thinking", AI_STARTED |-> "thinking",
   TURN_COMPLETED |-> "success", TURN_ERROR |-> "error",
   SPEAKING_STARTED |-> "speaking", SPEAKING_INTERRUPTED |-> "interrupted",
   SPEAKING_STOPPED |-> "idle", SESSION_STOPPED |-> "idle",
   SESSION_IDLE_TIMEOUT |-> "idle", SESSION_CANCELLED |-> "hide",
   SESSION_ERROR |-> "error"]

\* apply and replay of VoiceAvatarAdapter
Apply(event) == Signal(SignalOf[event])

\* speak: it signals SPEAKING first when the character is in another state.
Speak(length) ==
  /\ running
  /\ \/ /\ state = "speaking"
        /\ Update(pose, gestures, StartSpeech(length), movement, mouth)
        /\ UNCHANGED <<visible, state, walking>>
     \/ /\ state # "speaking"
        /\ Accepts("speaking")
        /\ HandleSignal("speaking", StartSpeech(length))
  /\ UNCHANGED running

\* walk_to, in any state; a point it moves to already is refused.
WalkTo(p) ==
  /\ running
  /\ movement.target # <<p>>
  /\ movement' = MoveTo(movement, p)
  /\ asked' = state
  /\ UNCHANGED <<running, visible, state, pose, gestures, speech, mouth, walking>>

\* update(), which a host may also call on a stopped character.
Frame ==
  /\ Update(pose, gestures, speech, movement, mouth)
  /\ UNCHANGED <<running, visible, state, walking>>

\* The clock
Pass ==
  /\ pose' = IF pose.mode = "success" THEN Older(pose, SuccessTicks) ELSE pose
  /\ gestures' = IF gestures.active \in Kinds \ Loop
                 THEN Older(gestures, Duration[gestures.active]) ELSE gestures
  /\ speech' = IF speech.on THEN Older(speech, speech.length) ELSE speech
  /\ movement' = IF movement.target = <<>> THEN movement
                 ELSE Older(movement, Distance(movement))
  /\ UNCHANGED <<running, visible, state, mouth, walking, asked>>

AvatarNext ==
  \/ Start
  \/ Stop
  \/ \E s \in Signals : Signal(s)
  \/ \E e \in DOMAIN SignalOf : Apply(e)
  \/ \E n \in Speeches : Speak(n)
  \/ \E p \in Points : WalkTo(p)
  \/ Frame
  \/ Pass

AvatarSpec == AvatarInit /\ [][AvatarNext]_avatarVars
-----------------------------------------------------------------------------
(* Properties.                                                             *)

\* The thinking pose loops until it is stopped, and only handle() stops it, by
\* the pair of states it leaves and enters: it neither runs nor waits in any
\* state but THINKING.
PoseOnlyWhileThinking ==
  ("thinking_pose" \in {gestures.active} \cup Elems(gestures.queue))
    => state = "thinking" /\ running

\* Nothing of what the character did goes on once it is interrupted or stopped:
\* the interrupt "cancels lipsync + gestures + walking + movement".  The one
\* thing that moves an interrupted character is a walk_to of a caller that came
\* after the interrupt: walk_to looks at no state.
EndedIsStill ==
  ~ running \/ state = "interrupted" =>
    /\ speech = Silence
    /\ gestures = NoGesture
    /\ ~ walking
    /\ movement.target = <<>> \/ (running /\ asked = "interrupted")

\* The mouth of a running character has the shape of a viseme only while it
\* speaks: whatever ends or replaces a speech gives it back to the expression.
MouthFollowsSpeech == running /\ mouth => speech.on
=============================================================================
