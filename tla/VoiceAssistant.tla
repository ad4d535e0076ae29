--------------------------- MODULE VoiceAssistant ---------------------------
(***************************************************************************)
(* One session of VoiceAssistantService: the coroutine run(), and the      *)
(* calls of interrupt() and cancel() that other coroutines make while it   *)
(* awaits a provider.  `pc' is what run() awaits; an action of run() is    *)
(* the code from the return of that await to the next one.                 *)
(*                                                                         *)
(* Left out: audio, text and language, the event log, the privacy buffers, *)
(* and input_state, which nothing reads.  Time limits may expire whenever  *)
(* the code compares them with the clock.                                  *)
(***************************************************************************)
EXTENDS Integers, Sequences

CONSTANT MaxTurns     \* config.max_turns

ASSUME VoiceAssumption == MaxTurns \in Nat \ {0}

VARIABLES
  setup,      \* wake_required, and whether stopping a device may raise
  pc,         \* what run() awaits
  error,      \* the exception in flight in run()
  state,      \* session.state
  cancelled,  \* session.cancelled
  turnCount,  \* session.turn_count
  turns,      \* the outcome of each turn of the manager, in order
  heard,      \* the utterance being captured has frames
  seed,       \* _barge_in_seed holds a frame
  interrupt,  \* _interrupt_event is set
  asked,      \* interrupt() or cancel() was called in the present playback
  capture,    \* the microphone
  playing,    \* the output is speaking
  closed,     \* the output is closed
  stage       \* what _stop_hardware awaits, in run() and in cancel()

session == <<state, cancelled, turnCount>>
audio == <<heard, seed, interrupt, asked>>
devices == <<capture, playing, closed>>
vars == <<setup, pc, error, session, turns, audio, devices, stage>>

Callers == {"run", "cancel"}

\* The awaits of the wake loop, the capture loop, a turn and its playback.
Waking == {"wakeWait", "wakeRead", "wakeDetect"}
Hearing == {"hearWait", "hearRead", "hearFeed"}
Speaking == {"playing", "speakRead", "speakWait", "silencing"}
InTurn == {"responding", "synthesizing"} \cup Speaking
Over == {"returned", "raised"}
Places == {"idle", "starting", "transcribing", "detecting", "closing"}
            \cup Waking \cup Hearing \cup InTurn \cup Over

States == {"idle", "listening", "capturing", "transcribing", "thinking",
           "speaking", "stopped", "error"}

TypeOK ==
  /\ setup \in [wakeRequired : BOOLEAN, stopFails : BOOLEAN]
  /\ pc \in Places
  /\ error \in {"none", "capture", "other"}
  /\ state \in States
  /\ turnCount \in 0..MaxTurns
  /\ turns \in Seq({"open", "failed", "cancelled", "interrupted", "completed"})
  /\ capture \in {"new", "open", "stopped", "closed"}
  /\ {cancelled, heard, seed, interrupt, asked, playing, closed} \subseteq BOOLEAN
  /\ stage \in [Callers -> {"none", "output", "capture", "close", "speaker", "done"}]

Init ==
  /\ setup \in [wakeRequired : BOOLEAN, stopFails : BOOLEAN]
  /\ pc = "idle"
  /\ error = "none"
  /\ state = "idle"
  /\ turnCount = 0
  /\ turns = <<>>
  /\ capture = "new"
  /\ cancelled = FALSE
  /\ heard = FALSE /\ seed = FALSE /\ interrupt = FALSE /\ asked = FALSE
  /\ playing = FALSE /\ closed = FALSE
  /\ stage = [c \in Callers |-> "none"]

-----------------------------------------------------------------------------
(* Building blocks.                                                        *)

\* Mutant: a cancelled session can be marked again.
MarkAnyway(s) == state' = s

\* VoiceSession.mark_state for a state other than STOPPED and ERROR.
Mark(s) == state' = IF cancelled THEN state ELSE s

\* _stop_hardware begins; p is is_speaking().
StopHardware(c, p) ==
  stage' = [stage EXCEPT ![c] = IF p THEN "output" ELSE "capture"]

\* The finally clause of run(), reached with exception e and session state s.
Leave(e, s, p) ==
  /\ pc' = "closing"
  /\ error' = e
  /\ state' = IF s = "error" THEN s ELSE "stopped"
  /\ StopHardware("run", p)

\* The head of the loop of run(): the next utterance is captured.
NextTurn ==
  \/ (cancelled \/ turnCount >= MaxTurns) /\ Leave("none", state, playing)
  \/ /\ ~ cancelled
     /\ turnCount < MaxTurns
     /\ Mark("listening")
     /\ pc' = "hearWait"
     /\ UNCHANGED <<error, stage>>

Await(place) == pc' = place /\ UNCHANGED <<error, state, stage>>

\* Mutant: a turn that failed is not completed.
LeaveOpen(outcome) == UNCHANGED turns

\* complete_turn
EndTurn(outcome) == turns' = [turns EXCEPT ![Len(turns)] = outcome]

\* A provider raises what run() does not catch, or the read fails.
Raise == Leave("other", state, playing)
ReadFails == Leave("capture", "error", playing)

-----------------------------------------------------------------------------
(* run(), up to the first turn.                                            *)

Run ==
  /\ pc = "idle"
  /\ state = "idle"
  /\ state' = "listening"
  /\ pc' = "starting"
  /\ UNCHANGED <<setup, error, cancelled, turnCount, turns, audio, devices, stage>>

\* The wake word is waited for, or the first utterance.
Started ==
  /\ capture' = "open"
  /\ \/ setup.wakeRequired /\ Await("wakeWait")
     \/ ~ setup.wakeRequired /\ NextTurn

\* Mutant: a failed start does not clean up.
StartedOrReturned ==
  /\ pc = "starting"
  /\ \/ Started
     \/ /\ pc' = "returned"
        /\ state' = "error"
        /\ UNCHANGED <<error, stage, capture>>
  /\ UNCHANGED <<setup, cancelled, turnCount, turns, audio, playing, closed>>

\* capture.start returns.  What it raises other than a CaptureError leaves
\* run() at once.
CaptureStarts ==
  /\ pc = "starting"
  /\ \/ Started
     \/ ReadFails /\ UNCHANGED capture
     \/ pc' = "raised" /\ error' = "other" /\ UNCHANGED <<state, stage, capture>>
  /\ UNCHANGED <<setup, cancelled, turnCount, turns, audio, playing, closed>>

\* The loop of _wait_for_wake.
WakeHead ==
  /\ pc = "wakeWait"
  /\ \/ cancelled /\ Leave("none", state, playing)
     \/ ~ cancelled /\ Await("wakeRead")
     \/ Raise
  /\ UNCHANGED <<setup, cancelled, turnCount, turns, audio, devices>>

WakeFrame ==
  /\ pc = "wakeRead"
  /\ Await("wakeDetect") \/ Await("wakeWait") \/ ReadFails
  /\ UNCHANGED <<setup, cancelled, turnCount, turns, audio, devices>>

WakeResult ==
  /\ pc = "wakeDetect"
  /\ NextTurn \/ Await("wakeWait") \/ Raise
  /\ UNCHANGED <<setup, cancelled, turnCount, turns, audio, devices>>

WakeTimesOut ==
  /\ pc \in {"wakeRead", "wakeDetect"}
  /\ Leave("none", state, playing)
  /\ UNCHANGED <<setup, cancelled, turnCount, turns, audio, devices>>

-----------------------------------------------------------------------------
(* _capture_utterance                                                      *)

\* The loop of _capture_utterance is left: what was heard is processed, also
\* after a cancel.
HearingEnds(h) ==
  /\ \/ h /\ Mark("transcribing") /\ pc' = "transcribing" /\ UNCHANGED <<error, stage>>
     \/ ~ h /\ Leave("none", state, playing)
  /\ heard' = FALSE

\* The VAD was reset and given the seed, or slept.
HearHead ==
  /\ pc = "hearWait"
  /\ \/ cancelled /\ HearingEnds(heard \/ seed) /\ seed' = FALSE
     \/ ~ cancelled /\ Await("hearRead") /\ heard' = (heard \/ seed) /\ seed' = FALSE
     \/ Raise /\ UNCHANGED <<heard, seed>>
  /\ UNCHANGED <<setup, cancelled, turnCount, turns, interrupt, asked, devices>>

HearFrame ==
  /\ pc = "hearRead"
  /\ Await("hearFeed") \/ Await("hearWait") \/ ReadFails
  /\ UNCHANGED <<setup, cancelled, turnCount, turns, audio, devices>>

\* The VAD judges a frame: speech goes on, starts, ends, or is none.
HearResult ==
  /\ pc = "hearFeed"
  /\ \/ /\ heard' \in {heard, TRUE}
        /\ state' \in {state, IF cancelled THEN state ELSE "capturing"}
        /\ pc' = "hearWait"
        /\ UNCHANGED <<error, stage>>
     \/ HearingEnds(TRUE)
     \/ Raise /\ UNCHANGED heard
  /\ UNCHANGED <<setup, cancelled, turnCount, turns, seed, interrupt, asked, devices>>

HearTimesOut ==
  /\ pc \in {"hearRead", "hearFeed"}
  /\ HearingEnds(heard)
  /\ UNCHANGED <<setup, cancelled, turnCount, turns, seed, interrupt, asked, devices>>

-----------------------------------------------------------------------------
(* _process_utterance                                                      *)

Transcribed(ok) ==
  /\ pc = "transcribing"
  /\ \/ ok /\ Await("detecting")
     \/ ~ ok /\ NextTurn
  /\ UNCHANGED <<setup, cancelled, turnCount, turns, audio, devices>>

\* VoiceSession.begin_turn
CountTurn == turnCount' = IF cancelled THEN turnCount ELSE turnCount + 1

Detected(ok) ==
  /\ pc = "detecting"
  /\ \/ /\ ok
        /\ CountTurn
        /\ turns' = Append(turns, "open")
        /\ Mark("thinking")
        /\ pc' = "responding"
        /\ UNCHANGED <<error, stage>>
     \/ ~ ok /\ NextTurn /\ UNCHANGED <<turnCount, turns>>
  /\ UNCHANGED <<setup, cancelled, audio, devices>>

\* FALSE is a timeout, a denial, a failure or an empty response.
Responded(ok) ==
  /\ pc = "responding"
  /\ \/ ok /\ Await("synthesizing") /\ UNCHANGED turns
     \/ ~ ok /\ EndTurn("failed") /\ NextTurn
  /\ UNCHANGED <<setup, cancelled, turnCount, audio, devices>>

\* _speak begins: it forgets an interrupt asked for before.
Synthesized(ok) ==
  /\ pc = "synthesizing"
  /\ \/ /\ ok
        /\ Mark("speaking")
        /\ interrupt' = FALSE
        /\ asked' = FALSE
        /\ pc' = "playing"
        /\ UNCHANGED <<error, stage, turns>>
     \/ ~ ok /\ EndTurn("failed") /\ NextTurn /\ UNCHANGED <<interrupt, asked>>
  /\ UNCHANGED <<setup, cancelled, turnCount, heard, seed, devices>>

\* What _speak returns, i being its `interrupted'.
SpeechEnds(i) ==
  /\ EndTurn(IF i THEN "interrupted" ELSE IF cancelled THEN "cancelled" ELSE "completed")
  /\ NextTurn

\* The head of the loop of _speak: p is is_speaking(), i the event.
Listen(p, i) ==
  \/ p /\ ~ cancelled /\ ~ i /\ Await("speakRead") /\ UNCHANGED turns
  \/ p /\ (cancelled \/ i) /\ Await("silencing") /\ UNCHANGED turns
  \/ ~ p /\ SpeechEnds(i)

\* Mutant: the event is cleared when the playback has started.
PlayStartedThenCleared ==
  /\ pc = "playing"
  /\ playing' \in BOOLEAN
  /\ interrupt' = FALSE
  /\ Listen(playing', FALSE)
  /\ UNCHANGED <<setup, cancelled, turnCount, heard, seed, asked, capture, closed>>

\* output.play returns; what it plays may have ended already.
PlayStarted ==
  /\ pc = "playing"
  /\ playing' \in BOOLEAN
  /\ Listen(playing', interrupt)
  /\ UNCHANGED <<setup, cancelled, turnCount, audio, capture, closed>>

PlayFails ==
  /\ pc = "playing"
  /\ \/ EndTurn("failed") /\ NextTurn
     \/ Raise /\ UNCHANGED turns
  /\ UNCHANGED <<setup, cancelled, turnCount, audio, devices>>

\* A frame read while speaking interrupts, and begins the next utterance.
BargeIn ==
  /\ pc = "speakRead"
  /\ seed' = TRUE
  /\ interrupt' = TRUE
  /\ Await("speakWait")
  /\ UNCHANGED <<setup, cancelled, turnCount, turns, heard, asked, devices>>

NoBargeIn ==
  /\ pc = "speakRead"
  /\ Await("speakWait")
  /\ UNCHANGED <<setup, cancelled, turnCount, turns, audio, devices>>

\* The read fails: the finally clause of _speak stops what still plays.
BargeInFails ==
  /\ pc = "speakRead"
  /\ \/ /\ playing
        /\ pc' = "silencing"
        /\ error' = "capture"
        /\ state' = "error"
        /\ UNCHANGED stage
     \/ ~ playing /\ ReadFails
  /\ UNCHANGED <<setup, cancelled, turnCount, turns, audio, devices>>

SpeakHead ==
  /\ pc = "speakWait"
  /\ Listen(playing, interrupt)
  /\ UNCHANGED <<setup, cancelled, turnCount, audio, devices>>

\* max_speaking_seconds have passed.
SpeakTimesOut ==
  /\ pc = "speakWait"
  /\ playing /\ ~ cancelled /\ ~ interrupt
  /\ Await("silencing")
  /\ UNCHANGED <<setup, cancelled, turnCount, turns, audio, devices>>

\* output.stop returns or raises.
Silenced ==
  /\ pc = "silencing"
  /\ \/ /\ playing' = FALSE
        /\ \/ error = "none" /\ SpeechEnds(interrupt)
           \/ error # "none" /\ Leave(error, state, FALSE) /\ UNCHANGED turns
     \/ setup.stopFails /\ Raise /\ UNCHANGED <<turns, playing>>
  /\ UNCHANGED <<setup, cancelled, turnCount, audio, capture, closed>>

-----------------------------------------------------------------------------
(* _stop_hardware, as awaited by run() or by cancel().                     *)

Step(c, from, to) == stage[c] = from /\ stage' = [stage EXCEPT ![c] = to]

\* The caller goes on: run() returns, or raises what it has in flight.
Finished(c, raises) ==
  pc' = IF c = "cancel" THEN pc
        ELSE IF raises \/ error = "other" THEN "raised" ELSE "returned"

Cleanup(c) ==
  /\ \/ /\ Step(c, "output", "capture")
        /\ playing' = FALSE
        /\ UNCHANGED <<pc, capture, closed>>
     \/ /\ Step(c, "capture", "close")
        /\ capture' = (IF capture = "closed" THEN capture ELSE "stopped")
        /\ UNCHANGED <<pc, playing, closed>>
     \/ /\ Step(c, "close", "speaker")
        /\ capture' = "closed"
        /\ UNCHANGED <<pc, playing, closed>>
     \/ /\ Step(c, "speaker", "done")
        /\ closed' = TRUE
        /\ playing' = FALSE
        /\ Finished(c, FALSE)
        /\ UNCHANGED capture
     \/ /\ setup.stopFails
        /\ \/ Step(c, "output", "done") /\ Finished(c, TRUE)
           \/ Step(c, "capture", "speaker") /\ UNCHANGED pc
           \/ Step(c, "close", "speaker") /\ UNCHANGED pc
           \/ Step(c, "speaker", "done") /\ Finished(c, FALSE)
        /\ UNCHANGED devices
  /\ UNCHANGED <<setup, error, session, turns, audio>>

-----------------------------------------------------------------------------
(* The other coroutines and the output device.                             *)

Interrupt ==
  /\ interrupt' = TRUE
  /\ asked' = (asked \/ pc \in Speaking)
  /\ playing' \in {FALSE, playing /\ setup.stopFails}
  /\ UNCHANGED <<setup, pc, error, session, turns, heard, seed, capture, closed, stage>>

\* The first call of cancel(); another repeats what this one does.
Cancel ==
  /\ ~ cancelled
  /\ cancelled' = TRUE
  /\ state' = "stopped"
  /\ interrupt' = TRUE
  /\ asked' = (asked \/ pc \in Speaking)
  /\ StopHardware("cancel", playing)
  /\ UNCHANGED <<setup, pc, error, turnCount, turns, heard, seed, devices>>

PlaybackEnds ==
  /\ playing
  /\ playing' = FALSE
  /\ UNCHANGED <<setup, pc, error, session, turns, audio, capture, closed, stage>>

-----------------------------------------------------------------------------
LimitReached == WakeTimesOut \/ HearTimesOut \/ SpeakTimesOut

RunStep ==
  \/ CaptureStarts \/ WakeHead \/ WakeFrame \/ WakeResult
  \/ HearHead \/ HearFrame \/ HearResult
  \/ \E ok \in BOOLEAN : Transcribed(ok) \/ Detected(ok) \/ Responded(ok) \/ Synthesized(ok)
  \/ PlayStarted \/ PlayFails \/ BargeIn \/ NoBargeIn \/ BargeInFails \/ SpeakHead \/ Silenced
  \/ LimitReached
  \/ Cleanup("run")

Next ==
  \/ Run
  \/ RunStep
  \/ Cleanup("cancel")
  \/ Interrupt
  \/ Cancel
  \/ PlaybackEnds

Spec == Init /\ [][Next]_vars

-----------------------------------------------------------------------------
(* Properties.                                                             *)

\* At most one turn is open, the last, and only while run() works on it or
\* has been left by an exception: every branch of _process_utterance that
\* returns a result has completed its turn.
TurnsAreCompleted ==
  \A i \in 1..Len(turns) :
    turns[i] = "open" => /\ i = Len(turns)
                         /\ pc \in InTurn \/ error # "none"

\* When run() has returned, and cancel() too, the microphone and the output
\* are closed and nothing plays, unless a device cannot be stopped.
ReleasedAtEnd ==
  pc = "returned" /\ stage["cancel"] \in {"none", "done"} /\ ~ setup.stopFails
    => capture = "closed" /\ closed /\ ~ playing

\* A session that has stopped, or has failed, does not resume.
StoppedStays ==
  [][(state \in {"stopped", "error"}) => (state' \in {"stopped", "error"})]_vars

\* An interrupt asked for while run() speaks, the start of the playback
\* included, is not lost: the turn does not end as completed.
InterruptKept ==
  [][\A i \in 1..Len(turns) :
       turns[i] = "open" /\ turns'[i] = "completed" => ~ asked]_vars
=============================================================================
