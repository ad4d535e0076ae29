------------------------ MODULE VoiceAssistantProofs ------------------------
(***************************************************************************)
(* Proofs about VoiceAssistant: type correctness, that a stopped session   *)
(* stays stopped, that every turn is completed, that an interrupt is kept, *)
(* and that the devices are released, whatever the other coroutines do.    *)
(***************************************************************************)
EXTENDS VoiceAssistant, TLAPS

Stopped == {"stopped", "error"}
Outcomes == {"open", "failed", "cancelled", "interrupted", "completed"}
Stages == {"none", "output", "capture", "close", "speaker", "done"}

\* An utterance is captured for a turn that the limit still allows.
LimitInv ==
  pc \in Hearing \cup {"transcribing", "detecting"} =>
    cancelled \/ turnCount < MaxTurns

\* What run() leaves behind: after a cancel or an exception there is nothing
\* that marks another state.
StopInv ==
  /\ cancelled => state \in Stopped
  /\ state \in Stopped => \/ cancelled
                          \/ pc \in {"closing"} \cup Over
                          \/ pc = "silencing" /\ error # "none"

\* An exception in flight is on its way out of run(); only the last turn may
\* be open, and only while run() works on it or has an exception in flight.
TurnInv ==
  /\ error # "none" => pc \in {"silencing", "closing"} \cup Over
  /\ TurnsAreCompleted

\* While run() speaks the event of _speak keeps what was asked for.
AskInv == pc \in Speaking /\ asked => interrupt

\* _stop_hardware runs once in run(), in its order, at its end.
StageInv ==
  /\ pc \notin {"closing"} \cup Over => stage["run"] = "none"
  /\ pc = "closing" => stage["run"] \notin {"none", "done"}
  /\ pc = "returned" => stage["run"] = "done"
  /\ ~ setup.stopFails =>
       /\ stage["run"] \in {"speaker", "done"} => capture = "closed"
       /\ stage["run"] = "done" => closed /\ ~ playing

AssistantInv == TypeOK /\ LimitInv /\ StopInv /\ TurnInv /\ AskInv /\ StageInv

-----------------------------------------------------------------------------
(* The steps.                                                              *)

\* complete_turn changes the last turn and no other.
LEMMA EndedTurn ==
  ASSUME TypeOK, NEW o \in Outcomes, EndTurn(o)
  PROVE  /\ turns' \in Seq(Outcomes)
         /\ Len(turns') = Len(turns)
         /\ \A i \in 1..Len(turns) :
              turns'[i] = IF i = Len(turns) THEN o ELSE turns[i]
<1>1. turns \in Seq(Outcomes)
  BY DEF TypeOK, Outcomes
<1>2. CASE Len(turns) = 0
  <2>1. turns = <<>>
    BY <1>1, <1>2
  <2>2. turns' = <<>>
    BY <2>1 DEF EndTurn
  <2> QED  BY <1>1, <2>1, <2>2
<1>3. CASE Len(turns) # 0
  BY <1>1, <1>3 DEF EndTurn
<1> QED  BY <1>2, <1>3

\* Every step keeps the types.
LEMMA TypeStep ==
  ASSUME TypeOK, LimitInv, Next
  PROVE  TypeOK'
<1>1. CASE Run
  BY <1>1
  DEF Run, audio, devices, TypeOK, Places, Waking, Hearing, InTurn, Speaking,
     Over, States, Callers
<1>2. CASE CaptureStarts
  BY <1>2, VoiceAssumption
  DEF CaptureStarts, Started, Await, NextTurn, Leave, StopHardware, Mark,
     ReadFails, audio, TypeOK, Places, Waking, Hearing, InTurn, Speaking, Over,
     States, Callers
<1>3. CASE WakeHead
  BY <1>3
  DEF WakeHead, Leave, StopHardware, Await, Raise, audio, devices, TypeOK,
     Places, Waking, Hearing, InTurn, Speaking, Over, States, Callers
<1>4. CASE WakeFrame
  BY <1>4
  DEF WakeFrame, Await, ReadFails, Leave, StopHardware, audio, devices, TypeOK,
     Places, Waking, Hearing, InTurn, Speaking, Over, States, Callers
<1>5. CASE WakeResult
  BY <1>5, VoiceAssumption
  DEF WakeResult, NextTurn, Leave, StopHardware, Mark, Await, Raise, audio,
     devices, TypeOK, Places, Waking, Hearing, InTurn, Speaking, Over, States,
     Callers
<1>6. CASE WakeTimesOut
  BY <1>6
  DEF WakeTimesOut, Leave, StopHardware, audio, devices, TypeOK, Places, Waking,
     Hearing, InTurn, Speaking, Over, States, Callers
<1>7. CASE HearHead
  BY <1>7
  DEF HearHead, HearingEnds, Mark, Leave, StopHardware, Await, Raise, devices,
     TypeOK, Places, Waking, Hearing, InTurn, Speaking, Over, States, Callers
<1>8. CASE HearFrame
  BY <1>8
  DEF HearFrame, Await, ReadFails, Leave, StopHardware, audio, devices, TypeOK,
     Places, Waking, Hearing, InTurn, Speaking, Over, States, Callers
<1>9. CASE HearResult
  BY <1>9
  DEF HearResult, HearingEnds, Mark, Leave, StopHardware, Raise, devices,
     TypeOK, Places, Waking, Hearing, InTurn, Speaking, Over, States, Callers
<1>10. CASE HearTimesOut
  BY <1>10
  DEF HearTimesOut, HearingEnds, Mark, Leave, StopHardware, devices, TypeOK,
     Places, Waking, Hearing, InTurn, Speaking, Over, States, Callers
<1>11. ASSUME NEW ok \in BOOLEAN, Transcribed(ok)
      PROVE  TypeOK'
  BY <1>11, VoiceAssumption
  DEF Transcribed, Await, NextTurn, Leave, StopHardware, Mark, audio, devices,
     TypeOK, Places, Waking, Hearing, InTurn, Speaking, Over, States, Callers
<1>12. ASSUME NEW ok \in BOOLEAN, Detected(ok)
      PROVE  TypeOK'
  <2>1. CASE ~ ok
    BY <1>12, <2>1, VoiceAssumption DEF Detected, NextTurn, Leave,
      StopHardware, Mark, audio, devices, TypeOK, Places, States, Waking,
      Hearing, InTurn, Speaking, Over, Callers
  <2>2. CASE ok
    <3>1. turnCount' \in 0..MaxTurns
      BY <1>12, <2>2, VoiceAssumption DEF Detected, CountTurn, LimitInv, TypeOK
    <3>2. turns' \in Seq(Outcomes)
      BY <1>12, <2>2 DEF Detected, TypeOK, Outcomes
    <3> QED
      BY <1>12, <2>2, <3>1, <3>2 DEF Detected, Mark, audio, devices, TypeOK,
        Outcomes, Places, InTurn, States
  <2> QED  BY <2>1, <2>2
<1>13. ASSUME NEW ok \in BOOLEAN, Responded(ok)
      PROVE  TypeOK'
  BY <1>13, VoiceAssumption
  DEF Responded, Await, EndTurn, NextTurn, Leave, StopHardware, Mark, audio,
     devices, TypeOK, Places, Waking, Hearing, InTurn, Speaking, Over, States,
     Callers
<1>14. ASSUME NEW ok \in BOOLEAN, Synthesized(ok)
      PROVE  TypeOK'
  <2>1. turns' \in Seq(Outcomes)
    BY <1>14, EndedTurn DEF Synthesized, TypeOK, Outcomes
  <2> QED
    BY <1>14, <2>1, VoiceAssumption DEF Synthesized, NextTurn, Leave,
      StopHardware, Mark, devices, TypeOK, Outcomes, Places, States, Waking,
      Hearing, InTurn, Speaking, Over, Callers
<1>15. CASE PlayStarted
  BY <1>15, VoiceAssumption
  DEF PlayStarted, Listen, Await, SpeechEnds, EndTurn, NextTurn, Leave,
     StopHardware, Mark, audio, TypeOK, Places, Waking, Hearing, InTurn,
     Speaking, Over, States, Callers
<1>16. CASE PlayFails
  BY <1>16, VoiceAssumption
  DEF PlayFails, EndTurn, NextTurn, Leave, StopHardware, Mark, Raise, audio,
     devices, TypeOK, Places, Waking, Hearing, InTurn, Speaking, Over, States,
     Callers
<1>17. CASE BargeIn
  BY <1>17
  DEF BargeIn, Await, devices, TypeOK, Places, Waking, Hearing, InTurn,
     Speaking, Over, States, Callers
<1>18. CASE NoBargeIn
  BY <1>18
  DEF NoBargeIn, Await, audio, devices, TypeOK, Places, Waking, Hearing, InTurn,
     Speaking, Over, States, Callers
<1>19. CASE BargeInFails
  BY <1>19
  DEF BargeInFails, ReadFails, Leave, StopHardware, audio, devices, TypeOK,
     Places, Waking, Hearing, InTurn, Speaking, Over, States, Callers
<1>20. CASE SpeakHead
  BY <1>20, VoiceAssumption
  DEF SpeakHead, Listen, Await, SpeechEnds, EndTurn, NextTurn, Leave,
     StopHardware, Mark, audio, devices, TypeOK, Places, Waking, Hearing,
     InTurn, Speaking, Over, States, Callers
<1>21. CASE SpeakTimesOut
  BY <1>21
  DEF SpeakTimesOut, Await, audio, devices, TypeOK, Places, Waking, Hearing,
     InTurn, Speaking, Over, States, Callers
<1>22. CASE Silenced
  <2>1. turns' \in Seq(Outcomes)
    BY <1>22, EndedTurn DEF Silenced, SpeechEnds, Raise, Leave, TypeOK, Outcomes
  <2>2. playing' \in BOOLEAN
    BY <1>22 DEF Silenced, TypeOK
  <2> QED
    BY <1>22, <2>1, <2>2, VoiceAssumption DEF Silenced, SpeechEnds, NextTurn,
      Raise, Leave, StopHardware, Mark, audio, TypeOK, Outcomes, Places,
      States, Hearing, Over, Callers
<1>23. ASSUME NEW c \in Callers, Cleanup(c)
      PROVE  TypeOK'
  <2>1. stage' \in [Callers -> Stages]
    BY <1>23 DEF Cleanup, Step, TypeOK, Stages
  <2>2. pc' \in Places
    BY <1>23 DEF Cleanup, Finished, TypeOK, Places, Over
  <2>3. /\ capture' \in {"new", "open", "stopped", "closed"}
        /\ playing' \in BOOLEAN /\ closed' \in BOOLEAN
    BY <1>23 DEF Cleanup, devices, TypeOK
  <2> QED
    BY <1>23, <2>1, <2>2, <2>3 DEF Cleanup, session, audio, TypeOK, Stages
<1>24. CASE Interrupt
  <2>1. asked' \in BOOLEAN /\ playing' \in BOOLEAN
    BY <1>24 DEF Interrupt, TypeOK
  <2> QED  BY <1>24, <2>1 DEF Interrupt, session, TypeOK
<1>25. CASE Cancel
  BY <1>25
  DEF Cancel, Speaking, StopHardware, devices, TypeOK, Places, Waking, Hearing,
     InTurn, Over, States, Callers
<1>26. CASE PlaybackEnds
  BY <1>26
  DEF PlaybackEnds, session, audio, TypeOK, Places, Waking, Hearing, InTurn,
     Speaking, Over, States, Callers
<1> QED
  BY <1>1, <1>2, <1>3, <1>4, <1>5, <1>6, <1>7, <1>8, <1>9, <1>10, <1>11, <1>12,
     <1>13, <1>14, <1>15, <1>16, <1>17, <1>18, <1>19, <1>20, <1>21, <1>22,
     <1>23, <1>24, <1>25, <1>26
  DEF Next, RunStep, LimitReached, Callers

\* run() captures only below max_turns; turn_count grows in begin_turn only.
LEMMA LimitStep ==
  ASSUME TypeOK, LimitInv, TypeOK', Next
  PROVE  LimitInv'
<1>1. CASE Run
  BY <1>1 DEF Run, audio, devices, LimitInv, Hearing, TypeOK
<1>2. CASE CaptureStarts
  BY <1>2
  DEF CaptureStarts, Started, Await, NextTurn, Leave, StopHardware, Mark,
     ReadFails, audio, LimitInv, Hearing, TypeOK
<1>3. CASE WakeHead
  BY <1>3
  DEF WakeHead, Leave, StopHardware, Await, Raise, audio, devices, LimitInv,
     Hearing, TypeOK
<1>4. CASE WakeFrame
  BY <1>4
  DEF WakeFrame, Await, ReadFails, Leave, StopHardware, audio, devices,
     LimitInv, Hearing, TypeOK
<1>5. CASE WakeResult
  BY <1>5
  DEF WakeResult, NextTurn, Leave, StopHardware, Mark, Await, Raise, audio,
     devices, LimitInv, Hearing, TypeOK
<1>6. CASE WakeTimesOut
  BY <1>6
  DEF WakeTimesOut, Leave, StopHardware, audio, devices, LimitInv, Hearing,
     TypeOK
<1>7. CASE HearHead
  BY <1>7
  DEF HearHead, HearingEnds, Mark, Leave, StopHardware, Await, Raise, devices,
     LimitInv, Hearing, TypeOK
<1>8. CASE HearFrame
  BY <1>8
  DEF HearFrame, Await, ReadFails, Leave, StopHardware, audio, devices,
     LimitInv, Hearing, TypeOK
<1>9. CASE HearResult
  BY <1>9
  DEF HearResult, HearingEnds, Mark, Leave, StopHardware, Raise, devices,
     LimitInv, Hearing, TypeOK
<1>10. CASE HearTimesOut
  BY <1>10
  DEF HearTimesOut, HearingEnds, Mark, Leave, StopHardware, devices, LimitInv,
     Hearing, TypeOK
<1>11. ASSUME NEW ok \in BOOLEAN, Transcribed(ok)
      PROVE  LimitInv'
  BY <1>11
  DEF Transcribed, Await, NextTurn, Leave, StopHardware, Mark, audio, devices,
     LimitInv, Hearing, TypeOK
<1>12. ASSUME NEW ok \in BOOLEAN, Detected(ok)
      PROVE  LimitInv'
  BY <1>12
  DEF Detected, CountTurn, Mark, NextTurn, Leave, StopHardware, audio, devices,
     LimitInv, Hearing, TypeOK
<1>13. ASSUME NEW ok \in BOOLEAN, Responded(ok)
      PROVE  LimitInv'
  BY <1>13
  DEF Responded, Await, EndTurn, NextTurn, Leave, StopHardware, Mark, audio,
     devices, LimitInv, Hearing, TypeOK
<1>14. ASSUME NEW ok \in BOOLEAN, Synthesized(ok)
      PROVE  LimitInv'
  BY <1>14
  DEF Synthesized, Mark, EndTurn, NextTurn, Leave, StopHardware, devices,
     LimitInv, Hearing, TypeOK
<1>15. CASE PlayStarted
  BY <1>15
  DEF PlayStarted, Listen, Await, SpeechEnds, EndTurn, NextTurn, Leave,
     StopHardware, Mark, audio, LimitInv, Hearing, TypeOK
<1>16. CASE PlayFails
  BY <1>16
  DEF PlayFails, EndTurn, NextTurn, Leave, StopHardware, Mark, Raise, audio,
     devices, LimitInv, Hearing, TypeOK
<1>17. CASE BargeIn
  BY <1>17 DEF BargeIn, Await, devices, LimitInv, Hearing, TypeOK
<1>18. CASE NoBargeIn
  BY <1>18 DEF NoBargeIn, Await, audio, devices, LimitInv, Hearing, TypeOK
<1>19. CASE BargeInFails
  BY <1>19
  DEF BargeInFails, ReadFails, Leave, StopHardware, audio, devices, LimitInv,
     Hearing, TypeOK
<1>20. CASE SpeakHead
  BY <1>20
  DEF SpeakHead, Listen, Await, SpeechEnds, EndTurn, NextTurn, Leave,
     StopHardware, Mark, audio, devices, LimitInv, Hearing, TypeOK
<1>21. CASE SpeakTimesOut
  BY <1>21 DEF SpeakTimesOut, Await, audio, devices, LimitInv, Hearing, TypeOK
<1>22. CASE Silenced
  BY <1>22
  DEF Silenced, SpeechEnds, EndTurn, NextTurn, Leave, StopHardware, Mark, Raise,
     audio, LimitInv, Hearing, TypeOK
<1>23. ASSUME NEW c \in Callers, Cleanup(c)
      PROVE  LimitInv'
  BY <1>23
  DEF Cleanup, Step, Finished, devices, session, audio, LimitInv, Hearing,
     TypeOK, Callers
<1>24. CASE Interrupt
  BY <1>24 DEF Interrupt, Speaking, session, LimitInv, Hearing, TypeOK
<1>25. CASE Cancel
  BY <1>25
  DEF Cancel, Speaking, StopHardware, devices, LimitInv, Hearing, TypeOK
<1>26. CASE PlaybackEnds
  BY <1>26 DEF PlaybackEnds, session, audio, LimitInv, Hearing, TypeOK
<1> QED
  BY <1>1, <1>2, <1>3, <1>4, <1>5, <1>6, <1>7, <1>8, <1>9, <1>10, <1>11, <1>12,
     <1>13, <1>14, <1>15, <1>16, <1>17, <1>18, <1>19, <1>20, <1>21, <1>22,
     <1>23, <1>24, <1>25, <1>26
  DEF Next, RunStep, LimitReached, Callers

\* Nothing marks a state other than STOPPED and ERROR after one of these.
LEMMA StopStep ==
  ASSUME TypeOK, StopInv, TypeOK', Next
  PROVE  StopInv'
<1>1. CASE Run
  BY <1>1 DEF Run, audio, devices, StopInv, Stopped, Over, TypeOK
<1>2. CASE CaptureStarts
  BY <1>2
  DEF CaptureStarts, Started, Await, NextTurn, Leave, StopHardware, Mark,
     ReadFails, audio, StopInv, Stopped, Over, TypeOK
<1>3. CASE WakeHead
  BY <1>3
  DEF WakeHead, Leave, StopHardware, Await, Raise, audio, devices, StopInv,
     Stopped, Over, TypeOK
<1>4. CASE WakeFrame
  BY <1>4
  DEF WakeFrame, Await, ReadFails, Leave, StopHardware, audio, devices, StopInv,
     Stopped, Over, TypeOK
<1>5. CASE WakeResult
  BY <1>5
  DEF WakeResult, NextTurn, Leave, StopHardware, Mark, Await, Raise, audio,
     devices, StopInv, Stopped, Over, TypeOK
<1>6. CASE WakeTimesOut
  BY <1>6
  DEF WakeTimesOut, Leave, StopHardware, audio, devices, StopInv, Stopped, Over,
     TypeOK
<1>7. CASE HearHead
  BY <1>7
  DEF HearHead, HearingEnds, Mark, Leave, StopHardware, Await, Raise, devices,
     StopInv, Stopped, Over, TypeOK
<1>8. CASE HearFrame
  BY <1>8
  DEF HearFrame, Await, ReadFails, Leave, StopHardware, audio, devices, StopInv,
     Stopped, Over, TypeOK
<1>9. CASE HearResult
  BY <1>9
  DEF HearResult, HearingEnds, Mark, Leave, StopHardware, Raise, devices,
     StopInv, Stopped, Over, TypeOK
<1>10. CASE HearTimesOut
  BY <1>10
  DEF HearTimesOut, HearingEnds, Mark, Leave, StopHardware, devices, StopInv,
     Stopped, Over, TypeOK
<1>11. ASSUME NEW ok \in BOOLEAN, Transcribed(ok)
      PROVE  StopInv'
  BY <1>11
  DEF Transcribed, Await, NextTurn, Leave, StopHardware, Mark, audio, devices,
     StopInv, Stopped, Over, TypeOK
<1>12. ASSUME NEW ok \in BOOLEAN, Detected(ok)
      PROVE  StopInv'
  BY <1>12
  DEF Detected, CountTurn, Mark, NextTurn, Leave, StopHardware, audio, devices,
     StopInv, Stopped, Over, TypeOK
<1>13. ASSUME NEW ok \in BOOLEAN, Responded(ok)
      PROVE  StopInv'
  BY <1>13
  DEF Responded, Await, EndTurn, NextTurn, Leave, StopHardware, Mark, audio,
     devices, StopInv, Stopped, Over, TypeOK
<1>14. ASSUME NEW ok \in BOOLEAN, Synthesized(ok)
      PROVE  StopInv'
  BY <1>14
  DEF Synthesized, Mark, EndTurn, NextTurn, Leave, StopHardware, devices,
     StopInv, Stopped, Over, TypeOK
<1>15. CASE PlayStarted
  BY <1>15
  DEF PlayStarted, Listen, Await, SpeechEnds, EndTurn, NextTurn, Leave,
     StopHardware, Mark, audio, StopInv, Stopped, Over, TypeOK
<1>16. CASE PlayFails
  BY <1>16
  DEF PlayFails, EndTurn, NextTurn, Leave, StopHardware, Mark, Raise, audio,
     devices, StopInv, Stopped, Over, TypeOK
<1>17. CASE BargeIn
  BY <1>17 DEF BargeIn, Await, devices, StopInv, Stopped, Over, TypeOK
<1>18. CASE NoBargeIn
  BY <1>18 DEF NoBargeIn, Await, audio, devices, StopInv, Stopped, Over, TypeOK
<1>19. CASE BargeInFails
  BY <1>19
  DEF BargeInFails, ReadFails, Leave, StopHardware, audio, devices, StopInv,
     Stopped, Over, TypeOK
<1>20. CASE SpeakHead
  BY <1>20
  DEF SpeakHead, Listen, Await, SpeechEnds, EndTurn, NextTurn, Leave,
     StopHardware, Mark, audio, devices, StopInv, Stopped, Over, TypeOK
<1>21. CASE SpeakTimesOut
  BY <1>21
  DEF SpeakTimesOut, Await, audio, devices, StopInv, Stopped, Over, TypeOK
<1>22. CASE Silenced
  BY <1>22
  DEF Silenced, SpeechEnds, EndTurn, NextTurn, Leave, StopHardware, Mark, Raise,
     audio, StopInv, Stopped, Over, TypeOK
<1>23. ASSUME NEW c \in Callers, Cleanup(c)
      PROVE  StopInv'
  BY <1>23
  DEF Cleanup, Step, Finished, devices, session, audio, StopInv, Stopped, Over,
     TypeOK, Callers
<1>24. CASE Interrupt
  BY <1>24 DEF Interrupt, Speaking, session, StopInv, Stopped, Over, TypeOK
<1>25. CASE Cancel
  BY <1>25
  DEF Cancel, Speaking, StopHardware, devices, StopInv, Stopped, Over, TypeOK
<1>26. CASE PlaybackEnds
  BY <1>26 DEF PlaybackEnds, session, audio, StopInv, Stopped, Over, TypeOK
<1> QED
  BY <1>1, <1>2, <1>3, <1>4, <1>5, <1>6, <1>7, <1>8, <1>9, <1>10, <1>11, <1>12,
     <1>13, <1>14, <1>15, <1>16, <1>17, <1>18, <1>19, <1>20, <1>21, <1>22,
     <1>23, <1>24, <1>25, <1>26
  DEF Next, RunStep, LimitReached, Callers

\* The event of _speak is cleared only where a new playback begins.
LEMMA AskStep ==
  ASSUME TypeOK, AskInv, TypeOK', Next
  PROVE  AskInv'
<1>1. CASE Run
  BY <1>1 DEF Run, audio, devices, AskInv, Speaking, TypeOK
<1>2. CASE CaptureStarts
  BY <1>2
  DEF CaptureStarts, Started, Await, NextTurn, Leave, StopHardware, Mark,
     ReadFails, audio, AskInv, Speaking, TypeOK
<1>3. CASE WakeHead
  BY <1>3
  DEF WakeHead, Leave, StopHardware, Await, Raise, audio, devices, AskInv,
     Speaking, TypeOK
<1>4. CASE WakeFrame
  BY <1>4
  DEF WakeFrame, Await, ReadFails, Leave, StopHardware, audio, devices, AskInv,
     Speaking, TypeOK
<1>5. CASE WakeResult
  BY <1>5
  DEF WakeResult, NextTurn, Leave, StopHardware, Mark, Await, Raise, audio,
     devices, AskInv, Speaking, TypeOK
<1>6. CASE WakeTimesOut
  BY <1>6
  DEF WakeTimesOut, Leave, StopHardware, audio, devices, AskInv, Speaking,
     TypeOK
<1>7. CASE HearHead
  BY <1>7
  DEF HearHead, HearingEnds, Mark, Leave, StopHardware, Await, Raise, devices,
     AskInv, Speaking, TypeOK
<1>8. CASE HearFrame
  BY <1>8
  DEF HearFrame, Await, ReadFails, Leave, StopHardware, audio, devices, AskInv,
     Speaking, TypeOK
<1>9. CASE HearResult
  BY <1>9
  DEF HearResult, HearingEnds, Mark, Leave, StopHardware, Raise, devices,
     AskInv, Speaking, TypeOK
<1>10. CASE HearTimesOut
  BY <1>10
  DEF HearTimesOut, HearingEnds, Mark, Leave, StopHardware, devices, AskInv,
     Speaking, TypeOK
<1>11. ASSUME NEW ok \in BOOLEAN, Transcribed(ok)
      PROVE  AskInv'
  BY <1>11
  DEF Transcribed, Await, NextTurn, Leave, StopHardware, Mark, audio, devices,
     AskInv, Speaking, TypeOK
<1>12. ASSUME NEW ok \in BOOLEAN, Detected(ok)
      PROVE  AskInv'
  BY <1>12
  DEF Detected, CountTurn, Mark, NextTurn, Leave, StopHardware, audio, devices,
     AskInv, Speaking, TypeOK
<1>13. ASSUME NEW ok \in BOOLEAN, Responded(ok)
      PROVE  AskInv'
  BY <1>13
  DEF Responded, Await, EndTurn, NextTurn, Leave, StopHardware, Mark, audio,
     devices, AskInv, Speaking, TypeOK
<1>14. ASSUME NEW ok \in BOOLEAN, Synthesized(ok)
      PROVE  AskInv'
  BY <1>14
  DEF Synthesized, Mark, EndTurn, NextTurn, Leave, StopHardware, devices,
     AskInv, Speaking, TypeOK
<1>15. CASE PlayStarted
  BY <1>15
  DEF PlayStarted, Listen, Await, SpeechEnds, EndTurn, NextTurn, Leave,
     StopHardware, Mark, audio, AskInv, Speaking, TypeOK
<1>16. CASE PlayFails
  BY <1>16
  DEF PlayFails, EndTurn, NextTurn, Leave, StopHardware, Mark, Raise, audio,
     devices, AskInv, Speaking, TypeOK
<1>17. CASE BargeIn
  BY <1>17 DEF BargeIn, Await, devices, AskInv, Speaking, TypeOK
<1>18. CASE NoBargeIn
  BY <1>18 DEF NoBargeIn, Await, audio, devices, AskInv, Speaking, TypeOK
<1>19. CASE BargeInFails
  BY <1>19
  DEF BargeInFails, ReadFails, Leave, StopHardware, audio, devices, AskInv,
     Speaking, TypeOK
<1>20. CASE SpeakHead
  BY <1>20
  DEF SpeakHead, Listen, Await, SpeechEnds, EndTurn, NextTurn, Leave,
     StopHardware, Mark, audio, devices, AskInv, Speaking, TypeOK
<1>21. CASE SpeakTimesOut
  BY <1>21 DEF SpeakTimesOut, Await, audio, devices, AskInv, Speaking, TypeOK
<1>22. CASE Silenced
  BY <1>22
  DEF Silenced, SpeechEnds, EndTurn, NextTurn, Leave, StopHardware, Mark, Raise,
     audio, AskInv, Speaking, TypeOK
<1>23. ASSUME NEW c \in Callers, Cleanup(c)
      PROVE  AskInv'
  BY <1>23
  DEF Cleanup, Step, Finished, devices, session, audio, AskInv, Speaking,
     TypeOK, Callers
<1>24. CASE Interrupt
  BY <1>24 DEF Interrupt, Speaking, session, AskInv, TypeOK
<1>25. CASE Cancel
  BY <1>25 DEF Cancel, Speaking, StopHardware, devices, AskInv, TypeOK
<1>26. CASE PlaybackEnds
  BY <1>26 DEF PlaybackEnds, session, audio, AskInv, Speaking, TypeOK
<1> QED
  BY <1>1, <1>2, <1>3, <1>4, <1>5, <1>6, <1>7, <1>8, <1>9, <1>10, <1>11, <1>12,
     <1>13, <1>14, <1>15, <1>16, <1>17, <1>18, <1>19, <1>20, <1>21, <1>22,
     <1>23, <1>24, <1>25, <1>26
  DEF Next, RunStep, LimitReached, Callers

\* The stages of _stop_hardware in run(), and what each leaves behind.
LEMMA StageStep ==
  ASSUME TypeOK, StageInv, TypeOK', Next
  PROVE  StageInv'
<1>1. CASE Run
  BY <1>1 DEF Run, audio, devices, StageInv, Over, Callers, TypeOK
<1>2. CASE CaptureStarts
  BY <1>2
  DEF CaptureStarts, Started, Await, NextTurn, Leave, StopHardware, Mark,
     ReadFails, audio, StageInv, Over, Callers, TypeOK
<1>3. CASE WakeHead
  BY <1>3
  DEF WakeHead, Leave, StopHardware, Await, Raise, audio, devices, StageInv,
     Over, Callers, TypeOK
<1>4. CASE WakeFrame
  BY <1>4
  DEF WakeFrame, Await, ReadFails, Leave, StopHardware, audio, devices,
     StageInv, Over, Callers, TypeOK
<1>5. CASE WakeResult
  BY <1>5
  DEF WakeResult, NextTurn, Leave, StopHardware, Mark, Await, Raise, audio,
     devices, StageInv, Over, Callers, TypeOK
<1>6. CASE WakeTimesOut
  BY <1>6
  DEF WakeTimesOut, Leave, StopHardware, audio, devices, StageInv, Over,
     Callers, TypeOK
<1>7. CASE HearHead
  BY <1>7
  DEF HearHead, HearingEnds, Mark, Leave, StopHardware, Await, Raise, devices,
     StageInv, Over, Callers, TypeOK
<1>8. CASE HearFrame
  BY <1>8
  DEF HearFrame, Await, ReadFails, Leave, StopHardware, audio, devices,
     StageInv, Over, Callers, TypeOK
<1>9. CASE HearResult
  BY <1>9
  DEF HearResult, HearingEnds, Mark, Leave, StopHardware, Raise, devices,
     StageInv, Over, Callers, TypeOK
<1>10. CASE HearTimesOut
  BY <1>10
  DEF HearTimesOut, HearingEnds, Mark, Leave, StopHardware, devices, StageInv,
     Over, Callers, TypeOK
<1>11. ASSUME NEW ok \in BOOLEAN, Transcribed(ok)
      PROVE  StageInv'
  BY <1>11
  DEF Transcribed, Await, NextTurn, Leave, StopHardware, Mark, audio, devices,
     StageInv, Over, Callers, TypeOK
<1>12. ASSUME NEW ok \in BOOLEAN, Detected(ok)
      PROVE  StageInv'
  BY <1>12
  DEF Detected, CountTurn, Mark, NextTurn, Leave, StopHardware, audio, devices,
     StageInv, Over, Callers, TypeOK
<1>13. ASSUME NEW ok \in BOOLEAN, Responded(ok)
      PROVE  StageInv'
  BY <1>13
  DEF Responded, Await, EndTurn, NextTurn, Leave, StopHardware, Mark, audio,
     devices, StageInv, Over, Callers, TypeOK
<1>14. ASSUME NEW ok \in BOOLEAN, Synthesized(ok)
      PROVE  StageInv'
  BY <1>14
  DEF Synthesized, Mark, EndTurn, NextTurn, Leave, StopHardware, devices,
     StageInv, Over, Callers, TypeOK
<1>15. CASE PlayStarted
  BY <1>15
  DEF PlayStarted, Listen, Await, SpeechEnds, EndTurn, NextTurn, Leave,
     StopHardware, Mark, audio, StageInv, Over, Callers, TypeOK
<1>16. CASE PlayFails
  BY <1>16
  DEF PlayFails, EndTurn, NextTurn, Leave, StopHardware, Mark, Raise, audio,
     devices, StageInv, Over, Callers, TypeOK
<1>17. CASE BargeIn
  BY <1>17 DEF BargeIn, Await, devices, StageInv, Over, Callers, TypeOK
<1>18. CASE NoBargeIn
  BY <1>18
  DEF NoBargeIn, Await, audio, devices, StageInv, Over, Callers, TypeOK
<1>19. CASE BargeInFails
  BY <1>19
  DEF BargeInFails, ReadFails, Leave, StopHardware, audio, devices, StageInv,
     Over, Callers, TypeOK
<1>20. CASE SpeakHead
  BY <1>20
  DEF SpeakHead, Listen, Await, SpeechEnds, EndTurn, NextTurn, Leave,
     StopHardware, Mark, audio, devices, StageInv, Over, Callers, TypeOK
<1>21. CASE SpeakTimesOut
  BY <1>21
  DEF SpeakTimesOut, Await, audio, devices, StageInv, Over, Callers, TypeOK
<1>22. CASE Silenced
  BY <1>22
  DEF Silenced, SpeechEnds, EndTurn, NextTurn, Leave, StopHardware, Mark, Raise,
     audio, StageInv, Over, Callers, TypeOK
<1>23. ASSUME NEW c \in Callers, Cleanup(c)
      PROVE  StageInv'
  BY <1>23
  DEF Cleanup, Step, Finished, devices, session, audio, StageInv, Over, Callers,
     TypeOK
<1>24. CASE Interrupt
  BY <1>24 DEF Interrupt, Speaking, session, StageInv, Over, Callers, TypeOK
<1>25. CASE Cancel
  BY <1>25
  DEF Cancel, Speaking, StopHardware, devices, StageInv, Over, Callers, TypeOK
<1>26. CASE PlaybackEnds
  BY <1>26 DEF PlaybackEnds, session, audio, StageInv, Over, Callers, TypeOK
<1> QED
  BY <1>1, <1>2, <1>3, <1>4, <1>5, <1>6, <1>7, <1>8, <1>9, <1>10, <1>11, <1>12,
     <1>13, <1>14, <1>15, <1>16, <1>17, <1>18, <1>19, <1>20, <1>21, <1>22,
     <1>23, <1>24, <1>25, <1>26
  DEF Next, RunStep, LimitReached, Callers

\* A turn is completed before run() goes on, or an exception is in flight.
LEMMA TurnStep ==
  ASSUME TypeOK, TurnInv, TypeOK', StageInv, Next
  PROVE  TurnInv'
<1>1. CASE Run
  BY <1>1
  DEF Run, audio, devices, TurnInv, TurnsAreCompleted, InTurn, Speaking, Over,
     TypeOK
<1>2. CASE CaptureStarts
  BY <1>2
  DEF CaptureStarts, Started, Await, NextTurn, Leave, StopHardware, Mark,
     ReadFails, audio, TurnInv, TurnsAreCompleted, InTurn, Speaking, Over,
     TypeOK
<1>3. CASE WakeHead
  BY <1>3
  DEF WakeHead, Leave, StopHardware, Await, Raise, audio, devices, TurnInv,
     TurnsAreCompleted, InTurn, Speaking, Over, TypeOK
<1>4. CASE WakeFrame
  BY <1>4
  DEF WakeFrame, Await, ReadFails, Leave, StopHardware, audio, devices, TurnInv,
     TurnsAreCompleted, InTurn, Speaking, Over, TypeOK
<1>5. CASE WakeResult
  BY <1>5
  DEF WakeResult, NextTurn, Leave, StopHardware, Mark, Await, Raise, audio,
     devices, TurnInv, TurnsAreCompleted, InTurn, Speaking, Over, TypeOK
<1>6. CASE WakeTimesOut
  BY <1>6
  DEF WakeTimesOut, Leave, StopHardware, audio, devices, TurnInv,
     TurnsAreCompleted, InTurn, Speaking, Over, TypeOK
<1>7. CASE HearHead
  BY <1>7
  DEF HearHead, HearingEnds, Mark, Leave, StopHardware, Await, Raise, devices,
     TurnInv, TurnsAreCompleted, InTurn, Speaking, Over, TypeOK
<1>8. CASE HearFrame
  BY <1>8
  DEF HearFrame, Await, ReadFails, Leave, StopHardware, audio, devices, TurnInv,
     TurnsAreCompleted, InTurn, Speaking, Over, TypeOK
<1>9. CASE HearResult
  BY <1>9
  DEF HearResult, HearingEnds, Mark, Leave, StopHardware, Raise, devices,
     TurnInv, TurnsAreCompleted, InTurn, Speaking, Over, TypeOK
<1>10. CASE HearTimesOut
  BY <1>10
  DEF HearTimesOut, HearingEnds, Mark, Leave, StopHardware, devices, TurnInv,
     TurnsAreCompleted, InTurn, Speaking, Over, TypeOK
<1>11. ASSUME NEW ok \in BOOLEAN, Transcribed(ok)
      PROVE  TurnInv'
  BY <1>11
  DEF Transcribed, Await, NextTurn, Leave, StopHardware, Mark, audio, devices,
     TurnInv, TurnsAreCompleted, InTurn, Speaking, Over, TypeOK
<1>12. ASSUME NEW ok \in BOOLEAN, Detected(ok)
      PROVE  TurnInv'
  BY <1>12
  DEF Detected, CountTurn, Mark, NextTurn, Leave, StopHardware, audio, devices,
     TurnInv, TurnsAreCompleted, InTurn, Speaking, Over, TypeOK
<1>13. ASSUME NEW ok \in BOOLEAN, Responded(ok)
      PROVE  TurnInv'
  BY <1>13
  DEF Responded, Await, EndTurn, NextTurn, Leave, StopHardware, Mark, audio,
     devices, TurnInv, TurnsAreCompleted, InTurn, Speaking, Over, TypeOK
<1>14. ASSUME NEW ok \in BOOLEAN, Synthesized(ok)
      PROVE  TurnInv'
  BY <1>14
  DEF Synthesized, Mark, EndTurn, NextTurn, Leave, StopHardware, devices,
     TurnInv, TurnsAreCompleted, InTurn, Speaking, Over, TypeOK
<1>15. CASE PlayStarted
  BY <1>15
  DEF PlayStarted, Listen, Await, SpeechEnds, EndTurn, NextTurn, Leave,
     StopHardware, Mark, audio, TurnInv, TurnsAreCompleted, InTurn, Speaking,
     Over, TypeOK
<1>16. CASE PlayFails
  BY <1>16
  DEF PlayFails, EndTurn, NextTurn, Leave, StopHardware, Mark, Raise, audio,
     devices, TurnInv, TurnsAreCompleted, InTurn, Speaking, Over, TypeOK
<1>17. CASE BargeIn
  BY <1>17
  DEF BargeIn, Await, devices, TurnInv, TurnsAreCompleted, InTurn, Speaking,
     Over, TypeOK
<1>18. CASE NoBargeIn
  BY <1>18
  DEF NoBargeIn, Await, audio, devices, TurnInv, TurnsAreCompleted, InTurn,
     Speaking, Over, TypeOK
<1>19. CASE BargeInFails
  BY <1>19
  DEF BargeInFails, ReadFails, Leave, StopHardware, audio, devices, TurnInv,
     TurnsAreCompleted, InTurn, Speaking, Over, TypeOK
<1>20. CASE SpeakHead
  BY <1>20
  DEF SpeakHead, Listen, Await, SpeechEnds, EndTurn, NextTurn, Leave,
     StopHardware, Mark, audio, devices, TurnInv, TurnsAreCompleted, InTurn,
     Speaking, Over, TypeOK
<1>21. CASE SpeakTimesOut
  BY <1>21
  DEF SpeakTimesOut, Await, audio, devices, TurnInv, TurnsAreCompleted, InTurn,
     Speaking, Over, TypeOK
<1>22. CASE Silenced
  BY <1>22
  DEF Silenced, SpeechEnds, EndTurn, NextTurn, Leave, StopHardware, Mark, Raise,
     audio, TurnInv, TurnsAreCompleted, InTurn, Speaking, Over, TypeOK
<1>23. ASSUME NEW c \in Callers, Cleanup(c)
      PROVE  TurnInv'
  <2>1. UNCHANGED <<error, turns>> /\ pc' \in {pc} \cup Over
    BY <1>23 DEF Cleanup, Finished, Over
  <2>2. pc' # pc => pc \in {"closing"} \cup Over
    BY <1>23 DEF Cleanup, Step, Finished, StageInv, TypeOK, Callers
  <2>3. pc \in {"closing"} \cup Over => pc \notin InTurn
    BY DEF Over, InTurn, Speaking
  <2> QED
    BY <2>1, <2>2, <2>3 DEF TurnInv, TurnsAreCompleted
<1>24. CASE Interrupt
  BY <1>24
  DEF Interrupt, Speaking, session, TurnInv, TurnsAreCompleted, InTurn, Over,
     TypeOK
<1>25. CASE Cancel
  BY <1>25
  DEF Cancel, Speaking, StopHardware, devices, TurnInv, TurnsAreCompleted,
     InTurn, Over, TypeOK
<1>26. CASE PlaybackEnds
  BY <1>26
  DEF PlaybackEnds, session, audio, TurnInv, TurnsAreCompleted, InTurn,
     Speaking, Over, TypeOK
<1> QED
  BY <1>1, <1>2, <1>3, <1>4, <1>5, <1>6, <1>7, <1>8, <1>9, <1>10, <1>11, <1>12,
     <1>13, <1>14, <1>15, <1>16, <1>17, <1>18, <1>19, <1>20, <1>21, <1>22,
     <1>23, <1>24, <1>25, <1>26
  DEF Next, RunStep, LimitReached, Callers

LEMMA AssistantInvariant == Spec => []AssistantInv
<1>1. Init => AssistantInv
  <2> SUFFICES ASSUME Init PROVE AssistantInv
    OBVIOUS
  <2>1. TypeOK
    <3>1. turns \in Seq(Outcomes) /\ turnCount \in 0..MaxTurns
      BY VoiceAssumption DEF Init
    <3>2. /\ pc \in Places /\ state \in States
          /\ stage \in [Callers -> {"none", "output", "capture", "close", "speaker", "done"}]
      BY DEF Init, Places, States
    <3> QED  BY <3>1, <3>2 DEF Init, TypeOK, Outcomes
  <2>2. LimitInv /\ StopInv /\ AskInv
    BY DEF Init, LimitInv, StopInv, AskInv, Hearing, Speaking, Stopped
  <2>3. TurnInv /\ StageInv
    BY DEF Init, TurnInv, TurnsAreCompleted, StageInv, Callers, Over
  <2> QED  BY <2>1, <2>2, <2>3 DEF AssistantInv
<1>2. AssistantInv /\ [Next]_vars => AssistantInv'
  <2> SUFFICES ASSUME AssistantInv, [Next]_vars PROVE AssistantInv'
    OBVIOUS
  <2>1. CASE Next
    BY <2>1, TypeStep, LimitStep, StopStep, AskStep, StageStep, TurnStep
    DEF AssistantInv
  <2>2. CASE UNCHANGED vars
    BY <2>2 DEF vars, session, audio, devices, AssistantInv, TypeOK, LimitInv,
      StopInv, TurnInv, AskInv, StageInv, TurnsAreCompleted
  <2> QED  BY <2>1, <2>2
<1> QED  BY <1>1, <1>2, PTL DEF Spec

\* A cancel is never taken back.
LEMMA CancelledStays ==
  ASSUME Next, cancelled
  PROVE  cancelled'
<1>1. cancelled' = cancelled \/ Cancel
  BY DEF Next, RunStep, LimitReached, session, Run, CaptureStarts, WakeHead,
    WakeFrame, WakeResult, WakeTimesOut, HearHead, HearFrame, HearResult,
    HearTimesOut, Transcribed, Detected, Responded, Synthesized, PlayStarted,
    PlayFails, BargeIn, NoBargeIn, BargeInFails, SpeakHead, SpeakTimesOut,
    Silenced, Cleanup, Interrupt, PlaybackEnds
<1> QED  BY <1>1 DEF Cancel

\* The steps that begin or complete a turn.
LEMMA OtherwiseTurnsStay ==
  ASSUME Next
  PROVE  \/ UNCHANGED turns
         \/ PlayStarted \/ SpeakHead \/ Silenced \/ PlayFails
         \/ \E ok \in BOOLEAN : Detected(ok) \/ Responded(ok) \/ Synthesized(ok)
BY DEF Next, RunStep, LimitReached, Run, CaptureStarts, WakeHead, WakeFrame,
  WakeResult, WakeTimesOut, HearHead, HearFrame, HearResult, HearTimesOut,
  Transcribed, BargeIn, NoBargeIn, BargeInFails, SpeakTimesOut, Cleanup,
  Interrupt, Cancel, PlaybackEnds

-----------------------------------------------------------------------------
(* The theorems.                                                           *)

\* The variables of a session keep their types; turn_count stays within
\* max_turns.
THEOREM AssistantTypeCorrect == Spec => []TypeOK
  BY AssistantInvariant, PTL DEF AssistantInv

\* Every turn is completed before the next begins and before run() returns;
\* only an exception can leave the last one open.
THEOREM EveryTurnIsCompleted == Spec => []TurnsAreCompleted
  BY AssistantInvariant, PTL DEF AssistantInv, TurnInv

\* Once run() has returned and cancel() too, microphone and output are closed
\* and silent, in whatever order the two released them.
THEOREM DevicesAreReleased == Spec => []ReleasedAtEnd
<1>1. AssistantInv => ReleasedAtEnd
  BY DEF AssistantInv, StageInv, ReleasedAtEnd
<1> QED  BY <1>1, AssistantInvariant, PTL

\* A session that is stopped, or in error, stays so: no provider that answers
\* late marks another state.
THEOREM StoppedForGood == Spec => StoppedStays
<1>1. AssistantInv /\ AssistantInv' /\ [Next]_vars =>
        [(state \in {"stopped", "error"}) => (state' \in {"stopped", "error"})]_vars
  <2> SUFFICES ASSUME AssistantInv, AssistantInv', Next,
                      state \in {"stopped", "error"}
               PROVE  state' \in {"stopped", "error"}
    BY DEF vars, session
  <2>1. CASE cancelled
    <3>1. cancelled'
      BY <2>1, CancelledStays
    <3> QED  BY <3>1 DEF AssistantInv, StopInv, Stopped
  <2>2. CASE pc \in {"closing"} \cup Over
    <3>1. (\E c \in Callers : Cleanup(c)) \/ Interrupt \/ Cancel \/ PlaybackEnds
      BY <2>2 DEF Next, RunStep, LimitReached, Over, Callers, Run, CaptureStarts,
        WakeHead, WakeFrame, WakeResult, WakeTimesOut, HearHead, HearFrame,
        HearResult, HearTimesOut, Transcribed, Detected, Responded,
        Synthesized, PlayStarted, PlayFails, BargeIn, NoBargeIn, BargeInFails,
        SpeakHead, SpeakTimesOut, Silenced
    <3> QED
      BY <3>1 DEF Cleanup, Interrupt, Cancel, PlaybackEnds, session
  <2>3. CASE pc = "silencing" /\ error # "none"
    <3>1. \/ Silenced
          \/ (\E c \in Callers : Cleanup(c)) \/ Interrupt \/ Cancel \/ PlaybackEnds
      BY <2>3 DEF Next, RunStep, LimitReached, Over, Callers, Run, CaptureStarts,
        WakeHead, WakeFrame, WakeResult, WakeTimesOut, HearHead, HearFrame,
        HearResult, HearTimesOut, Transcribed, Detected, Responded,
        Synthesized, PlayStarted, PlayFails, BargeIn, NoBargeIn, BargeInFails,
        SpeakHead, SpeakTimesOut
    <3> QED
      BY <2>3, <3>1 DEF Silenced, Leave, Raise, Cleanup, Interrupt, Cancel,
        PlaybackEnds, session
  <2> QED
    BY <2>1, <2>2, <2>3 DEF AssistantInv, StopInv, Stopped
<1> QED  BY <1>1, AssistantInvariant, PTL DEF Spec, StoppedStays

\* An interrupt asked for while run() speaks ends the turn as interrupted.
THEOREM InterruptIsKept == Spec => InterruptKept
<1>1. AssistantInv /\ [Next]_vars =>
        [\A i \in 1..Len(turns) :
           turns[i] = "open" /\ turns'[i] = "completed" => ~ asked]_vars
  <2> SUFFICES ASSUME AssistantInv, Next, NEW i \in 1..Len(turns),
                      turns[i] = "open", turns'[i] = "completed"
               PROVE  ~ asked
    BY DEF vars
  <2>1. CASE PlayStarted \/ SpeakHead \/ Silenced
    <3>1. pc \in Speaking
      BY <2>1 DEF PlayStarted, SpeakHead, Silenced, Speaking
    <3>2. turns' # turns
      OBVIOUS
    <3>3. SpeechEnds(interrupt)
      BY <2>1, <3>2 DEF PlayStarted, SpeakHead, Silenced, Listen, Raise
    <3>4. ~ interrupt
      <4> SUFFICES ASSUME interrupt PROVE FALSE
        OBVIOUS
      <4>1. EndTurn("interrupted")
        BY <3>3 DEF SpeechEnds
      <4> QED  BY <4>1, EndedTurn DEF Outcomes, AssistantInv
    <3> QED  BY <3>1, <3>4 DEF AssistantInv, AskInv
  <2>2. CASE \E ok \in BOOLEAN : Detected(ok)
    <3>1. turns'[i] = turns[i]
      BY <2>2 DEF Detected, AssistantInv, TypeOK
    <3> QED  BY <3>1
  <2>3. CASE (\E ok \in BOOLEAN : Responded(ok) \/ Synthesized(ok)) \/ PlayFails
    <3>1. EndTurn("failed") \/ UNCHANGED turns
      BY <2>3 DEF Responded, Synthesized, PlayFails
    <3> QED  BY <3>1, EndedTurn DEF Outcomes, AssistantInv
  <2>4. CASE UNCHANGED turns
    BY <2>4
  <2> QED
    BY <2>1, <2>2, <2>3, <2>4, OtherwiseTurnsStay
<1> QED  BY <1>1, AssistantInvariant, PTL DEF Spec, InterruptKept
=============================================================================
