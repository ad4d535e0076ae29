------------------------- MODULE VoiceConversation -------------------------
(***************************************************************************)
(* Turns that share one conversation: VoiceConversationService.handle, or  *)
(* VoiceBrain.respond of the chat brain and of the brain that executes     *)
(* tasks.  Several turns may be under way; an action is the code of one    *)
(* between two awaits.  The caller of each sets it a time limit.           *)
(*                                                                         *)
(* Left out: audio, wording, the empty audio no valid request has.         *)
(***************************************************************************)
EXTENDS LanguageDetection, Sequences

CONSTANTS
  Turns,   \* the requests
  Heard,   \* the texts that speech is recognised as
  Bounds   \* the values of max_history_messages

ASSUME ConversationAssumption ==
  /\ Heard \subseteq [devanagari : Nat, arabic : Nat, latin : Nat,
                      english : Nat, hinglish : Nat]
  /\ Bounds \subseteq Nat \ {0, 1}

VARIABLES
  kind,        \* "service", "chat" or "task"
  bound,       \* <<_max_history>> of a chat brain
  preference,  \* <<the explicit label>>, if the speaker chose one
  latest,      \* <<_latest_style>>
  history,     \* _history
  audit,       \* the dispatches on the audit trail
  phase,       \* what each turn awaits
  outcome,     \* how it ended
  text,        \* <<what was heard>>
  style,       \* <<the style of its answer>>
  shown        \* <<the history the model was given>>

config == <<kind, bound, preference>>
shared == <<latest, history, audit>>
turn == <<phase, outcome, text, style, shown>>
conversationVars == <<config, shared, turn>>

Awaited == {"transcribe", "detect", "chat", "synthesize", "execute"}
Outcomes == {"stt", "language", "ai", "tts", "complete", "cancelled"}

ConversationTypeOK ==
  /\ phase \in [Turns -> {"new", "over"} \cup Awaited]
  /\ outcome \in [Turns -> {"none"} \cup Outcomes]
  /\ history \in Seq([role : {"user", "assistant"}, turn : Turns])
  /\ \A t \in Turns : (phase[t] = "over") = (outcome[t] # "none")

ConversationInit ==
  /\ kind \in {"service", "chat", "task"}
  /\ bound \in IF kind = "chat" THEN {<<n>> : n \in Bounds} ELSE {<<>>}
  /\ preference \in {<<>>} \cup IF kind = "service" THEN {<<l>> : l \in Concrete} ELSE {}
  /\ latest = <<>>
  /\ history = <<>>
  /\ audit = <<>>
  /\ phase = [t \in Turns |-> "new"]
  /\ outcome = [t \in Turns |-> "none"]
  /\ text = [t \in Turns |-> <<>>]
  /\ style = [t \in Turns |-> <<>>]
  /\ shown = [t \in Turns |-> <<>>]

-----------------------------------------------------------------------------
(* What a turn does before an await.                                       *)

Await(t, place) ==
  /\ phase' = [phase EXCEPT ![t] = place]
  /\ UNCHANGED outcome

\* _controlled_fail, or the result.
End(t, o) ==
  /\ phase' = [phase EXCEPT ![t] = "over"]
  /\ outcome' = [outcome EXCEPT ![t] = o]

\* _build_ai_request, _build_messages: the messages hold a copy of the history.
Chat(t) ==
  /\ Await(t, "chat")
  /\ shown' = [shown EXCEPT ![t] = <<history>>]

Exchange(t) ==
  <<[role |-> "user", turn |-> t], [role |-> "assistant", turn |-> t]>>

\* Mutant: the bound is kept by dropping what is new.
KeepOldest(t) ==
  LET h == history \o Exchange(t)
      n == IF bound = <<>> \/ Len(h) < bound[1] THEN Len(h) ELSE bound[1]
  IN history' = SubSeq(h, 1, n)

\* Mutant: the answer is written after the history the model was shown.
RememberAfterShown(t) ==
  LET h == shown[t][1] \o Exchange(t)
      n == IF bound = <<>> \/ Len(h) < bound[1] THEN Len(h) ELSE bound[1]
  IN history' = SubSeq(h, Len(h) - n + 1, Len(h))

\* The exchange is remembered; a chat brain keeps its last messages.
Remember(t) ==
  LET h == history \o Exchange(t)
      n == IF bound = <<>> \/ Len(h) < bound[1] THEN Len(h) ELSE bound[1]
  IN history' = SubSeq(h, Len(h) - n + 1, Len(h))

-----------------------------------------------------------------------------
(* The service.                                                            *)

Handle(t) ==
  /\ kind = "service"
  /\ phase[t] = "new"
  /\ Await(t, "transcribe")
  /\ UNCHANGED <<config, shared, text, style, shown>>

\* The provider raises, fails, or recognises no text.
NotTranscribed(t) ==
  /\ phase[t] = "transcribe"
  /\ End(t, "stt")
  /\ UNCHANGED <<config, shared, text, style, shown>>

Transcribed(t) ==
  /\ phase[t] = "transcribe"
  /\ \E x \in Heard : text' = [text EXCEPT ![t] = <<x>>]
  /\ Await(t, "detect")
  /\ UNCHANGED <<config, shared, style, shown>>

NotDetected(t) ==
  /\ phase[t] = "detect"
  /\ End(t, "language")
  /\ UNCHANGED <<config, shared, text, style, shown>>

Detection(t) ==
  /\ phase[t] = "detect"
  /\ LET s == NextStyle(preference, latest, Detect(text[t][1]))
     IN /\ latest' = <<s>>
        /\ style' = [style EXCEPT ![t] = <<s>>]
  /\ Chat(t)
  /\ UNCHANGED <<config, history, audit, text>>

\* The model raises, fails, or answers nothing.
NotAnswered(t) ==
  /\ phase[t] = "chat"
  /\ End(t, "ai")
  /\ UNCHANGED <<config, shared, text, style, shown>>

Answered(t) ==
  /\ phase[t] = "chat"
  /\ Remember(t)
  /\ IF kind = "service" THEN Await(t, "synthesize") ELSE End(t, "complete")
  /\ UNCHANGED <<config, latest, audit, text, style, shown>>

Synthesized(t) ==
  /\ phase[t] = "synthesize"
  /\ \E o \in {"tts", "complete"} : End(t, o)
  /\ UNCHANGED <<config, shared, text, style, shown>>

-----------------------------------------------------------------------------
(* The brains of a voice session.                                          *)

Respond(t) ==
  /\ kind = "chat"
  /\ phase[t] = "new"
  /\ Chat(t)
  /\ UNCHANGED <<config, shared, text, style>>

Dispatch(t) ==
  /\ kind = "task"
  /\ phase[t] = "new"
  /\ Await(t, "execute")
  /\ UNCHANGED <<config, shared, text, style, shown>>

\* The orchestrator returns a result, which is audited.
Executed(t) ==
  /\ phase[t] = "execute"
  /\ audit' = Append(audit, t)
  /\ \E o \in {"ai", "complete"} : End(t, o)
  /\ UNCHANGED <<config, latest, history, text, style, shown>>

\* The time limit of the caller cancels the await.
TimesOut(t) ==
  /\ phase[t] \in Awaited
  /\ End(t, "cancelled")
  /\ UNCHANGED <<config, shared, text, style, shown>>

ConversationNext ==
  \E t \in Turns :
    \/ Handle(t) \/ NotTranscribed(t) \/ Transcribed(t)
    \/ NotDetected(t) \/ Detection(t) \/ NotAnswered(t) \/ Answered(t)
    \/ Synthesized(t) \/ Respond(t) \/ Dispatch(t) \/ Executed(t) \/ TimesOut(t)

ConversationSpec == ConversationInit /\ [][ConversationNext]_conversationVars

-----------------------------------------------------------------------------
(* Properties.                                                             *)

\* Messages stand in pairs of a question and its answer, none twice.  The
\* first may have lost its question to an odd bound.
Paired(h) ==
  /\ \A i \in 1..Len(h) :
       IF h[i].role = "user"
       THEN i < Len(h) /\ h[i + 1] = [h[i] EXCEPT !.role = "assistant"]
       ELSE i > 1 => h[i - 1] = [h[i] EXCEPT !.role = "user"]
  /\ \A i, j \in 1..Len(h) : h[i] = h[j] => i = j

\* However the turns interleave, the model is shown whole exchanges: no
\* question without its answer, no answer under the question of another turn.
ModelSeesExchanges ==
  \A t \in Turns : shown[t] # <<>> => Paired(shown[t][1])

\* The turns the model has answered.
HasAnswer(t) ==
  \/ phase[t] = "synthesize"
  \/ outcome[t] \in {"tts", "complete"} /\ kind # "task"
Answering == {t \in Turns : HasAnswer(t)}

\* The turns whose answer the history holds.
Remembering ==
  {t \in Turns : \E i \in 1..Len(history) :
                   history[i] = [role |-> "assistant", turn |-> t]}

\* An answer is remembered, also one that was never spoken, and a turn that
\* failed before leaves no trace; a brain keeps as many as its bound lets it.
\* A turn that was cancelled may have been answered or not.
HistoryIsAnswered ==
  /\ Remembering \subseteq Answering \cup {t \in Turns : outcome[t] = "cancelled"}
  /\ IF bound = <<>> THEN Answering \subseteq Remembering
     ELSE Len(history) = IF 2 * Cardinality(Answering) < bound[1]
                         THEN 2 * Cardinality(Answering) ELSE bound[1]

\* What of a language is heard in a text.
Evidence(x, label) ==
  CASE label = "hindi" -> x.devanagari > 0
    [] label = "urdu" -> x.arabic > 0
    [] label = "english" -> x.english > 0
    [] label = "hinglish" -> x.hinglish > 0
    [] label = "mixed" -> \E s \in {x.devanagari, x.arabic} : 0 < s /\ s < Letters(x)
    [] OTHER -> TRUE

\* Without a preference nobody is answered in a language that no turn so far
\* has spoken; with one, everybody is answered in it.
AnsweredInLanguage ==
  \A t \in Turns : style[t] # <<>> =>
    IF preference # <<>> THEN style[t][1].label = preference[1]
    ELSE \E u \in Turns :
           style[u] # <<>> /\ Evidence(text[u][1], style[t][1].label)
=============================================================================
