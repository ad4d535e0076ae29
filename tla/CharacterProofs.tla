-------------------------- MODULE CharacterProofs ---------------------------
(***************************************************************************)
(* What holds of the conversation and of the character that shows it, for  *)
(* any number of turns, any bound of the history, and any gestures and     *)
(* speeches.                                                               *)
(***************************************************************************)
EXTENDS VoiceConversation, AvatarController, SequenceFilterProofs, TLAPS

(***************************************************************************)
(* The conversation.  What a turn remembers, and in which language it is   *)
(* answered, for any number of turns and any bound of the history.         *)
(***************************************************************************)
HistoryMessage == [role : {"user", "assistant"}, turn : Turns]

\* What the phases of a turn say of the conversation it belongs to.
PhaseInv ==
  /\ ConversationTypeOK
  /\ text = [t \in Turns |-> text[t]]
  /\ style = [t \in Turns |-> style[t]]
  /\ shown = [t \in Turns |-> shown[t]]
  /\ kind \in {"service", "chat", "task"}
  /\ bound \in {<<>>} \cup {<<n>> : n \in Bounds}
  /\ bound # <<>> => kind = "chat"
  /\ \A t \in Turns :
       /\ phase[t] \in {"transcribe", "detect", "synthesize"} => kind = "service"
       /\ phase[t] = "execute" => kind = "task"
       /\ phase[t] = "chat" => kind # "task"

\* Only a turn that has answered, or ended after it did, is in the history.
HistoryInv ==
  /\ Paired(history)
  /\ \A i \in 1..Len(history) : phase[history[i].turn] \in {"synthesize", "over"}
  /\ ModelSeesExchanges
  /\ IsFiniteSet(Answering)
  /\ HistoryIsAnswered

\* A label that somebody spoke.
Voiced(label) ==
  \E u \in Turns : style[u] # <<>> /\ Evidence(text[u][1], label)

\* A style is the explicit one, or that of a label somebody spoke; who has one
\* was heard, and is heard no more.
StyleInv ==
  /\ \A t \in Turns :
       /\ phase[t] \in {"new", "transcribe", "detect"} => style[t] = <<>>
       /\ phase[t] = "detect" => text[t] \in {<<x>> : x \in Heard}
  /\ latest # <<>> => IF preference # <<>> THEN latest[1].label = preference[1]
                      ELSE Voiced(latest[1].label)
  /\ AnsweredInLanguage

ConversationInv == PhaseInv /\ HistoryInv /\ StyleInv

-----------------------------------------------------------------------------
(* Phases.                                                                 *)

\* A turn moves from one await to another, or ends.
Moves(t) ==
  \/ \E p \in Awaited : Await(t, p)
  \/ \E o \in Outcomes : End(t, o)

LEMMA MovesTypes ==
  ASSUME PhaseInv, NEW t \in Turns, Moves(t)
  PROVE  /\ phase' \in [Turns -> {"new", "over"} \cup Awaited]
         /\ outcome' \in [Turns -> {"none"} \cup Outcomes]
         /\ \A u \in Turns \ {t} : phase'[u] = phase[u] /\ outcome'[u] = outcome[u]
         /\ (phase[t] # "over") => \A u \in Turns : (phase'[u] = "over") = (outcome'[u] # "none")
  BY DEF PhaseInv, ConversationTypeOK, Moves, Await, End, Awaited, Outcomes

\* The history after an answer: k messages dropped, two added.
LEMMA Remembered ==
  ASSUME PhaseInv, NEW t \in Turns, Remember(t)
  PROVE  /\ history' \in Seq(HistoryMessage)
         /\ Len(history') = IF bound = <<>> \/ Len(history) + 2 < bound[1]
                            THEN Len(history) + 2 ELSE bound[1]
         /\ \E k \in 0..Len(history) :
              /\ Len(history') = Len(history) + 2 - k
              /\ bound = <<>> => k = 0
              /\ \A i \in 1..Len(history') :
                   history'[i] =
                     IF i + k <= Len(history) THEN history[i + k]
                     ELSE [role |-> IF i + k = Len(history) + 1
                                    THEN "user" ELSE "assistant", turn |-> t]
<1> DEFINE h == history \o Exchange(t)
           n == IF bound = <<>> \/ Len(h) < bound[1] THEN Len(h) ELSE bound[1]
           k == Len(h) - n
<1>1. history \in Seq(HistoryMessage) /\ Len(history) \in Nat
  BY DEF PhaseInv, ConversationTypeOK, HistoryMessage
<1>2. Exchange(t) \in Seq(HistoryMessage) /\ Len(Exchange(t)) = 2
  BY DEF Exchange, HistoryMessage
<1>3. h \in Seq(HistoryMessage) /\ Len(h) = Len(history) + 2
  <2>1. h \in Seq(HistoryMessage) /\ Len(h) = Len(history) + Len(Exchange(t))
    BY <1>1, <1>2, ConcatProperties
  <2> QED  BY <1>2, <2>1
<1>4. \A i \in 1..Len(h) : h[i] = IF i <= Len(history) THEN history[i]
                                  ELSE Exchange(t)[i - Len(history)]
  BY <1>1, <1>2, ConcatProperties
<1>5. bound # <<>> => bound[1] \in Nat /\ bound[1] >= 2
  BY ConversationAssumption DEF PhaseInv
<1>6. n \in Nat /\ 2 <= n /\ n <= Len(h) /\ k \in 0..Len(history)
  BY <1>1, <1>3, <1>5
<1>7. history' = SubSeq(h, Len(h) - n + 1, Len(h))
  BY DEF Remember
<1>8. /\ n = IF bound = <<>> \/ Len(history) + 2 < bound[1]
             THEN Len(history) + 2 ELSE bound[1]
      /\ bound = <<>> => k = 0
  BY <1>1, <1>3
<1>9. k = Len(history) + 2 - n
  BY <1>1, <1>3, <1>6
<1> HIDE DEF h, n, k
<1>10. /\ history' \in Seq(HistoryMessage) /\ Len(history') = n
       /\ \A i \in 1..n : history'[i] = h[i + k]
  <2>1. \A i \in (Len(h) - n + 1)..Len(h) : h[i] \in HistoryMessage
    BY <1>1, <1>3, <1>6
  <2>2. /\ history' = [i \in 1..n |-> h[i + k]]
        /\ history' \in Seq(HistoryMessage)
    BY <1>1, <1>3, <1>6, <1>7, <1>9
  <2> QED  BY <1>6, <2>2
<1>11. ASSUME NEW i \in 1..n
       PROVE  history'[i] =
                IF i + k <= Len(history) THEN history[i + k]
                ELSE [role |-> IF i + k = Len(history) + 1
                               THEN "user" ELSE "assistant", turn |-> t]
  <2>1. i + k \in 1..Len(h)
    BY <1>1, <1>3, <1>6, <1>9
  <2>2. history'[i] = IF i + k <= Len(history) THEN history[i + k]
                      ELSE Exchange(t)[(i + k) - Len(history)]
    <3>1. h[i + k] = IF i + k <= Len(history) THEN history[i + k]
                     ELSE Exchange(t)[(i + k) - Len(history)]
      BY <1>4, <2>1
    <3>2. history'[i] = h[i + k]
      BY <1>10
    <3> QED  BY <3>1, <3>2
  <2>3. i + k <= Len(history) \/ i + k = Len(history) + 1 \/ i + k = Len(history) + 2
    BY <1>1, <1>3, <2>1
  <2>4. CASE i + k <= Len(history)
    BY <2>2, <2>4
  <2>5. CASE i + k = Len(history) + 1
    <3>1. (i + k) - Len(history) = 1 /\ ~ (i + k <= Len(history))
      BY <1>1, <2>1, <2>5
    <3> QED  BY <2>2, <2>5, <3>1 DEF Exchange
  <2>6. CASE i + k = Len(history) + 2
    <3>1. /\ (i + k) - Len(history) = 2 /\ ~ (i + k <= Len(history))
          /\ i + k # Len(history) + 1
      BY <1>1, <2>1, <2>6
    <3> QED  BY <2>2, <3>1 DEF Exchange
  <2> QED  BY <2>3, <2>4, <2>5, <2>6
<1>12. Len(history') = Len(history) + 2 - k
  BY <1>1, <1>3, <1>6, <1>9, <1>10
<1>13. \E j \in 0..Len(history) :
         /\ Len(history') = Len(history) + 2 - j
         /\ bound = <<>> => j = 0
         /\ \A i \in 1..Len(history') :
              history'[i] =
                IF i + j <= Len(history) THEN history[i + j]
                ELSE [role |-> IF i + j = Len(history) + 1
                               THEN "user" ELSE "assistant", turn |-> t]
  BY <1>6, <1>8, <1>10, <1>11, <1>12
<1> QED  BY <1>8, <1>10, <1>13

LEMMA PhaseStep ==
  ASSUME PhaseInv, NEW t \in Turns,
         \/ Handle(t) \/ NotTranscribed(t) \/ Transcribed(t)
         \/ NotDetected(t) \/ Detection(t) \/ NotAnswered(t) \/ Answered(t)
         \/ Synthesized(t) \/ Respond(t) \/ Dispatch(t) \/ Executed(t) \/ TimesOut(t)
  PROVE  PhaseInv'
<1>1. Moves(t) /\ phase[t] # "over"
  BY DEF Handle, NotTranscribed, Transcribed, NotDetected, Detection, NotAnswered,
    Answered, Synthesized, Respond, Dispatch, Executed, TimesOut, Chat, Moves,
    Awaited, Outcomes
<1>2. UNCHANGED <<kind, bound>>
  BY DEF Handle, NotTranscribed, Transcribed, NotDetected, Detection, NotAnswered,
    Answered, Synthesized, Respond, Dispatch, Executed, TimesOut, config
<1>3. /\ phase'[t] \in {"transcribe", "detect", "synthesize"} => kind = "service"
      /\ phase'[t] = "execute" => kind = "task"
      /\ phase'[t] = "chat" => kind # "task"
  BY DEF Handle, NotTranscribed, Transcribed, NotDetected, Detection, NotAnswered,
    Answered, Synthesized, Respond, Dispatch, Executed, TimesOut, Chat, Await, End,
    PhaseInv, ConversationTypeOK
<1>4. /\ text' = [u \in Turns |-> text'[u]]
      /\ style' = [u \in Turns |-> style'[u]]
      /\ shown' = [u \in Turns |-> shown'[u]]
  BY DEF Handle, NotTranscribed, Transcribed, NotDetected, Detection, NotAnswered,
    Answered, Synthesized, Respond, Dispatch, Executed, TimesOut, Chat, PhaseInv
<1>5. history' \in Seq(HistoryMessage)
  <2>1. history \in Seq(HistoryMessage)
    BY DEF PhaseInv, ConversationTypeOK, HistoryMessage
  <2>2. UNCHANGED history \/ Remember(t)
    BY DEF Handle, NotTranscribed, Transcribed, NotDetected, Detection, NotAnswered,
      Answered, Synthesized, Respond, Dispatch, Executed, TimesOut, shared
  <2> QED  BY <2>1, <2>2, Remembered
<1>6. ConversationTypeOK'
  BY <1>1, <1>5, MovesTypes DEF ConversationTypeOK, HistoryMessage
<1>7. \A u \in Turns \ {t} : phase'[u] = phase[u]
  BY <1>1, MovesTypes
<1> QED  BY <1>2, <1>3, <1>4, <1>6, <1>7 DEF PhaseInv

-----------------------------------------------------------------------------
(* The history.                                                            *)

\* Dropping messages from the front and adding the exchange of a turn that has
\* none keeps every exchange whole, but perhaps the first.
LEMMA StillPaired ==
  ASSUME NEW h \in Seq(HistoryMessage), Paired(h), NEW t \in Turns,
         \A i \in 1..Len(h) : h[i].turn # t,
         NEW k \in 0..Len(h), NEW g \in Seq(HistoryMessage), Len(g) = Len(h) + 2 - k,
         \A i \in 1..Len(g) :
           g[i] = IF i + k <= Len(h) THEN h[i + k]
                  ELSE [role |-> IF i + k = Len(h) + 1 THEN "user" ELSE "assistant",
                        turn |-> t]
  PROVE  Paired(g)
<1>1. Len(h) \in Nat /\ k \in Nat /\ Len(g) \in Nat
  OBVIOUS
<1> DEFINE L == Len(h)
           N == Len(g)
<1>0. /\ L \in Nat /\ k \in Nat /\ N \in Nat /\ N = (L + 2) - k
      /\ \A i \in 1..N : i \in Nat /\ i > 0
  BY <1>1
<1>2. ASSUME NEW i \in 1..Len(g), i + k <= Len(h)
      PROVE  i + k \in 1..Len(h) /\ g[i] = h[i + k]
  <2>1. g[i] = h[i + k]
    BY <1>2
  <2>2. i \in 1..N /\ i + k <= L
    BY <1>2
  <2> HIDE DEF L, N
  <2>3. i + k \in 1..L
    BY <1>0, <2>2
  <2> QED  BY <2>1, <2>3 DEF L
<1>3. ASSUME NEW i \in 1..Len(g), i + k = Len(h) + 1
      PROVE  g[i] = [role |-> "user", turn |-> t]
  BY <1>1, <1>3
<1>4. ASSUME NEW i \in 1..Len(g), i + k = Len(h) + 2
      PROVE  g[i] = [role |-> "assistant", turn |-> t]
  BY <1>1, <1>4
<1>5. ASSUME NEW i \in 1..Len(g)
      PROVE  i + k <= Len(h) \/ i + k = Len(h) + 1 \/ i + k = Len(h) + 2
  <2> HIDE DEF L
  <2>1. i \in Nat /\ i <= (L + 2) - k
    BY <1>0
  <2>2. i + k <= L \/ i + k = L + 1 \/ i + k = L + 2
    BY <1>0, <2>1
  <2> QED  BY <2>2 DEF L
<1>6. ASSUME NEW i \in 1..Len(g)
      PROVE  IF g[i].role = "user"
             THEN i < Len(g) /\ g[i + 1] = [g[i] EXCEPT !.role = "assistant"]
             ELSE i > 1 => g[i - 1] = [g[i] EXCEPT !.role = "user"]
  <2>1. CASE i + k <= Len(h)
    <3>1. i + k \in 1..Len(h) /\ g[i] = h[i + k]
      BY <1>2, <2>1
    <3>2. CASE g[i].role = "user"
      <4>1. (i + k) < Len(h) /\ h[(i + k) + 1] = [g[i] EXCEPT !.role = "assistant"]
        BY <3>1, <3>2 DEF Paired
      <4>2. (i + 1) \in 1..Len(g) /\ (i + 1) + k <= Len(h) /\ (i + 1) + k = (i + k) + 1
        BY <1>1, <4>1
      <4>3. g[i + 1] = h[(i + k) + 1]
        BY <1>2, <4>2
      <4> QED  BY <1>1, <3>2, <4>1, <4>2, <4>3
    <3>3. CASE g[i].role # "user" /\ i > 1
      <4>0. (i + k) > 1 /\ (i + k) \in 1..Len(h) /\ h[i + k].role # "user"
        BY <1>0, <3>1, <3>3
      <4>1. (i + k) > 1 /\ h[(i + k) - 1] = [g[i] EXCEPT !.role = "user"]
        BY <3>1, <4>0 DEF Paired
      <4>2. (i - 1) \in 1..Len(g) /\ (i - 1) + k <= Len(h) /\ (i - 1) + k = (i + k) - 1
        BY <1>1, <2>1, <3>3
      <4>3. g[i - 1] = h[(i + k) - 1]
        BY <1>2, <4>2
      <4> QED  BY <3>3, <4>1, <4>3
    <3> QED  BY <3>2, <3>3
  <2>2. CASE i + k = Len(h) + 1
    <3>1. (i + 1) \in 1..Len(g) /\ (i + 1) + k = Len(h) + 2 /\ i < Len(g)
      BY <1>0, <2>2
    <3> QED  BY <1>3, <1>4, <2>2, <3>1
  <2>3. CASE i + k = Len(h) + 2
    <3>1. i > 1 => (i - 1) \in 1..Len(g) /\ (i - 1) + k = Len(h) + 1
      BY <1>0, <2>3
    <3>2. g[i] = [role |-> "assistant", turn |-> t]
      BY <1>4, <2>3
    <3>3. i > 1 => g[i - 1] = [role |-> "user", turn |-> t]
      BY <1>3, <3>1
    <3> QED  BY <3>2, <3>3
  <2> QED  BY <1>5, <2>1, <2>2, <2>3
<1>7. ASSUME NEW i \in 1..Len(g), NEW j \in 1..Len(g), g[i] = g[j]
      PROVE  i = j
  <2>1. CASE i + k <= Len(h) /\ j + k <= Len(h)
    <3>1. i + k \in 1..Len(h) /\ j + k \in 1..Len(h) /\ h[i + k] = h[j + k]
      BY <1>2, <1>7, <2>1
    <3>2. i + k = j + k
      BY <3>1 DEF Paired
    <3> QED  BY <1>1, <3>2
  <2>2. CASE i + k <= Len(h) /\ ~ (j + k <= Len(h))
    <3>1. g[i].turn # t
      BY <1>2, <2>2
    <3>2. g[j].turn = t
      BY <1>3, <1>4, <1>5, <2>2
    <3> QED  BY <1>7, <3>1, <3>2
  <2>3. CASE ~ (i + k <= Len(h)) /\ j + k <= Len(h)
    <3>1. g[j].turn # t
      BY <1>2, <2>3
    <3>2. g[i].turn = t
      BY <1>3, <1>4, <1>5, <2>3
    <3> QED  BY <1>7, <3>1, <3>2
  <2>4. CASE ~ (i + k <= Len(h)) /\ ~ (j + k <= Len(h))
    <3>1. g[i].role = "user" <=> i + k = Len(h) + 1
      BY <1>1, <1>3, <1>4, <1>5, <2>4
    <3>2. g[j].role = "user" <=> j + k = Len(h) + 1
      BY <1>1, <1>3, <1>4, <1>5, <2>4
    <3> QED  BY <1>1, <1>5, <1>7, <2>4, <3>1, <3>2
  <2> QED  BY <2>1, <2>2, <2>3, <2>4
<1> QED  BY <1>6, <1>7 DEF Paired

\* A turn that neither reads nor writes the history.
Apart(t) ==
  \/ Handle(t) \/ NotTranscribed(t) \/ Transcribed(t) \/ NotDetected(t)
  \/ NotAnswered(t) \/ Synthesized(t) \/ Dispatch(t) \/ Executed(t) \/ TimesOut(t)

\* A turn that is in the history stays in a phase that lets it be there.
LEMMA ApartHistory ==
  ASSUME PhaseInv, HistoryInv, NEW t \in Turns, Apart(t)
  PROVE  HistoryInv'
<1>1. UNCHANGED <<history, shown, bound, kind>>
  BY DEF Apart, Handle, NotTranscribed, Transcribed, NotDetected, NotAnswered,
    Synthesized, Dispatch, Executed, TimesOut, config, shared
<1>2. Moves(t)
  BY DEF Apart, Handle, NotTranscribed, Transcribed, NotDetected, NotAnswered,
    Synthesized, Dispatch, Executed, TimesOut, Moves, Awaited, Outcomes
<1>3. \A u \in Turns \ {t} : phase'[u] = phase[u] /\ outcome'[u] = outcome[u]
  BY <1>2, MovesTypes
<1>4. phase[t] \in {"synthesize", "over"} => phase'[t] \in {"synthesize", "over"}
  BY DEF Apart, Handle, NotTranscribed, Transcribed, NotDetected, NotAnswered,
    Synthesized, Dispatch, Executed, TimesOut, End, PhaseInv, ConversationTypeOK
<1>5. history \in Seq(HistoryMessage)
  BY DEF PhaseInv, ConversationTypeOK, HistoryMessage
<1>6. \A i \in 1..Len(history) : history[i].turn \in Turns
  <2>1. \A i \in 1..Len(history) : history[i] \in HistoryMessage
    BY <1>5
  <2> QED  BY <2>1 DEF HistoryMessage
<1>7. \A i \in 1..Len(history') : phase'[history'[i].turn] \in {"synthesize", "over"}
  BY <1>1, <1>3, <1>4, <1>6 DEF HistoryInv
<1>8. \/ (HasAnswer(t)' <=> HasAnswer(t))
      \/ ~ HasAnswer(t)' /\ outcome'[t] = "cancelled" /\ bound = <<>>
  <2>1. CASE phase[t] = "synthesize"
    <3>1. HasAnswer(t) /\ kind = "service" /\ bound = <<>>
      BY <2>1 DEF HasAnswer, PhaseInv
    <3>2. phase'[t] = "over" /\ outcome'[t] \in {"tts", "complete", "cancelled"}
      BY <2>1 DEF Apart, Handle, NotTranscribed, Transcribed, NotDetected,
        NotAnswered, Synthesized, Dispatch, Executed, TimesOut, End, PhaseInv, ConversationTypeOK
    <3> QED  BY <1>1, <3>1, <3>2 DEF HasAnswer
  <2>2. CASE phase[t] # "synthesize"
    <3>1. phase[t] # "over"
      BY DEF Apart, Handle, NotTranscribed, Transcribed, NotDetected, NotAnswered,
        Synthesized, Dispatch, Executed, TimesOut, Awaited
    <3>2. ~ HasAnswer(t)
      BY <2>2, <3>1 DEF HasAnswer, PhaseInv, ConversationTypeOK
    <3>3. /\ phase'[t] # "synthesize"
          /\ outcome'[t] \in {"none", "stt", "language", "ai", "cancelled"}
             \/ (outcome'[t] = "complete" /\ kind = "task")
      BY <2>2, <3>1 DEF Apart, Handle, NotTranscribed, Transcribed, NotDetected,
        NotAnswered, Synthesized, Dispatch, Executed, TimesOut, End, Await,
        PhaseInv, ConversationTypeOK
    <3>4. ~ HasAnswer(t)'
      BY <1>1, <3>3 DEF HasAnswer
    <3> QED  BY <3>2, <3>4
  <2> QED  BY <2>1, <2>2
<1>9. \A u \in Turns \ {t} : (HasAnswer(u)' <=> HasAnswer(u))
  BY <1>1, <1>3 DEF HasAnswer
<1>10. Remembering' = Remembering
  BY <1>1 DEF Remembering
<1>11. IsFiniteSet(Answering') /\ HistoryIsAnswered'
  <2>1. CASE (HasAnswer(t)' <=> HasAnswer(t))
    <3>1. Answering' = Answering
      BY <1>9, <2>1 DEF Answering
    <3>2. outcome[t] = "cancelled" => outcome'[t] = "cancelled"
      BY DEF Apart, Handle, NotTranscribed, Transcribed, NotDetected, NotAnswered,
        Synthesized, Dispatch, Executed, TimesOut, Await, End, PhaseInv, ConversationTypeOK,
        Awaited
    <3>3. {u \in Turns : outcome[u] = "cancelled"} \subseteq {u \in Turns : outcome'[u] = "cancelled"}
      BY <1>3, <3>2
    <3> QED  BY <1>1, <1>10, <3>1, <3>3 DEF HistoryInv, HistoryIsAnswered
  <2>2. CASE ~ HasAnswer(t)' /\ outcome'[t] = "cancelled" /\ bound = <<>>
    <3>1. Answering' \subseteq Answering /\ Answering \subseteq Answering' \cup {t}
      BY <1>9, <2>2 DEF Answering
    <3>2. {u \in Turns : outcome[u] = "cancelled"} \cup {t}
            \subseteq {u \in Turns : outcome'[u] = "cancelled"}
      BY <1>3, <2>2
    <3>3. IsFiniteSet(Answering')
      BY <3>1, FS_Subset DEF HistoryInv
    <3> QED  BY <1>1, <1>10, <2>2, <3>1, <3>2, <3>3 DEF HistoryInv, HistoryIsAnswered
  <2> QED  BY <1>8, <2>1, <2>2
<1> QED
  BY <1>1, <1>7, <1>11 DEF HistoryInv, ModelSeesExchanges

\* The model is shown the history as it is.
LEMMA ChatHistory ==
  ASSUME PhaseInv, HistoryInv, NEW t \in Turns, Respond(t) \/ Detection(t)
  PROVE  HistoryInv'
<1>1. Chat(t) /\ UNCHANGED <<history, bound, kind>>
  BY DEF Respond, Detection, config, shared
<1>2. /\ phase[t] \in {"new", "detect"} /\ phase'[t] = "chat"
      /\ \A u \in Turns \ {t} : phase'[u] = phase[u] /\ UNCHANGED outcome
  BY DEF Respond, Detection, Chat, Await, PhaseInv, ConversationTypeOK
<1>3. outcome[t] = "none" /\ UNCHANGED outcome
  BY <1>1, <1>2 DEF Chat, Await, PhaseInv, ConversationTypeOK
<1>4. Answering' = Answering /\ Remembering' = Remembering
  BY <1>1, <1>2, <1>3 DEF Answering, HasAnswer, Remembering
<1>5. \A i \in 1..Len(history) : history[i].turn \in Turns
  <2>1. history \in Seq(HistoryMessage)
    BY DEF PhaseInv, ConversationTypeOK, HistoryMessage
  <2>2. \A i \in 1..Len(history) : history[i] \in HistoryMessage
    BY <2>1
  <2> QED  BY <2>2 DEF HistoryMessage
<1>6. \A i \in 1..Len(history') : phase'[history'[i].turn] \in {"synthesize", "over"}
  BY <1>1, <1>2, <1>5 DEF HistoryInv
<1>7. ModelSeesExchanges'
  <2>1. shown' = [u \in Turns |-> IF u = t THEN <<history>> ELSE shown[u]]
    BY <1>1 DEF Chat, PhaseInv
  <2> QED  BY <2>1 DEF HistoryInv, ModelSeesExchanges
<1> QED
  BY <1>1, <1>3, <1>4, <1>6, <1>7 DEF HistoryInv, HistoryIsAnswered

\* An answer enters the history with its question.
LEMMA AnsweredHistory ==
  ASSUME PhaseInv, HistoryInv, NEW t \in Turns, Answered(t)
  PROVE  HistoryInv'
<1>1. Remember(t) /\ UNCHANGED <<bound, kind, shown>> /\ phase[t] = "chat"
  BY DEF Answered, config
<1>2. /\ phase'[t] \in {"synthesize", "over"}
      /\ phase'[t] = "over" => outcome'[t] = "complete"
      /\ \A u \in Turns \ {t} : phase'[u] = phase[u] /\ outcome'[u] = outcome[u]
      /\ outcome[t] = "none" /\ outcome'[t] # "cancelled"
      /\ kind # "task"
  BY DEF Answered, Await, End, PhaseInv, ConversationTypeOK
<1>3. history \in Seq(HistoryMessage)
  BY DEF PhaseInv, ConversationTypeOK, HistoryMessage
<1>4. \A i \in 1..Len(history) : history[i].turn \in Turns
  <2>1. \A i \in 1..Len(history) : history[i] \in HistoryMessage
    BY <1>3
  <2> QED  BY <2>1 DEF HistoryMessage
<1>5. \A i \in 1..Len(history) : history[i].turn # t
  BY <1>1 DEF HistoryInv
<1>6. PICK k \in 0..Len(history) :
        /\ Len(history') = Len(history) + 2 - k
        /\ bound = <<>> => k = 0
        /\ \A i \in 1..Len(history') :
             history'[i] =
               IF i + k <= Len(history) THEN history[i + k]
               ELSE [role |-> IF i + k = Len(history) + 1
                              THEN "user" ELSE "assistant", turn |-> t]
  BY <1>1, Remembered
<1>7. history' \in Seq(HistoryMessage)
  BY <1>1, Remembered
<1>8. Paired(history')
  BY <1>3, <1>5, <1>6, <1>7, StillPaired DEF HistoryInv
<1>9. ASSUME NEW i \in 1..Len(history')
      PROVE  history'[i].turn = t \/ \E j \in 1..Len(history) : history'[i] = history[j]
  <2>1. CASE i + k <= Len(history)
    <3>1. Len(history) \in Nat /\ Len(history') \in Nat
      BY <1>3, <1>7
    <3>2. i + k \in 1..Len(history)
      BY <2>1, <3>1
    <3>3. history'[i] = history[i + k]
      BY <1>6, <2>1
    <3> QED  BY <3>2, <3>3
  <2>2. CASE ~ (i + k <= Len(history))
    <3>1. history'[i] = [role |-> IF i + k = Len(history) + 1
                                  THEN "user" ELSE "assistant", turn |-> t]
      BY <1>6, <2>2
    <3> QED  BY <3>1
  <2> QED  BY <2>1, <2>2
<1>10. \A i \in 1..Len(history') : phase'[history'[i].turn] \in {"synthesize", "over"}
  BY <1>2, <1>4, <1>5, <1>9 DEF HistoryInv
<1>11. Answering' = Answering \cup {t} /\ t \notin Answering
  BY <1>1, <1>2 DEF Answering, HasAnswer
<1>12. IsFiniteSet(Answering') /\ Cardinality(Answering') = Cardinality(Answering) + 1
  BY <1>11, FS_AddElement DEF HistoryInv
<1>13. Remembering' \subseteq Remembering \cup {t}
  <2> SUFFICES ASSUME NEW u \in Remembering', u # t
               PROVE  u \in Remembering
    OBVIOUS
  <2>1. PICK i \in 1..Len(history') : history'[i] = [role |-> "assistant", turn |-> u]
    BY DEF Remembering
  <2>2. history'[i].turn # t
    BY <2>1
  <2>3. PICK j \in 1..Len(history) : history'[i] = history[j]
    BY <1>9, <2>2
  <2> QED  BY <2>1, <2>3 DEF Remembering
<1>14. bound = <<>> => Remembering \cup {t} \subseteq Remembering'
  <2> SUFFICES ASSUME bound = <<>>, NEW u \in Remembering \cup {t}
               PROVE  u \in Remembering'
    OBVIOUS
  <2>1. k = 0 /\ Len(history') = Len(history) + 2 /\ Len(history) \in Nat
    BY <1>3, <1>6
  <2>2. CASE u \in Remembering
    <3>1. PICK i \in 1..Len(history) : history[i] = [role |-> "assistant", turn |-> u]
      BY <2>2 DEF Remembering
    <3>2. i \in 1..Len(history') /\ i + k = i /\ i <= Len(history)
      BY <2>1
    <3>3. history'[i] = history[i]
      BY <1>6, <3>2
    <3> QED  BY <2>2, <3>1, <3>2, <3>3 DEF Remembering
  <2>3. CASE u = t
    <3> DEFINE i == Len(history) + 2
    <3>1. /\ i \in 1..Len(history') /\ ~ (i + k <= Len(history))
          /\ i + k # Len(history) + 1
      BY <2>1
    <3>2. history'[i] = [role |-> "assistant", turn |-> t]
      BY <1>6, <3>1
    <3> QED  BY <2>3, <3>1, <3>2 DEF Remembering
  <2> QED  BY <2>2, <2>3
<1>15. {u \in Turns : outcome[u] = "cancelled"} \subseteq {u \in Turns : outcome'[u] = "cancelled"}
  BY <1>2
<1>16. bound # <<>> =>
         Len(history') = IF 2 * Cardinality(Answering') < bound[1]
                         THEN 2 * Cardinality(Answering') ELSE bound[1]
  <2> SUFFICES ASSUME bound # <<>>
               PROVE  Len(history') = IF 2 * Cardinality(Answering') < bound[1]
                                      THEN 2 * Cardinality(Answering') ELSE bound[1]
    OBVIOUS
  <2>1. bound[1] \in Nat /\ Cardinality(Answering) \in Nat
    BY ConversationAssumption, FS_CardinalityType DEF PhaseInv, HistoryInv
  <2>2. Len(history) = IF 2 * Cardinality(Answering) < bound[1]
                       THEN 2 * Cardinality(Answering) ELSE bound[1]
    BY DEF HistoryInv, HistoryIsAnswered
  <2>3. Len(history') = IF Len(history) + 2 < bound[1] THEN Len(history) + 2 ELSE bound[1]
    BY <1>1, Remembered
  <2> QED  BY <1>12, <2>1, <2>2, <2>3
<1>17. HistoryIsAnswered'
  BY <1>1, <1>11, <1>13, <1>14, <1>15, <1>16 DEF HistoryInv, HistoryIsAnswered
<1>18. ModelSeesExchanges'
  BY <1>1 DEF HistoryInv, ModelSeesExchanges
<1> QED
  BY <1>8, <1>10, <1>12, <1>17, <1>18 DEF HistoryInv

-----------------------------------------------------------------------------
(* Styles.                                                                 *)

\* A detected label but "unknown" has been heard.
LEMMA DetectedIsHeard ==
  ASSUME NEW x \in [devanagari : Nat, arabic : Nat, latin : Nat,
                    english : Nat, hinglish : Nat]
  PROVE  Evidence(x, Detect(x).label)
<1>1. /\ x.devanagari \in Nat /\ x.arabic \in Nat /\ x.latin \in Nat
      /\ x.english \in Nat /\ x.hinglish \in Nat
  OBVIOUS
<1>2. Evidence(x, LatinOnly(x).label)
  BY <1>1 DEF LatinOnly, Evidence, Unknown, Detected
<1>3. CASE x.devanagari > 0 /\ x.arabic > 0
  BY <1>1, <1>3 DEF Detect, ScriptPair, HasShare, Letters, Evidence, Detected, Mixed
<1>4. CASE x.devanagari > 0 /\ ~ (x.arabic > 0)
  BY <1>1, <1>2, <1>4 DEF Detect, LatinPair, HasShare, Letters, Evidence, Detected, Mixed
<1>5. CASE ~ (x.devanagari > 0) /\ x.arabic > 0
  BY <1>1, <1>2, <1>5 DEF Detect, LatinPair, HasShare, Letters, Evidence, Detected, Mixed
<1>6. CASE ~ (x.devanagari > 0) /\ ~ (x.arabic > 0)
  BY <1>2, <1>6 DEF Detect
<1> QED  BY <1>3, <1>4, <1>5, <1>6

\* Whoever heard a turn that has a style goes on hearing it.
LEMMA SpokenStays ==
  ASSUME NEW label, Voiced(label),
         \A u \in Turns : style[u] # <<>> => style'[u] # <<>> /\ text'[u] = text[u]
  PROVE  Voiced(label)'
  BY DEF Voiced

LEMMA DetectionStyle ==
  ASSUME PhaseInv, StyleInv, NEW t \in Turns, Detection(t)
  PROVE  StyleInv'
<1> DEFINE s == NextStyle(preference, latest, Detect(text[t][1]))
<1>1. PICK l : l = s.label
  OBVIOUS
<1>2. /\ latest' = <<s>> /\ UNCHANGED <<preference, text>> /\ phase[t] = "detect"
      /\ style' = [u \in Turns |-> IF u = t THEN <<s>> ELSE style[u]]
  BY DEF Detection, config, PhaseInv
<1>3. /\ latest'[1].label = l /\ latest' # <<>>
      /\ style'[t][1].label = l /\ style'[t] # <<>>
      /\ \A u \in Turns \ {t} : style'[u] = style[u]
  BY <1>1, <1>2
<1>4. phase' = [u \in Turns |-> IF u = t THEN "chat" ELSE phase[u]]
  BY DEF Detection, Chat, Await, PhaseInv, ConversationTypeOK
<1>5. style[t] = <<>>
  BY <1>2 DEF StyleInv
<1>6. \A u \in Turns : style[u] # <<>> => style'[u] # <<>> /\ text'[u] = text[u]
  BY <1>2, <1>3
<1>7. \A u \in Turns :
        /\ phase'[u] \in {"new", "transcribe", "detect"} => style'[u] = <<>>
        /\ phase'[u] = "detect" => text'[u] \in {<<x>> : x \in Heard}
  BY <1>2, <1>3, <1>4 DEF StyleInv
<1>8. CASE preference # <<>>
  <2>1. l = preference[1]
    BY <1>1, <1>8 DEF NextStyle, Style
  <2>2. AnsweredInLanguage'
    BY <1>2, <1>3, <1>8, <2>1 DEF StyleInv, AnsweredInLanguage
  <2> QED
    BY <1>2, <1>3, <1>7, <1>8, <2>1, <2>2 DEF StyleInv
<1>9. CASE preference = <<>>
  <2>1. Voiced(l)'
    <3>1. CASE l = Detect(text[t][1]).label
      <4>1. text[t][1] \in Heard
        BY <1>2 DEF StyleInv
      <4>2. Evidence(text[t][1], l)
        BY <3>1, <4>1, DetectedIsHeard, ConversationAssumption
      <4> QED  BY <1>2, <1>3, <4>2 DEF Voiced
    <3>2. CASE latest # <<>> /\ s = latest[1]
      <4>1. Voiced(l)
        BY <1>1, <1>9, <3>2 DEF StyleInv
      <4> QED  BY <1>6, <4>1, SpokenStays
    <3>3. CASE Detect(text[t][1]).label = "unknown" /\ latest = <<>>
      BY <1>1, <1>9, <3>1, <3>3 DEF NextStyle, Style
    <3>4. CASE Detect(text[t][1]).label # "unknown"
      BY <1>1, <1>9, <3>1, <3>4 DEF NextStyle, Style
    <3> QED  BY <1>9, <3>2, <3>3, <3>4 DEF NextStyle
  <2>2. ASSUME NEW u \in Turns, style'[u] # <<>>
        PROVE  \E v \in Turns :
                 style'[v] # <<>> /\ Evidence(text'[v][1], style'[u][1].label)
    <3>1. CASE u = t
      BY <1>3, <2>1, <3>1 DEF Voiced
    <3>2. CASE u # t
      <4>1. style'[u] = style[u] /\ style[u] # <<>>
        BY <1>3, <2>2, <3>2
      <4>2. PICK v \in Turns : style[v] # <<>> /\ Evidence(text[v][1], style[u][1].label)
        BY <1>9, <4>1 DEF StyleInv, AnsweredInLanguage
      <4> QED  BY <1>6, <4>1, <4>2
    <3> QED  BY <3>1, <3>2
  <2>3. AnsweredInLanguage'
    BY <1>2, <1>9, <2>2 DEF AnsweredInLanguage
  <2>4. Voiced(latest[1].label)'
    BY <1>3, <2>1 DEF Voiced
  <2> QED
    BY <1>2, <1>7, <1>9, <2>3, <2>4 DEF StyleInv
<1> QED  BY <1>8, <1>9

LEMMA OtherStyle ==
  ASSUME PhaseInv, StyleInv, NEW t \in Turns,
         Apart(t) \/ Respond(t) \/ Answered(t)
  PROVE  StyleInv'
<1>1. UNCHANGED <<preference, latest, style>>
  BY DEF Apart, Handle, NotTranscribed, Transcribed, NotDetected, NotAnswered,
    Synthesized, Dispatch, Executed, TimesOut, Respond, Answered, config, shared
<1>2. /\ \A u \in Turns \ {t} : phase'[u] = phase[u]
      /\ phase'[t] \in {"new", "transcribe", "detect"} =>
           phase[t] \in {"new", "transcribe", "detect"}
  BY DEF Apart, Handle, NotTranscribed, Transcribed, NotDetected, NotAnswered,
    Synthesized, Dispatch, Executed, TimesOut, Respond, Answered, Chat, Await, End,
    PhaseInv, ConversationTypeOK
<1>3. CASE Transcribed(t)
  <2>1. PICK x \in Heard : text' = [text EXCEPT ![t] = <<x>>]
    BY <1>3 DEF Transcribed
  <2>2. text' = [u \in Turns |-> IF u = t THEN <<x>> ELSE text[u]]
    BY <2>1 DEF PhaseInv
  <2>3. phase[t] = "transcribe" /\ style[t] = <<>>
    BY <1>3 DEF Transcribed, StyleInv
  <2>4. \A u \in Turns : style[u] # <<>> => style'[u] # <<>> /\ text'[u] = text[u]
    BY <1>1, <2>2, <2>3
  <2>5. AnsweredInLanguage'
    BY <1>1, <2>4 DEF StyleInv, AnsweredInLanguage
  <2>6. latest' # <<>> => IF preference' # <<>> THEN latest'[1].label = preference'[1]
                          ELSE Voiced(latest[1].label)'
    BY <1>1, <2>4 DEF StyleInv, Voiced
  <2>7. \A u \in Turns :
          /\ phase'[u] \in {"new", "transcribe", "detect"} => style'[u] = <<>>
          /\ phase'[u] = "detect" => text'[u] \in {<<y>> : y \in Heard}
    BY <1>1, <1>2, <2>2 DEF StyleInv
  <2> QED  BY <2>5, <2>6, <2>7 DEF StyleInv
<1>4. CASE ~ Transcribed(t)
  <2>1. UNCHANGED text
    BY <1>4 DEF Apart, Handle, NotTranscribed, NotDetected, NotAnswered,
      Synthesized, Dispatch, Executed, TimesOut, Respond, Answered
  <2>2. phase'[t] # "detect"
    BY <1>4 DEF Apart, Handle, NotTranscribed, NotDetected, NotAnswered,
      Synthesized, Dispatch, Executed, TimesOut, Respond, Answered, Chat, Await,
      End, PhaseInv, ConversationTypeOK
  <2> QED
    BY <1>1, <1>2, <2>1, <2>2 DEF StyleInv, AnsweredInLanguage, Voiced
<1> QED  BY <1>3, <1>4

-----------------------------------------------------------------------------
(* The theorems.                                                           *)

LEMMA ConversationInvariant == ConversationSpec => []ConversationInv
<1>1. ConversationInit => ConversationInv
  <2> SUFFICES ASSUME ConversationInit PROVE ConversationInv
    OBVIOUS
  <2>1. PhaseInv
    BY DEF ConversationInit, PhaseInv, ConversationTypeOK, Awaited
  <2>2. Answering = {} /\ Remembering = {}
    BY DEF ConversationInit, Answering, HasAnswer, Remembering
  <2>3. bound # <<>> => bound[1] \in Nat /\ bound[1] >= 2
    BY <2>1, ConversationAssumption DEF PhaseInv
  <2>4. HistoryInv
    BY <2>2, <2>3, FS_EmptySet DEF ConversationInit, HistoryInv, Paired, ModelSeesExchanges,
      HistoryIsAnswered
  <2>5. StyleInv
    BY DEF ConversationInit, StyleInv, AnsweredInLanguage
  <2> QED  BY <2>1, <2>4, <2>5 DEF ConversationInv
<1>2. ConversationInv /\ [ConversationNext]_conversationVars => ConversationInv'
  <2> SUFFICES ASSUME ConversationInv, [ConversationNext]_conversationVars PROVE ConversationInv'
    OBVIOUS
  <2>1. CASE ConversationNext
    <3>1. PICK t \in Turns :
            \/ Handle(t) \/ NotTranscribed(t) \/ Transcribed(t)
            \/ NotDetected(t) \/ Detection(t) \/ NotAnswered(t) \/ Answered(t)
            \/ Synthesized(t) \/ Respond(t) \/ Dispatch(t) \/ Executed(t) \/ TimesOut(t)
      BY <2>1 DEF ConversationNext
    <3>2. Apart(t) \/ Detection(t) \/ Respond(t) \/ Answered(t)
      BY <3>1 DEF Apart
    <3>3. PhaseInv'
      BY <3>1, PhaseStep DEF ConversationInv
    <3>4. HistoryInv'
      BY <3>2, ApartHistory, ChatHistory, AnsweredHistory DEF ConversationInv
    <3>5. StyleInv'
      BY <3>2, DetectionStyle, OtherStyle DEF ConversationInv
    <3> QED  BY <3>3, <3>4, <3>5 DEF ConversationInv
  <2>2. CASE UNCHANGED conversationVars
    BY <2>2 DEF conversationVars, config, shared, turn, ConversationInv, PhaseInv, ConversationTypeOK,
      HistoryInv, ModelSeesExchanges, HistoryIsAnswered, Remembering, Answering,
      HasAnswer, StyleInv, AnsweredInLanguage, Voiced
  <2> QED  BY <2>1, <2>2
<1> QED  BY <1>1, <1>2, PTL DEF ConversationSpec

\* Turns keep their types, and one is over exactly when it has an outcome.
THEOREM ConversationTypeCorrect == ConversationSpec => []ConversationTypeOK
  BY ConversationInvariant, PTL DEF ConversationInv, PhaseInv

\* However turns interleave and whatever the bound, the model is shown whole
\* exchanges.
THEOREM ExchangesStayWhole == ConversationSpec => []ModelSeesExchanges
  BY ConversationInvariant, PTL DEF ConversationInv, HistoryInv

\* Every answer is remembered and nothing else is, up to the bound.
THEOREM AnswersAreRemembered == ConversationSpec => []HistoryIsAnswered
  BY ConversationInvariant, PTL DEF ConversationInv, HistoryInv

\* Whatever is said, in however many turns at once, nobody is answered in a
\* language nobody spoke.
THEOREM LanguageWasSpoken == ConversationSpec => []AnsweredInLanguage
  BY ConversationInvariant, PTL DEF ConversationInv, StyleInv

\* Whatever the text, the detector's result passes the validators of its type.
THEOREM DetectionIsCoherent ==
  ASSUME NEW x \in [devanagari : Nat, arabic : Nat, latin : Nat,
                    english : Nat, hinglish : Nat]
  PROVE  Coherent(Detect(x))
<1>1. \A l \in Concrete : Coherent(Detected(l))
  BY DEF Coherent, Detected, Concrete, Labels
<1>2. \A l \in Concrete, r \in Concrete : l # r => Coherent(Mixed({l, r}))
  <2> SUFFICES ASSUME NEW l \in Concrete, NEW r \in Concrete, l # r
               PROVE  Coherent(Mixed({l, r}))
    OBVIOUS
  <2>1. Cardinality({l, r}) = 2
    <3>1. IsFiniteSet({l}) /\ Cardinality({l}) = 1
      BY FS_Singleton
    <3>2. Cardinality({l} \cup {r}) = 2
      <4>1. r \notin {l}
        OBVIOUS
      <4>2. Cardinality({l} \cup {r}) = Cardinality({l}) + 1
        BY <3>1, <4>1, FS_AddElement
      <4> QED  BY <3>1, <4>2
    <3>3. {l} \cup {r} = {l, r}
      OBVIOUS
    <3> QED  BY <3>2, <3>3
  <2> QED  BY <2>1 DEF Coherent, Mixed, Labels
<1>3. Coherent(Unknown)
  BY DEF Coherent, Unknown, Labels
<1>4. Coherent(LatinOnly(x))
  BY <1>1, <1>3 DEF LatinOnly, Concrete
<1> QED
  BY <1>1, <1>2, <1>4 DEF Detect, ScriptPair, LatinPair, Concrete

(***************************************************************************)
(* The character.                                                          *)
(***************************************************************************)
Gestures == [active : Kinds \cup {None}, age : Nat, queue : Seq(Kinds)]

Timings == [on : BOOLEAN, age : Nat, length : Nat]

\* The looped pose runs, and never waits: it starts only when nothing runs.
PoseInv ==
  /\ "thinking_pose" \notin Elems(gestures.queue)
  /\ gestures.active = "thinking_pose" => state = "thinking" /\ running

CharacterInv ==
  /\ gestures \in Gestures
  /\ speech \in Timings
  /\ PoseInv
  /\ EndedIsStill
  /\ MouthFollowsSpeech

\* A queue g of which the pose is no part stays one.
Poseless(g) == g \in Gestures /\ "thinking_pose" \notin Elems(g.queue)

LEMMA GesturesAre ==
  ASSUME NEW g \in Gestures
  PROVE  /\ g.active \in Kinds \cup {None} /\ g.age \in Nat /\ g.queue \in Seq(Kinds)
         /\ \A q : [g EXCEPT !.queue = q]
                     = [active |-> g.active, age |-> g.age, queue |-> q]
<1>1. PICK a \in Kinds \cup {None}, i \in Nat, q \in Seq(Kinds) :
        g = [active |-> a, age |-> i, queue |-> q]
  BY DEF Gestures
<1>2. g.active = a /\ g.age = i /\ g.queue = q
  BY <1>1
<1>3. \A r : [g EXCEPT !.queue = r] = [active |-> a, age |-> i, queue |-> r]
  BY <1>1
<1> QED  BY <1>2, <1>3

LEMMA StartKeepsPoseless ==
  ASSUME NEW g, Poseless(g), NEW k \in Kinds, k = "thinking_pose" => g.active = None
  PROVE  /\ Poseless(StartGesture(g, k))
         /\ StartGesture(g, k).active \in {g.active, k}
         /\ Priority[k] > 40 => StartGesture(g, k).active # "thinking_pose"
<1>1. g.active \in Kinds \cup {None} /\ g.age \in Nat /\ g.queue \in Seq(Kinds)
  BY GesturesAre DEF Poseless
<1>2. CASE g.active = None \/ Priority[k] > Priority[g.active]
  <2>1. StartGesture(g, k) = [active |-> k, age |-> 0, queue |-> g.queue]
    BY <1>2 DEF StartGesture
  <2> QED  BY <1>1, <2>1 DEF Poseless, Gestures, Priority
<1>3. CASE ~ (g.active = None \/ Priority[k] > Priority[g.active])
  <2> DEFINE q == Append(g.queue, k)
  <2>1. StartGesture(g, k) = [active |-> g.active, age |-> g.age, queue |-> q]
    BY <1>3, GesturesAre DEF StartGesture, Poseless
  <2>2. k # "thinking_pose"
    BY <1>3
  <2>3. q \in Seq(Kinds) /\ "thinking_pose" \notin Elems(q)
    BY <1>1, <2>2 DEF Elems, Poseless
  <2>4. Priority[k] > 40 => g.active # "thinking_pose"
    BY <1>3 DEF Priority
  <2> HIDE DEF q
  <2> QED  BY <1>1, <2>1, <2>3, <2>4 DEF Poseless, Gestures
<1> QED  BY <1>2, <1>3

LEMMA CancelKeepsPoseless ==
  ASSUME NEW g, Poseless(g), NEW k \in Kinds
  PROVE  /\ Poseless(CancelGesture(g, k))
         /\ CancelGesture(g, k).active \in {g.active, None} \ {k}
<1>1. g.active \in Kinds \cup {None} /\ g.age \in Nat /\ g.queue \in Seq(Kinds)
  BY GesturesAre DEF Poseless
<1>2. /\ Keep(g.queue, Kinds \ {k}) \in Seq(Kinds)
      /\ Elems(Keep(g.queue, Kinds \ {k})) \subseteq Elems(g.queue)
  BY <1>1, KeepElems
<1> QED  BY <1>1, <1>2 DEF CancelGesture, Poseless, Gestures, Kinds, None

LEMMA AdvanceKeepsPoseless ==
  ASSUME NEW g, Poseless(g)
  PROVE  /\ Poseless(Advance(g))
         /\ Advance(g).active = "thinking_pose" => g.active = "thinking_pose"
<1>1. g.active \in Kinds \cup {None} /\ g.age \in Nat /\ g.queue \in Seq(Kinds)
  BY GesturesAre DEF Poseless
<1>2. CASE Advance(g) = g
  BY <1>2
<1>3. CASE Advance(g) = NoGesture
  BY <1>3 DEF NoGesture, None, Poseless, Gestures, Elems
<1>4. CASE /\ g.queue # <<>>
           /\ Advance(g) = [active |-> Head(g.queue), age |-> 0, queue |-> Tail(g.queue)]
  <2>1. Head(g.queue) \in Elems(g.queue) /\ Head(g.queue) \in Kinds
    BY <1>1, <1>4 DEF Elems
  <2>2. Tail(g.queue) \in Seq(Kinds) /\ Elems(Tail(g.queue)) \subseteq Elems(g.queue)
    BY <1>1, <1>4 DEF Elems
  <2> QED  BY <1>4, <2>1, <2>2 DEF Poseless, Gestures
<1> QED  BY <1>2, <1>3, <1>4 DEF Advance

LEMMA SpokenIs ==
  ASSUME NEW l \in Timings
  PROVE  Spoken(l) \in Timings /\ (Spoken(l).on => l.on)
  BY DEF Spoken, Timings, Silence

\* What update() does to gestures and speech.
LEMMA Updated ==
  ASSUME NEW p, NEW g, Poseless(g), NEW l \in Timings, NEW m,
         NEW talking,
         Update(p, g, l, m, talking)
  PROVE  /\ Poseless(gestures')
         /\ gestures'.active = "thinking_pose" => g.active = "thinking_pose"
         /\ speech' \in Timings
         /\ (talking => l.on) => (mouth' => speech'.on)
         /\ movement' = Moved(m)
         /\ movement'.target = <<>> \/ asked' = asked
<1>1. /\ gestures' = Advance(g) /\ speech' = Spoken(l) /\ movement' = Moved(m)
      /\ movement'.target = <<>> \/ asked' = asked
  BY DEF Update, TickLipsync, Recall
<1>2. (talking => l.on) => (mouth' => speech'.on)
  BY DEF Update, TickLipsync
<1> QED  BY <1>1, <1>2, AdvanceKeepsPoseless, SpokenIs

\* Where nothing goes on, update() begins nothing.
LEMMA NothingGoesOn ==
  /\ NoGesture \in Gestures /\ NoGesture.active = None /\ Elems(NoGesture.queue) = {}
  /\ Silence \in Timings
  /\ None # "thinking_pose"
  BY DEF NoGesture, Gestures, Silence, Timings, None, Elems

LEMMA NothingUpdated ==
  ASSUME NEW p, NEW m, Update(p, NoGesture, Silence, m, FALSE)
  PROVE  gestures' = NoGesture /\ speech' = Silence /\ mouth' = FALSE
  BY DEF Update, Advance, Expired, NoGesture, None, Kinds, TickLipsync, Spoken, Silence

\* The clock moves ages only.
LEMMA OlderGesture ==
  ASSUME NEW g \in Gestures, NEW length
  PROVE  /\ Older(g, length) \in Gestures
         /\ Older(g, length).active = g.active /\ Older(g, length).queue = g.queue
<1>1. PICK a \in Kinds \cup {None}, i \in Nat, q \in Seq(Kinds) :
        g = [active |-> a, age |-> i, queue |-> q]
  BY DEF Gestures
<1>2. Older(g, length) \in {g, [active |-> a, age |-> i + 1, queue |-> q]}
  BY <1>1 DEF Older
<1> QED  BY <1>1, <1>2 DEF Gestures

LEMMA OlderTiming ==
  ASSUME NEW l \in Timings, NEW length
  PROVE  Older(l, length) \in Timings /\ Older(l, length).on = l.on
<1>1. PICK o \in BOOLEAN, i \in Nat, n \in Nat : l = [on |-> o, age |-> i, length |-> n]
  BY DEF Timings
<1>2. Older(l, length) \in {l, [on |-> o, age |-> i + 1, length |-> n]}
  BY <1>1 DEF Older
<1> QED  BY <1>1, <1>2 DEF Timings

\* The gestures after the signal: the pose runs only if the signal starts it.
LEMMA GesturedIs ==
  ASSUME CharacterInv, NEW s \in Signals, Accepts(s)
  PROVE  /\ Poseless(Gestured(s))
         /\ Gestured(s).active = "thinking_pose" => s = "thinking"
<1>1. Poseless(gestures)
  BY DEF CharacterInv, PoseInv, Poseless
<1>2. CASE s \in DOMAIN GestureOf
  <2>1. GestureOf[s] \in {"explain", "celebrate", "warning"}
    BY <1>2 DEF GestureOf
  <2>2. GestureOf[s] \in Kinds /\ Priority[GestureOf[s]] > 40 /\ GestureOf[s] # "thinking_pose"
    BY <2>1 DEF Kinds, Priority
  <2>3. Gestured(s) = StartGesture(gestures, GestureOf[s])
    BY <1>2 DEF Gestured
  <2> QED  BY <1>1, <2>2, <2>3, StartKeepsPoseless
<1>3. CASE s = "thinking" /\ gestures.active = None
  <2>1. Gestured(s) = StartGesture(gestures, "thinking_pose")
    BY <1>3 DEF Gestured, GestureOf
  <2> QED  BY <1>1, <1>3, <2>1, StartKeepsPoseless DEF Kinds
<1>4. CASE s \notin DOMAIN GestureOf /\ ~ (s = "thinking" /\ gestures.active = None)
  <2>1. CASE state = "thinking"
    <3>1. Gestured(s) = CancelGesture(gestures, "thinking_pose")
      BY <1>4, <2>1 DEF Gestured
    <3> QED  BY <1>1, <3>1, CancelKeepsPoseless DEF Kinds
  <2>2. CASE state # "thinking"
    <3>1. Gestured(s) = gestures
      BY <1>4, <2>2 DEF Gestured
    <3> QED  BY <1>1, <2>2, <3>1 DEF CharacterInv, PoseInv
  <2> QED  BY <2>1, <2>2
<1> QED  BY <1>2, <1>3, <1>4

\* A signal that is accepted: the pose is stopped or replaced when the state
\* is left, and an interrupt ends all that goes on.
LEMMA HandledIs ==
  ASSUME CharacterInv, NEW s \in Signals, Accepts(s), NEW l \in Timings,
         running, UNCHANGED running, HandleSignal(s, l)
  PROVE  CharacterInv'
<1>1. state' = Target(s) /\ (state' = "interrupted" <=> s = "interrupted")
  BY DEF HandleSignal, Target, Signals
<1>2. CASE s = "interrupted"
  <2>1. Update(SetMode(pose, ModeFor(state')), NoGesture, Silence, Halt(movement), FALSE)
    BY <1>2 DEF HandleSignal, CancelAll
  <2>2. gestures' = NoGesture /\ speech' = Silence /\ mouth' = FALSE
    BY <2>1, NothingUpdated
  <2>3. ~ walking'
    BY <1>2 DEF HandleSignal, Walks
  <2>4. movement'.target = <<>>
    BY <2>1 DEF Update, Halt, StandingAt, Moved
  <2> QED
    BY <2>2, <2>3, <2>4, NothingGoesOn DEF CharacterInv, PoseInv, EndedIsStill,
      MouthFollowsSpeech
<1>3. CASE s # "interrupted"
  <2>1. Update(SetMode(pose, ModeFor(state')), Gestured(s), l, movement, FALSE)
    BY <1>3 DEF HandleSignal
  <2>2. Poseless(Gestured(s)) /\ (Gestured(s).active = "thinking_pose" => s = "thinking")
    BY GesturedIs
  <2>3. /\ Poseless(gestures')
        /\ gestures'.active = "thinking_pose" => s = "thinking"
        /\ speech' \in Timings
        /\ mouth' => speech'.on
    BY <2>1, <2>2, Updated
  <2>4. s = "thinking" => state' = "thinking"
    BY <1>1 DEF Target
  <2> QED
    BY <1>1, <1>3, <2>3, <2>4 DEF CharacterInv, PoseInv, Poseless, EndedIsStill,
      MouthFollowsSpeech
<1> QED  BY <1>2, <1>3

\* What a call that neither signals nor stops leaves of the character.
LEMMA SpeakKeeps ==
  ASSUME CharacterInv, NEW n \in Speeches, Speak(n)
  PROVE  CharacterInv'
<1>1. StartSpeech(n) \in Timings /\ StartSpeech(n).on
  BY PartsAssumption DEF StartSpeech, Timings
<1>2. CASE state = "speaking"
  <2>1. Update(pose, gestures, StartSpeech(n), movement, mouth)
    BY <1>2 DEF Speak
  <2>2. Poseless(gestures)
    BY DEF CharacterInv, PoseInv, Poseless
  <2>3. /\ Poseless(gestures')
        /\ gestures'.active = "thinking_pose" => gestures.active = "thinking_pose"
        /\ speech' \in Timings
        /\ mouth' => speech'.on
    BY <1>1, <2>1, <2>2, Updated
  <2> QED
    BY <1>2, <2>3 DEF Speak, CharacterInv, PoseInv, Poseless, EndedIsStill,
      MouthFollowsSpeech
<1>3. CASE state # "speaking" /\ Accepts("speaking") /\ HandleSignal("speaking", StartSpeech(n))
  BY <1>1, <1>3, HandledIs DEF Speak, Signals
<1> QED  BY <1>2, <1>3 DEF Speak

LEMMA CharacterStep ==
  ASSUME CharacterInv, AvatarNext
  PROVE  CharacterInv'
<1>1. CASE Start
  <2>1. ~ running /\ gestures = NoGesture /\ speech = Silence
    BY <1>1 DEF Start, CharacterInv, EndedIsStill
  <2>2. Update(Pose("idle"), NoGesture, Silence, movement, FALSE)
    BY <1>1, <2>1 DEF Start
  <2>3. gestures' = NoGesture /\ speech' = Silence /\ mouth' = FALSE
    BY <2>2, NothingUpdated
  <2> QED
    BY <1>1, <2>3, NothingGoesOn DEF Start, CharacterInv, PoseInv, EndedIsStill,
      MouthFollowsSpeech
<1>2. CASE Stop
  <2>1. Halt(movement).target = <<>>
    BY DEF Halt, StandingAt
  <2> QED
    BY <1>2, <2>1, NothingGoesOn DEF Stop, CancelAll, CharacterInv, PoseInv,
      EndedIsStill, MouthFollowsSpeech
<1>3. ASSUME NEW s \in Signals, Signal(s)
      PROVE  CharacterInv'
  BY <1>3, HandledIs DEF Signal, CharacterInv
<1>4. ASSUME NEW e \in DOMAIN SignalOf, Apply(e)
      PROVE  CharacterInv'
  <2>1. SignalOf[e] \in Signals
    BY DEF SignalOf, Signals
  <2> QED  BY <1>4, <2>1, <1>3 DEF Apply
<1>5. ASSUME NEW n \in Speeches, Speak(n)
      PROVE  CharacterInv'
  BY <1>5, SpeakKeeps
<1>6. ASSUME NEW p \in Points, WalkTo(p)
      PROVE  CharacterInv'
  BY <1>6 DEF WalkTo, CharacterInv, PoseInv, EndedIsStill, MouthFollowsSpeech
<1>7. CASE Frame
  <2>1. Update(pose, gestures, speech, movement, mouth) /\ UNCHANGED <<running, state, walking>>
    BY <1>7 DEF Frame
  <2>2. Poseless(gestures) /\ speech \in Timings
    BY DEF CharacterInv, PoseInv, Poseless
  <2>3. /\ Poseless(gestures')
        /\ gestures'.active = "thinking_pose" => gestures.active = "thinking_pose"
        /\ speech' \in Timings
        /\ (mouth => speech.on) => (mouth' => speech'.on)
        /\ movement' = Moved(movement)
        /\ movement'.target = <<>> \/ asked' = asked
    BY <2>1, <2>2, Updated
  <2>4. gestures = NoGesture => gestures' = NoGesture
    BY <2>1 DEF Update, Advance, Expired, NoGesture, None, Kinds
  <2>5. speech = Silence => speech' = Silence
    BY <2>1 DEF Update, TickLipsync, Spoken, Silence
  <2>6. movement.target = <<>> => movement'.target = <<>>
    BY <2>3 DEF Moved
  <2> QED
    BY <2>1, <2>3, <2>4, <2>5, <2>6 DEF CharacterInv, PoseInv, Poseless,
      EndedIsStill, MouthFollowsSpeech
<1>8. CASE Pass
  <2>1. UNCHANGED <<running, state, mouth, walking, asked>>
    BY <1>8 DEF Pass
  <2>2. /\ gestures' \in Gestures
        /\ gestures'.active = gestures.active /\ gestures'.queue = gestures.queue
    BY <1>8, OlderGesture DEF Pass, CharacterInv
  <2>3. speech' \in Timings /\ speech'.on = speech.on
    BY <1>8, OlderTiming DEF Pass, CharacterInv
  <2>4. gestures = NoGesture => gestures' = NoGesture
    BY <1>8 DEF Pass, NoGesture, None, Kinds
  <2>5. speech = Silence => speech' = Silence
    BY <1>8 DEF Pass, Silence
  <2>6. movement.target = <<>> => movement'.target = <<>>
    BY <1>8 DEF Pass
  <2> QED
    BY <2>1, <2>2, <2>3, <2>4, <2>5, <2>6 DEF CharacterInv, PoseInv, EndedIsStill,
      MouthFollowsSpeech
<1> QED
  BY <1>1, <1>2, <1>3, <1>4, <1>5, <1>6, <1>7, <1>8 DEF AvatarNext

LEMMA CharacterInvariant == AvatarSpec => []CharacterInv
<1>1. AvatarInit => CharacterInv
  BY DEF AvatarInit, CharacterInv, PoseInv, EndedIsStill, MouthFollowsSpeech, NoGesture, Gestures, Silence, Timings, Elems, StandingAt, None
<1>2. CharacterInv /\ UNCHANGED avatarVars => CharacterInv'
  BY DEF avatarVars, body, CharacterInv, PoseInv, EndedIsStill, MouthFollowsSpeech
<1> QED  BY <1>1, <1>2, CharacterStep, PTL DEF AvatarSpec

\* However signals, events, speech and frames follow each other, the looped
\* thinking pose runs only while the character is in the state that began it:
\* whichever signal leaves that state cancels the pose or starts a gesture of
\* a higher priority, and no queue ever brings it back.
THEOREM PoseEndsWithThinking == AvatarSpec => []PoseOnlyWhileThinking
<1>1. CharacterInv => PoseOnlyWhileThinking
  BY DEF CharacterInv, PoseInv, PoseOnlyWhileThinking
<1> QED  BY <1>1, CharacterInvariant, PTL

\* After an interrupt or a stop no gesture, no speech and no walk is left,
\* whatever was under way and whatever was queued, and no movement but one
\* asked for after the interrupt.
THEOREM InterruptEndsAll == AvatarSpec => []EndedIsStill
  BY CharacterInvariant, PTL DEF CharacterInv

\* Lip-sync gives the mouth back: outside the speaking state the mouth moves
\* only with a speech that is still timed.
THEOREM MouthIsGivenBack == AvatarSpec => []MouthFollowsSpeech
  BY CharacterInvariant, PTL DEF CharacterInv
=============================================================================
