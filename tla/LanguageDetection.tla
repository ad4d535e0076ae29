------------------------- MODULE LanguageDetection -------------------------
(***************************************************************************)
(* The language of a message: what LocalLanguageDetector makes of it, when *)
(* a detection is coherent, and the style ConversationLanguage derives.    *)
(*                                                                         *)
(* A text is the number of its letters of each script and of its words in  *)
(* each vocabulary.  Confidences are reduced to whether there is one.      *)
(***************************************************************************)
EXTENDS Integers, FiniteSets

Concrete == {"english", "hindi", "hinglish", "urdu"}
Labels == Concrete \cup {"mixed", "unknown"}

Texts(n) ==
  [devanagari : 0..n, arabic : 0..n, latin : 0..n, english : 0..n, hinglish : 0..n]

Detected(label) ==
  [label |-> label, languages |-> {label}, mixed |-> FALSE, sure |-> TRUE]
Mixed(languages) ==
  [label |-> "mixed", languages |-> languages, mixed |-> TRUE, sure |-> TRUE]
Unknown == [label |-> "unknown", languages |-> {}, mixed |-> FALSE, sure |-> FALSE]

\* _validate_coherence
Coherent(d) ==
  /\ d.label \in Labels
  /\ IF d.label = "unknown" THEN d = Unknown
       ELSE /\ d.languages \subseteq Concrete
            /\ d.label = "mixed" => d.mixed
            /\ d.mixed => Cardinality(d.languages) >= 2
            /\ d.label # "mixed" /\ d.languages # {} => d.label \in d.languages

-----------------------------------------------------------------------------
(* LocalLanguageDetector.                                                  *)

Letters(t) == t.devanagari + t.arabic + t.latin

\* A share of the letters, in percent.
HasShare(n, t, percent) == 100 * n >= percent * Letters(t)

\* Mutant: a text without a known word is English.
LatinOnlyGuessing(t) ==
  IF t.latin = 0 THEN Unknown
  ELSE IF \/ t.hinglish > t.english
          \/ t.hinglish >= 2 /\ 2 * t.hinglish >= t.english
    THEN Detected("hinglish")
  ELSE Detected("english")

\* _latin_only
LatinOnly(t) ==
  IF t.latin = 0 \/ (t.english = 0 /\ t.hinglish = 0) THEN Unknown
  ELSE IF \/ t.hinglish > t.english
          \/ t.hinglish >= 2 /\ 2 * t.hinglish >= t.english
    THEN Detected("hinglish")
  ELSE Detected("english")

\* _script_pair
ScriptPair(t) ==
  IF HasShare(t.devanagari, t, 25) /\ HasShare(t.arabic, t, 25)
    THEN Mixed({"hindi", "urdu"})
  ELSE Detected(IF t.devanagari >= t.arabic THEN "hindi" ELSE "urdu")

\* _dev_latin_pair and _ara_latin_pair, for n letters of the language's script.
LatinPair(t, n, language) ==
  IF HasShare(n, t, 30) /\ HasShare(t.latin, t, 30) THEN Mixed({language, "english"})
  ELSE IF HasShare(n, t, 30) /\ n >= t.latin THEN Detected(language)
  ELSE LatinOnly(t)

\* LocalLanguageDetector.detect
Detect(t) ==
  IF t.devanagari > 0 /\ t.arabic > 0 THEN ScriptPair(t)
  ELSE IF t.devanagari > 0
    THEN IF t.latin > 0 THEN LatinPair(t, t.devanagari, "hindi") ELSE Detected("hindi")
  ELSE IF t.arabic > 0
    THEN IF t.latin > 0 THEN LatinPair(t, t.arabic, "urdu") ELSE Detected("urdu")
  ELSE LatinOnly(t)

-----------------------------------------------------------------------------
(* The style of a conversation.                                            *)

Style(label, explicit) ==
  [label |-> label, explicit |-> explicit,
   preserveMixed |-> label = "hinglish" \/ (label = "mixed" /\ ~ explicit)]

\* ConversationLanguage.update, with <<>> for no preference and no style yet.
NextStyle(preference, latest, d) ==
  IF preference # <<>> THEN Style(preference[1], TRUE)
  ELSE IF d.label = "unknown"
    THEN IF latest # <<>> THEN latest[1] ELSE Style("unknown", FALSE)
  ELSE Style(d.label, FALSE)
=============================================================================
