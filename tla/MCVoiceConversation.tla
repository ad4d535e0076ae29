------------------------ MODULE MCVoiceConversation ------------------------
(***************************************************************************)
(* Three turns of a conversation, in Hindi, in English with some Hindi, in *)
(* no known language and in all scripts at once; brains that keep an even  *)
(* and an odd number of messages.                                          *)
(***************************************************************************)
EXTENDS VoiceConversation, TLC

Text(d, a, l, e, h) ==
  [devanagari |-> d, arabic |-> a, latin |-> l, english |-> e, hinglish |-> h]

MCHeard == {Text(2, 0, 0, 0, 0), Text(1, 0, 4, 1, 0), Text(0, 0, 3, 0, 0), Text(0, 1, 1, 0, 2)}

\* Texts of up to four letters of a script and four known words: whatever the
\* detector answers passes the validators of its result.
ASSUME DetectionsAreCoherent == \A x \in Texts(4) : Coherent(Detect(x))

Symmetry == Permutations(Turns)
=============================================================================
