-------------------------- MODULE MCVoiceAssistant --------------------------
(***************************************************************************)
(* VoiceAssistant with two turns: an ordinary one, and one that follows a  *)
(* barge-in.                                                               *)
(***************************************************************************)
EXTENDS VoiceAssistant
=============================================================================
