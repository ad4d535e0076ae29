------------------------- MODULE MCAvatarController -------------------------
(***************************************************************************)
(* The avatar with gestures of one or two ticks, a speech of one tick and  *)
(* one that never ends, a path of two ticks and up to two gestures that    *)
(* wait.                                                                   *)
(***************************************************************************)
EXTENDS AvatarController
MCDuration == [explain |-> 2, celebrate |-> 1, warning |-> 1, thinking_pose |-> 1]
MCPoints == {0, 2}
=============================================================================
