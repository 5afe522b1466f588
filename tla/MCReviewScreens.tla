-------------------------- MODULE MCReviewScreens --------------------------
(***************************************************************************)
(* Every review of every length the app can start, with the sizes of the   *)
(* code: the texts of messages are shorter than, as long as and longer     *)
(* than what a slot of the touch screen takes.                             *)
(***************************************************************************)
EXTENDS ReviewScreens

MCLengths == {0, 10, TEXT_BUFFER_LENGTH - 1, TEXT_BUFFER_LENGTH, 60}
=============================================================================
