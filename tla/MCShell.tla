------------------------------- MODULE MCShell -------------------------------
(* Two clicks wait in each queue, so that an action and its opposite meet in *)
(* one frame, from one queue or from both.                                   *)
EXTENDS Shell
=============================================================================
