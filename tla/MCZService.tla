----------------------------- MODULE MCZService -----------------------------
(* Small instances of ZService for TLC. *)
EXTENDS ZService

\* A message of one frame, one of three, one of one.
ThreeMessages == <<FALSE, TRUE, TRUE, FALSE, FALSE>>
=============================================================================
