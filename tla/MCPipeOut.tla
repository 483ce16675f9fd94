----------------------------- MODULE MCPipeOut -----------------------------
(* Small instances of PipeOut for TLC. *)
EXTENDS PipeOut

\* Three lines, the second one longer than a line may be, and one without end.
ThreeLines == <<"char", "nl", "char", "char", "char", "char", "nl", "nl", "char">>

\* A writer that writes whole lines, one or several at once.
WholeLines == {2, 7, 8}

\* A writer that may stop in the middle of a line.
AnyWhere == 0..Len(ThreeLines)
=============================================================================
