----------------------------- MODULE MCPipeCopy -----------------------------
(* The small instance of PipeCopy: what the bytes of the files can spell.  *)
EXTENDS PipeCopy

(* The second file is announced, a block of one byte, and the end.         *)
SomeSpelled == {Msg("info", 2, 2), Msg("data", 0, 1), Msg("done", 0, 0)}
=============================================================================
