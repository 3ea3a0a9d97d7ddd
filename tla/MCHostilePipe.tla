--------------------------- MODULE MCHostilePipe ---------------------------
(* Rules one by one, and the pair whose lengths do not divide: duplicates  *)
(* in a window of three.                                                   *)
EXTENDS HostilePipe, TLC

mcRules == { Honest, [Honest EXCEPT !.drop = TRUE], [Honest EXCEPT !.corrupt = TRUE],
             [Honest EXCEPT !.window = 2],
             [Honest EXCEPT !.duplicate = TRUE, !.window = 3] }
=============================================================================
