--------------------------- MODULE MCCommandQueue ---------------------------
(* Small instances of CommandQueue: the bound of the firmware is 4 commands  *)
(* a poll; one command more than that is a burst.  The last command is       *)
(* large: with the one before it, its answer is longer than the body.        *)
EXTENDS CommandQueue

OneRefused == {2}
OneLarge   == <<1, 1, 2, 3>>
=============================================================================
