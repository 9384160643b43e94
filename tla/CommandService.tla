--------------------------- MODULE CommandService ---------------------------
(***************************************************************************)
(* What the command queue promises to its users, and no more: a command is *)
(* taken by the device at most once, together with all that wait, and only *)
(* when nothing taken before is still to be run; it is run at most once,   *)
(* and what is told of it is what running it gave.  It may be lost at any  *)
(* moment before it is run, without a word.                                *)
(***************************************************************************)
CONSTANTS Command, Result, None

VARIABLES
  stage,    \* how far each command is
  outcome,  \* what running it gave
  told      \* what its user was told

vars == <<stage, outcome, told>>

In(s) == {c \in Command : stage[c] = s}

Move(S, s) == stage' = [c \in Command |-> IF c \in S THEN s ELSE stage[c]]

Init ==
  /\ stage = [c \in Command |-> "absent"]
  /\ outcome = [c \in Command |-> None] /\ told = [c \in Command |-> None]

Submit(c) == stage[c] = "absent" /\ Move({c}, "waiting") /\ UNCHANGED <<outcome, told>>

Take == In("taken") = {} /\ Move(In("waiting"), "taken") /\ UNCHANGED <<outcome, told>>

Execute(c) ==
  /\ stage[c] = "taken" /\ Move({c}, "run")
  /\ \E r \in Result : outcome' = [outcome EXCEPT ![c] = r]
  /\ UNCHANGED told

Tell(c) ==
  /\ stage[c] = "run" /\ told' = [told EXCEPT ![c] = outcome[c]]
  /\ UNCHANGED <<stage, outcome>>

Lose(S) == Move(S, "lost") /\ UNCHANGED <<outcome, told>>

Next ==
  \/ Take
  \/ \E c \in Command : Submit(c) \/ Execute(c) \/ Tell(c)
  \/ \E S \in SUBSET (In("waiting") \cup In("taken")) : Lose(S)

Spec == Init /\ [][Next]_vars
=============================================================================
