---------------------------- MODULE CommandQueue ----------------------------
(***************************************************************************)
(* The command queue of one device: the web application inserts rows       *)
(* (backend/internal/commands.go), the device polls for them every five    *)
(* seconds, runs what the answer holds and reports each outcome            *)
(* (check_settings_commands() in src/connectivity_manager.cpp).  Each of   *)
(* the three exchanges is an HTTP request that may be lost on its way out  *)
(* or back, and the device may reset between any two steps.                *)
(***************************************************************************)
EXTENDS Integers, FiniteSets, FiniteSetsExt

CONSTANTS
  N,           \* commands the users insert
  Refused,     \* the commands apply_settings_command() refuses
  MaxPerPoll,  \* commands run per poll: 4
  Size,        \* the bytes a command takes in the answer: its row and its payload
  BodyCap,     \* the bytes the device reads of an answer: 2047
  MaxFaults    \* losses, resets and allocation failures, in all

Command == 1 .. N

ASSUME QueueAssumption ==
  /\ N \in Nat \ {0} /\ MaxPerPoll \in Nat \ {0} /\ BodyCap \in Nat /\ MaxFaults \in Nat
  /\ Refused \subseteq Command
  /\ Size \in [Command -> Nat]

VARIABLES
  row,     \* device_commands: the status of each row, "absent" before its INSERT
  phase,   \* where the device is in check_settings_commands()
  todo,    \* the commands of the answer that are still to be run
  left,    \* how many of them the loop may still take
  posts,   \* results on their way to the backend
  faults,  \* faults so far
  result,  \* history: what running each command gave, "none" before
  times,   \* history: how often each command was run
  older    \* history: the commands claimed before each one was

vars == <<row, phase, todo, left, posts, faults, result, times, older>>

Pending == {c \in Command : row[c] = "pending"}
Claimed == {c \in Command : row[c] \notin {"absent", "pending"}}

Init ==
  /\ row = [c \in Command |-> "absent"]
  /\ phase = "idle" /\ todo = {} /\ left = 0
  /\ posts = {} /\ faults = 0
  /\ result = [c \in Command |-> "none"]
  /\ times = [c \in Command |-> 0]
  /\ older = [c \in Command |-> {}]

Fault == faults < MaxFaults /\ faults' = faults + 1

-----------------------------------------------------------------------------
(* The backend.                                                             *)

\* CreateCommand: the ids grow.
CreateCommand ==
  /\ \E c \in Command :
        /\ row[c] = "absent" /\ \A d \in 1 .. c - 1 : row[d] # "absent"
        /\ row' = [row EXCEPT ![c] = "pending"]
  /\ UNCHANGED <<phase, todo, left, posts, faults, result, times, older>>

\* Mutant: the rows are read and not updated.
SelectPending ==
  /\ row' = row
  /\ older' = [c \in Command |-> IF c \in Pending THEN Claimed ELSE older[c]]

\* The claiming statement of GetPendingCommands: one UPDATE of every pending row.
ClaimPending ==
  /\ row' = [c \in Command |-> IF c \in Pending THEN "claimed" ELSE row[c]]
  /\ older' = [c \in Command |-> IF c \in Pending THEN Claimed ELSE older[c]]

\* Mutant: an answer with the whole queue.
GetAllCommands ==
  /\ phase = "asked"
  /\ ClaimPending
  /\ todo' = Pending \cup Claimed
  /\ phase' = "answered"
  /\ UNCHANGED <<left, posts, faults, result, times>>

\* RETURNING gives the rows in no order: the answer is a set.
GetPendingCommands ==
  /\ phase = "asked"
  /\ ClaimPending
  /\ todo' = Pending
  /\ phase' = "answered"
  /\ UNCHANGED <<left, posts, faults, result, times>>

\* The same statement for nobody who runs the commands: the owner's own request (a user
\* token is accepted too), or a device's request that arrives after it stopped waiting.
StrayClaim ==
  /\ Fault /\ Pending # {}
  /\ ClaimPending
  /\ UNCHANGED <<phase, todo, left, posts, result, times>>

\* UpdateCommandResult: by id, whatever the row's status.  When its answer is lost, backend_post()
\* sends the POST again.
UpdateCommandResult ==
  /\ \E p \in posts : /\ row' = [row EXCEPT ![p.id] = p.status]
                      /\ \/ posts' = posts \ {p} /\ UNCHANGED faults
                         \/ posts' = posts /\ Fault
  /\ UNCHANGED <<phase, todo, left, result, times, older>>

-----------------------------------------------------------------------------
(* The device: check_settings_commands().                                   *)

Poll ==
  /\ phase = "idle"
  /\ phase' = "asked"
  /\ UNCHANGED <<row, todo, left, posts, faults, result, times, older>>

\* The bytes of an answer that holds the commands of S.
BodyLen(S) == MapThenSumSet(LAMBDA c : Size[c], S)

\* An answer longer than the body is cut at its end and does not parse, however few its
\* commands are: they are claimed, the poll ends there, and they are lost.
ReadBody ==
  /\ phase = "answered"
  /\ IF BodyLen(todo) <= BodyCap THEN phase' = "running" /\ UNCHANGED todo
                                     ELSE phase' = "idle" /\ todo' = {}
  /\ left' = MaxPerPoll
  /\ UNCHANGED <<row, posts, faults, result, times, older>>

Outcome(c) == IF c \in Refused THEN "failed" ELSE "applied"

\* Mutant: every command is reported as applied.
RunAsApplied(c) ==
  /\ result' = [result EXCEPT ![c] = Outcome(c)]
  /\ times' = [times EXCEPT ![c] = @ + 1]
  /\ posts' = posts \cup {[id |-> c, status |-> "applied"]}

\* apply_settings_command(), then the POST of its outcome.
Run(c) ==
  /\ result' = [result EXCEPT ![c] = Outcome(c)]
  /\ times' = [times EXCEPT ![c] = @ + 1]
  /\ posts' = posts \cup {[id |-> c, status |-> Outcome(c)]}

RunCommand ==
  /\ phase = "running" /\ left > 0
  /\ \E c \in todo : Run(c) /\ todo' = todo \ {c}
  /\ left' = left - 1
  /\ UNCHANGED <<row, phase, faults, older>>

\* A failed malloc() skips a command.
SkipCommand ==
  /\ phase = "running" /\ left > 0 /\ Fault
  /\ \E c \in todo : todo' = todo \ {c}
  /\ left' = left - 1
  /\ UNCHANGED <<row, phase, posts, result, times, older>>

\* Mutant: the commands the loop did not take are kept for later.
FinishPollKeeping ==
  /\ phase = "running" /\ (todo = {} \/ left = 0)
  /\ phase' = "idle"
  /\ UNCHANGED <<row, todo, left, posts, faults, result, times, older>>

\* Mutant: the loop stops one command early.
FinishPollEarly ==
  /\ phase = "running" /\ (todo = {} \/ left <= 1)
  /\ phase' = "idle" /\ todo' = {}
  /\ UNCHANGED <<row, left, posts, faults, result, times, older>>

\* The loop ends with the answer or with its fourth command; the rest is dropped.
FinishPoll ==
  /\ phase = "running" /\ (todo = {} \/ left = 0)
  /\ phase' = "idle" /\ todo' = {}
  /\ UNCHANGED <<row, left, posts, faults, result, times, older>>

-----------------------------------------------------------------------------
(* Faults.                                                                  *)

\* A poll whose request or answer is lost, cut short or late; a reset of the device.
PollLost ==
  /\ phase # "idle" /\ Fault
  /\ phase' = "idle" /\ todo' = {}
  /\ UNCHANGED <<row, left, posts, result, times, older>>

\* The device resets after running a command and before its POST leaves, or both attempts
\* of backend_post() fail.
PostLost ==
  /\ Fault
  /\ \E p \in posts : posts' = posts \ {p}
  /\ UNCHANGED <<row, phase, todo, left, result, times, older>>

Next ==
  \/ CreateCommand \/ GetPendingCommands \/ StrayClaim \/ UpdateCommandResult
  \/ Poll \/ ReadBody \/ RunCommand \/ SkipCommand \/ FinishPoll
  \/ PollLost \/ PostLost

Spec == Init /\ [][Next]_vars

\* The device polls for ever, the backend answers, and what is sent arrives unless one
\* of the faults intervenes; users need not insert anything.
FairSpec ==
  /\ Spec
  /\ WF_vars(Poll) /\ WF_vars(GetPendingCommands) /\ WF_vars(ReadBody)
  /\ WF_vars(RunCommand) /\ WF_vars(FinishPoll) /\ WF_vars(UpdateCommandResult)

-----------------------------------------------------------------------------
(* Properties.                                                              *)

Final == {"applied", "failed"}

\* Every variable keeps its type.
TypeOK ==
  /\ row \in [Command -> {"absent", "pending", "claimed"} \cup Final]
  /\ phase \in {"idle", "asked", "answered", "running"}
  /\ todo \subseteq Command /\ left \in 0 .. MaxPerPoll
  /\ posts \subseteq [id : Command, status : Final]
  /\ faults \in 0 .. MaxFaults
  /\ result \in [Command -> {"none"} \cup Final]
  /\ times \in [Command -> Nat]
  /\ older \in [Command -> SUBSET Command]

\* No command runs twice, whatever is lost, late or interrupted: a second claim of the
\* same row would toggle a relay or reset a counter again.
AtMostOnce == \A c \in Command : times[c] <= 1

\* What a row says of its command is what happened: a final status only after the
\* command ran, and with that outcome.
ResultIsTrue == \A c \in Command : row[c] \in Final => times[c] = 1 /\ row[c] = result[c]

\* Commands of an earlier poll never run after those of a later one, although within
\* a poll the order is open.
OldCommandsStayOld ==
  [][\A c, d \in Command :
        times'[c] # times[c] /\ c \in older[d] => times[d] = 0]_vars

\* The commands claimed together with c.
Batch(c) == {d \in Claimed : older[d] = older[c]}

\* Every command inserted is in the end run and reported, unless a fault intervenes or the
\* device is handed more at a time than a poll takes: more commands than it runs, or a
\* longer answer than it reads.
SmallBatchesConclude ==
  \A c \in Command :
     row[c] = "pending" ~>
        \/ row[c] \in Final \/ faults > 0
        \/ Cardinality(Batch(c)) > MaxPerPoll \/ BodyLen(Batch(c)) > BodyCap

\* The strengthening behind the safety properties: a command in the answer is claimed
\* and has not run; a result under way is that of the one run of its command; a command
\* claimed after one that is still in the answer has not run and never will.
QueueInvariant ==
  /\ todo # {} => phase \in {"answered", "running"}
  /\ \A c \in Command :
        /\ times[c] \in {0, 1} /\ (times[c] = 0 <=> result[c] = "none")
        /\ row[c] \in {"absent", "pending"} => c \notin todo /\ times[c] = 0
        /\ c \in todo => row[c] = "claimed" /\ times[c] = 0
        /\ row[c] \in Final => row[c] = result[c]
  /\ \A p \in posts : times[p.id] = 1 /\ p.status = result[p.id]
  /\ \A c, d \in Command : c \in older[d] =>
        (row[c] \notin {"absent", "pending"} /\ (c \in todo => d \notin todo /\ times[d] = 0))

-----------------------------------------------------------------------------
(* The queue as its users see it.                                           *)

StageOf(c) ==
  CASE times[c] > 0         -> "run"
    [] row[c] = "absent"    -> "absent"
    [] row[c] = "pending"   -> "waiting"
    [] times[c] = 0 /\ row[c] \notin {"absent", "pending"} /\ c \in todo    -> "taken"
    [] times[c] = 0 /\ row[c] \notin {"absent", "pending"} /\ c \notin todo -> "lost"

Service == INSTANCE CommandService WITH
  Result  <- Final,
  None    <- "none",
  stage   <- [c \in Command |-> StageOf(c)],
  outcome <- result,
  told    <- [c \in Command |-> IF row[c] \in Final THEN row[c] ELSE "none"]

\* The statements of the backend and the poll of the device implement CommandService:
\* whatever is lost or late, every command goes through its stages in order, once, and no
\* poll takes commands while some of an earlier one are still to be run.
ImplementsService == Service!Spec
=============================================================================
