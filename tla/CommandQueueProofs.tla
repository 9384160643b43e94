------------------------- MODULE CommandQueueProofs -------------------------
(***************************************************************************)
(* What is proved of CommandQueue for every number of commands, every      *)
(* bound per poll, every size of the body and every number of faults.      *)
(***************************************************************************)
EXTENDS CommandQueue, TLAPS

LEMMA TypeInit == Init => TypeOK /\ QueueInvariant
<1> SUFFICES ASSUME Init PROVE TypeOK /\ QueueInvariant
  OBVIOUS
<1>1. TypeOK
  BY QueueAssumption DEF Init, TypeOK
<1>2. QueueInvariant
  BY DEF Init, QueueInvariant, Final
<1> QED
  BY <1>1, <1>2

LEMMA TypeStep == TypeOK /\ [Next]_vars => TypeOK'
<1> SUFFICES ASSUME TypeOK, [Next]_vars PROVE TypeOK'
  OBVIOUS
<1> USE QueueAssumption DEF TypeOK, Final
<1>1. CASE CreateCommand
  BY <1>1 DEF CreateCommand
<1>2. ASSUME ClaimPending
      PROVE  /\ row' \in [Command -> {"absent", "pending", "claimed"} \cup Final]
             /\ older' \in [Command -> SUBSET Command]
  BY <1>2 DEF ClaimPending, Pending, Claimed
<1>3. CASE GetPendingCommands
  BY <1>2, <1>3 DEF GetPendingCommands, Pending
<1>4. CASE StrayClaim
  BY <1>2, <1>4 DEF StrayClaim, Fault
<1>5. CASE UpdateCommandResult
  BY <1>5 DEF UpdateCommandResult, Fault
<1>6. CASE Poll \/ ReadBody
  BY <1>6 DEF Poll, ReadBody
<1>7. CASE RunCommand
  <2>1. PICK c \in todo : Run(c) /\ todo' = todo \ {c}
    BY <1>7 DEF RunCommand
  <2>2. /\ result' \in [Command -> {"none"} \cup Final] /\ times' \in [Command -> Nat]
        /\ posts' \subseteq [id : Command, status : Final]
    BY <2>1 DEF Run, Outcome
  <2> QED
    BY <1>7, <2>1, <2>2 DEF RunCommand
<1>8. CASE SkipCommand \/ FinishPoll
  BY <1>8 DEF SkipCommand, FinishPoll, Fault
<1>9. CASE PollLost \/ PostLost
  BY <1>9 DEF PollLost, PostLost, Fault
<1>10. CASE UNCHANGED vars
  BY <1>10 DEF vars
<1> QED
  BY <1>1, <1>3, <1>4, <1>5, <1>6, <1>7, <1>8, <1>9, <1>10 DEF Next

LEMMA QueueStep == TypeOK /\ QueueInvariant /\ [Next]_vars => QueueInvariant'
<1> SUFFICES ASSUME TypeOK, QueueInvariant, [Next]_vars PROVE QueueInvariant'
  OBVIOUS
<1> USE DEF TypeOK, QueueInvariant, Final
<1>1. CASE CreateCommand
  BY <1>1 DEF CreateCommand
<1>2. ASSUME ClaimPending
      PROVE  /\ \A c \in Command : row'[c] = IF row[c] = "pending" THEN "claimed" ELSE row[c]
             /\ \A c, d \in Command :
                   c \in older'[d] <=> IF row[d] = "pending" THEN row[c] \notin {"absent", "pending"}
                                                           ELSE c \in older[d]
  BY <1>2 DEF ClaimPending, Pending, Claimed
<1>3. CASE GetPendingCommands
  <2>1. /\ phase' = "answered" /\ UNCHANGED <<posts, result, times>>
        /\ \A c \in Command : c \in todo' <=> row[c] = "pending"
    BY <1>3 DEF GetPendingCommands, Pending
  <2>2. \A c, d \in Command : c \in older'[d] =>
          (row'[c] \notin {"absent", "pending"} /\ (c \in todo' => d \notin todo' /\ times'[d] = 0))
    <3>1. SUFFICES ASSUME NEW c \in Command, NEW d \in Command, c \in older'[d]
                   PROVE  row'[c] \notin {"absent", "pending"} /\ c \notin todo'
      OBVIOUS
    <3>2. row[c] \notin {"absent", "pending"}
      BY <1>2, <1>3, <3>1 DEF GetPendingCommands
    <3> QED
      BY <1>2, <1>3, <2>1, <3>2 DEF GetPendingCommands
  <2>3. \A c \in Command :
          /\ times'[c] \in {0, 1} /\ (times'[c] = 0 <=> result'[c] = "none")
          /\ row'[c] \in {"absent", "pending"} => c \notin todo' /\ times'[c] = 0
          /\ c \in todo' => row'[c] = "claimed" /\ times'[c] = 0
          /\ row'[c] \in Final => row'[c] = result'[c]
    BY <1>2, <1>3, <2>1 DEF GetPendingCommands
  <2>4. \A p \in posts' : times'[p.id] = 1 /\ p.status = result'[p.id]
    BY <2>1
  <2> QED
    BY <2>1, <2>2, <2>3, <2>4
<1>4. CASE StrayClaim
  BY <1>2, <1>4 DEF StrayClaim
<1>5. CASE UpdateCommandResult
  BY <1>5 DEF UpdateCommandResult, Fault
<1>6. CASE Poll \/ ReadBody
  BY <1>6 DEF Poll, ReadBody
<1>7. CASE RunCommand
  <2>1. PICK x \in todo : Run(x) /\ todo' = todo \ {x}
    BY <1>7 DEF RunCommand
  <2>2. /\ UNCHANGED <<row, phase, older>>
        /\ row[x] = "claimed" /\ times[x] = 0 /\ result[x] = "none"
    BY <1>7, <2>1 DEF RunCommand
  <2>3. /\ \A c \in Command : times'[c] = IF c = x THEN 1 ELSE times[c]
        /\ \A c \in Command : result'[c] = IF c = x THEN Outcome(x) ELSE result[c]
        /\ posts' = posts \cup {[id |-> x, status |-> Outcome(x)]}
        /\ Outcome(x) # "none"
    BY <2>1, <2>2 DEF Run, Outcome
  <2>4. \A p \in posts' : times'[p.id] = 1 /\ p.status = result'[p.id]
    BY <2>2, <2>3
  <2>5. \A c, d \in Command : c \in older'[d] =>
          (row'[c] \notin {"absent", "pending"} /\ (c \in todo' => d \notin todo' /\ times'[d] = 0))
    BY <2>1, <2>2, <2>3
  <2>6. \A c \in Command :
          /\ times'[c] \in {0, 1} /\ (times'[c] = 0 <=> result'[c] = "none")
          /\ row'[c] \in {"absent", "pending"} => c \notin todo' /\ times'[c] = 0
          /\ c \in todo' => row'[c] = "claimed" /\ times'[c] = 0
          /\ row'[c] \in Final => row'[c] = result'[c]
    BY <2>1, <2>2, <2>3
  <2> QED
    BY <1>7, <2>1, <2>2, <2>4, <2>5, <2>6
<1>8. CASE SkipCommand \/ FinishPoll
  BY <1>8 DEF SkipCommand, FinishPoll
<1>9. CASE PollLost \/ PostLost
  BY <1>9 DEF PollLost, PostLost
<1>10. CASE UNCHANGED vars
  BY <1>10 DEF vars
<1> QED
  BY <1>1, <1>3, <1>4, <1>5, <1>6, <1>7, <1>8, <1>9, <1>10 DEF Next

\* Every variable of the queue keeps its type: the poll never counts below zero, and
\* nothing but a command is ever answered, run or reported.
THEOREM QueueTypeCorrect == Spec => []TypeOK
<1> QED
  BY TypeInit, TypeStep, PTL DEF Spec

\* No command runs twice, for every number of commands and faults.
THEOREM CommandsRunOnce == Spec => []AtMostOnce
<1>1. TypeOK /\ QueueInvariant => AtMostOnce
  BY DEF TypeOK, QueueInvariant, AtMostOnce
<1> QED
  BY <1>1, TypeInit, TypeStep, QueueStep, PTL DEF Spec

\* No row says of its command what did not happen, whatever was lost or repeated.
THEOREM ReportsAreTrue == Spec => []ResultIsTrue
<1>1. TypeOK /\ QueueInvariant => ResultIsTrue
  BY DEF TypeOK, QueueInvariant, ResultIsTrue, Final
<1> QED
  BY <1>1, TypeInit, TypeStep, QueueStep, PTL DEF Spec

\* The commands of two polls run in the order of the polls.
THEOREM PollsInOrder == Spec => OldCommandsStayOld
<1>1. ASSUME TypeOK, QueueInvariant, [Next]_vars,
             NEW c \in Command, NEW d \in Command, times'[c] # times[c], c \in older[d]
      PROVE  times[d] = 0
  <2>1. RunCommand
    BY <1>1 DEF Next, vars, CreateCommand, GetPendingCommands, StrayClaim, UpdateCommandResult,
       Poll, ReadBody, SkipCommand, FinishPoll, PollLost, PostLost
  <2>2. PICK x \in todo : Run(x)
    BY <2>1 DEF RunCommand
  <2>3. c \in todo
    BY <1>1, <2>2 DEF Run, TypeOK
  <2> QED
    BY <1>1, <2>3 DEF QueueInvariant
<1>2. TypeOK /\ QueueInvariant /\ [Next]_vars
        => [\A c, d \in Command : times'[c] # times[c] /\ c \in older[d] => times[d] = 0]_vars
  BY <1>1
<1> QED
  BY <1>2, TypeInit, TypeStep, QueueStep, PTL DEF Spec, OldCommandsStayOld

-----------------------------------------------------------------------------
(* The refinement.  With the invariant, the stage of a command is read off  *)
(* from one variable at a time, and every action moves a set of commands to *)
(* one stage.                                                               *)

LEMMA StageIs ==
  ASSUME TypeOK, QueueInvariant, NEW c \in Command
  PROVE  /\ StageOf(c) = IF times[c] = 1 THEN "run"
                         ELSE IF row[c] = "absent" THEN "absent"
                         ELSE IF row[c] = "pending" THEN "waiting"
                         ELSE IF c \in todo THEN "taken" ELSE "lost"
         /\ c \in todo <=> StageOf(c) = "taken"
         /\ row[c] = "pending" <=> StageOf(c) = "waiting"
  BY DEF TypeOK, QueueInvariant, StageOf

\* The same of the next state.
LEMMA StageIsNext ==
  ASSUME TypeOK', QueueInvariant', NEW c \in Command
  PROVE  StageOf(c)' = IF times'[c] = 1 THEN "run"
                       ELSE IF row'[c] = "absent" THEN "absent"
                       ELSE IF row'[c] = "pending" THEN "waiting"
                       ELSE IF c \in todo' THEN "taken" ELSE "lost"
  BY DEF TypeOK, QueueInvariant, StageOf

LEMMA Moves ==
  ASSUME NEW S, NEW s, \A c \in Command : StageOf(c)' = IF c \in S THEN s ELSE StageOf(c)
  PROVE  Service!Move(S, s)
  BY DEF Service!Move

\* Dropping part of an answer loses commands that were taken.
LEMMA Drops ==
  ASSUME TypeOK, QueueInvariant, TypeOK', QueueInvariant',
         NEW S \in SUBSET todo, todo' = todo \ S, UNCHANGED <<row, result, times>>
  PROVE  Service!Next
<1>1. \A c \in Command : StageOf(c)' = IF c \in S THEN "lost" ELSE StageOf(c)
  BY StageIs, StageIsNext DEF QueueInvariant
<1>2. S \in SUBSET (Service!In("waiting") \cup Service!In("taken"))
  BY StageIs DEF Service!In, TypeOK
<1>3. Service!Lose(S)
  BY <1>1, Moves DEF Service!Lose
<1> QED
  BY <1>2, <1>3 DEF Service!Next

\* A step that changes no row, run or answer is no step of the service.
LEMMA Stutters ==
  ASSUME UNCHANGED <<row, todo, result, times>>
  PROVE  UNCHANGED Service!vars
  BY DEF Service!vars, StageOf

LEMMA ServiceInit == Init => Service!Init
  BY DEF Init, Service!Init, StageOf, Final

LEMMA ServiceStep ==
  ASSUME TypeOK, QueueInvariant, [Next]_vars
  PROVE  Service!Next \/ UNCHANGED Service!vars
<1>1. TypeOK' /\ QueueInvariant'
  BY TypeStep, QueueStep
<1>2. CASE CreateCommand
  <2>1. PICK x \in Command : row[x] = "absent" /\ row' = [row EXCEPT ![x] = "pending"]
    BY <1>2 DEF CreateCommand
  <2>2. UNCHANGED <<todo, result, times>>
    BY <1>2 DEF CreateCommand
  <2>3. \A c \in Command : row'[c] = IF c = x THEN "pending" ELSE row[c]
    BY <2>1 DEF TypeOK
  <2>4. times[x] = 0 /\ StageOf(x) = "absent"
    BY <2>1, StageIs DEF QueueInvariant
  <2>5. \A c \in Command : StageOf(c)' = IF c \in {x} THEN "waiting" ELSE StageOf(c)
    BY <1>1, <2>2, <2>3, <2>4, StageIs, StageIsNext
  <2>6. Service!Move({x}, "waiting")
    BY <2>5, Moves
  <2>7. \A c \in Command : (row'[c] \in Final <=> row[c] \in Final) /\ (row[c] \in Final => row'[c] = row[c])
    BY <2>1, <2>3 DEF Final
  <2>8. Service!Submit(x)
    BY <2>2, <2>4, <2>6, <2>7 DEF Service!Submit
  <2> QED
    BY <2>8 DEF Service!Next
<1>3. ASSUME ClaimPending
      PROVE  /\ \A c \in Command : row'[c] = IF row[c] = "pending" THEN "claimed" ELSE row[c]
             /\ \A c \in Command : (row'[c] \in Final <=> row[c] \in Final) /\ (row[c] \in Final => row'[c] = row[c])
  BY <1>3 DEF ClaimPending, Pending, Final
<1>4. CASE GetPendingCommands
  <2>1. /\ todo = {} /\ UNCHANGED <<result, times>>
        /\ \A c \in Command : c \in todo' <=> row[c] = "pending"
    BY <1>4 DEF GetPendingCommands, Pending, QueueInvariant
  <2>2. \A c \in Command : StageOf(c)' = IF c \in Service!In("waiting") THEN "taken" ELSE StageOf(c)
    BY <1>1, <1>3, <1>4, <2>1, StageIs, StageIsNext DEF GetPendingCommands, Service!In, QueueInvariant
  <2>3. Service!In("taken") = {}
    BY <2>1, StageIs DEF Service!In
  <2>4. Service!Take
    BY <1>3, <1>4, <2>1, <2>2, <2>3, Moves DEF GetPendingCommands, Service!Take
  <2> QED
    BY <2>4 DEF Service!Next
<1>5. CASE StrayClaim
  <2>1. UNCHANGED <<todo, result, times>> /\ ClaimPending
    BY <1>5 DEF StrayClaim
  <2>2. \A c \in Command : StageOf(c)' = IF c \in Service!In("waiting") THEN "lost" ELSE StageOf(c)
    BY <1>1, <1>3, <2>1, StageIs, StageIsNext DEF Service!In, QueueInvariant
  <2>3. Service!Lose(Service!In("waiting"))
    BY <1>3, <2>1, <2>2, Moves DEF Service!Lose
  <2> QED
    BY <2>3 DEF Service!Next
<1>6. CASE UpdateCommandResult
  <2>1. PICK p \in posts : row' = [row EXCEPT ![p.id] = p.status]
    BY <1>6 DEF UpdateCommandResult
  <2>2. UNCHANGED <<todo, result, times>>
    BY <1>6 DEF UpdateCommandResult
  <2>3. p.id \in Command /\ p.status \in Final /\ times[p.id] = 1 /\ p.status = result[p.id]
    BY DEF TypeOK, QueueInvariant
  <2>4. \A c \in Command : row'[c] = IF c = p.id THEN result[c] ELSE row[c]
    BY <2>1, <2>3 DEF TypeOK
  <2>5. \A c \in Command : StageOf(c)' = StageOf(c)
    BY <1>1, <2>2, <2>3, <2>4, StageIs, StageIsNext
  <2>6. StageOf(p.id) = "run"
    BY <2>3, StageIs
  <2>7. Service!Tell(p.id)
    BY <2>2, <2>3, <2>4, <2>5, <2>6 DEF Service!Tell
  <2> QED
    BY <2>3, <2>7 DEF Service!Next
<1>7. CASE Poll \/ PostLost
  BY <1>7, Stutters DEF Poll, PostLost
<1>8. CASE ReadBody
  <2>1. UNCHANGED <<row, result, times>> /\ (todo' = todo \/ todo' = {})
    BY <1>8 DEF ReadBody
  <2> QED
    BY <1>1, <2>1, Stutters, Drops
<1>9. CASE RunCommand
  <2>1. PICK x \in todo : Run(x) /\ todo' = todo \ {x}
    BY <1>9 DEF RunCommand
  <2>2. x \in Command /\ times[x] = 0 /\ row[x] = "claimed" /\ UNCHANGED row
    BY <1>9, <2>1 DEF RunCommand, TypeOK, QueueInvariant
  <2>3. \A c \in Command : times'[c] = IF c = x THEN 1 ELSE times[c]
    BY <2>1, <2>2 DEF Run, TypeOK
  <2>4. \A c \in Command : StageOf(c)' = IF c \in {x} THEN "run" ELSE StageOf(c)
    BY <1>1, <2>1, <2>2, <2>3, StageIs, StageIsNext
  <2>5. result' = [result EXCEPT ![x] = Outcome(x)] /\ Outcome(x) \in Final
    BY <2>1 DEF Run, Outcome, Final
  <2>6. StageOf(x) = "taken"
    BY <2>1, <2>2, StageIs
  <2>7. Service!Execute(x)
    BY <2>2, <2>4, <2>5, <2>6, Moves DEF Service!Execute
  <2> QED
    BY <2>2, <2>7 DEF Service!Next
<1>10. CASE SkipCommand
  <2>1. PICK x \in todo : todo' = todo \ {x} /\ UNCHANGED <<row, result, times>>
    BY <1>10 DEF SkipCommand
  <2> QED
    BY <1>1, <2>1, Drops
<1>11. CASE FinishPoll \/ PollLost
  <2>1. todo' = todo \ todo /\ UNCHANGED <<row, result, times>>
    BY <1>11 DEF FinishPoll, PollLost
  <2> QED
    BY <1>1, <2>1, Drops
<1>12. CASE UNCHANGED vars
  BY <1>12, Stutters DEF vars
<1> QED
  BY <1>2, <1>4, <1>5, <1>6, <1>7, <1>8, <1>9, <1>10, <1>11, <1>12 DEF Next

\* The backend's statements and the device's poll implement the service, for every number
\* of commands: taken once, all that wait together, never before an earlier answer is done
\* with, run once, and told as they went.
THEOREM QueueImplementsService == Spec => ImplementsService
<1> QED
  BY TypeInit, TypeStep, QueueStep, ServiceInit, ServiceStep, PTL DEF Spec, ImplementsService, Service!Spec
=============================================================================
