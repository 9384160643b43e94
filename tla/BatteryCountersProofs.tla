------------------------ MODULE BatteryCountersProofs ------------------------
(***************************************************************************)
(* What is proved of BatteryCounters for every set of tasks, readings,     *)
(* profile slots and budgets.                                              *)
(***************************************************************************)
EXTENDS BatteryCounters, FiniteSetTheorems, WellFoundedInduction, TLAPS

\* The calls of a command that are still to make.
Todo == {<< >>, <<"get">>, <<"cycles">>, <<"charge">>, <<"state">>, <<"version">>,
         <<"cycles", "charge">>, <<"charge", "state">>, <<"cycles", "charge", "state">>}

\* No copy of the state, on its way from flash or to it, is ahead of what was travelled; and with
\* a session open, the state of charge in the cache is the one last seen.
Copies ==
  /\ sensor.copy.cycles =< travel /\ \A t \in Client : client[t].copy.cycles =< travel
  /\ lastDir # 0 => seen = cache.soc

\* The charge a crash may lose, in readings.  The interval of a save that was refused is counted by
\* missed from then on, though age says so only at the end of the pass.
Credit == (IF age = Interval /\ sensor.pc \notin {"argument", "save"} THEN 0 ELSE age) + Interval * missed

\* The sum about to be stored is the counter with one reading; a pass begins before the save is
\* due; and the readings since the last save cover what a crash would lose.
Saving == \E t \in Client : At1(t, "charge", "save")
Integration ==
  \/ safe \/ raced
  \/ /\ sensor.pc = "store" => sensor.sum = charge + sensor.current
     /\ age = Interval => sensor.pc \notin {"idle", "store"}
     /\ Saving \/ Abs(charge - chargeNvs) =< Most * Credit

\* With the version key of the bindings in flash, or about to be, the blob holds the table.
Versioning == \E t \in Client : client[t].todo = <<"version">>
Bindings ==
  ~ safe /\ bindOk /\ (bindVer \/ Versioning) => bindNvs = bind

\* The built-in slots are there, the count of slots is that of the table, and the blob holds it.
Slots ==
  ~ safe => /\ BuiltinId \subseteq table /\ populated = PopulatedBy(table)
            /\ tableOk /\ tableVer => TableRead = table

BatteryInvariant ==
  /\ TypeOK /\ (\A t \in Client : client[t].todo \in Todo)
  /\ CyclesAreTravel /\ Copies /\ Integration /\ Bindings /\ Slots

-----------------------------------------------------------------------------
(* The constants, and the two definitions by CHOOSE.                        *)

\* The strict subset ordering of finite sets is well founded, so a finite set of numbers has a
\* largest member: the one with the fewest above it.
LEMMA Maximum ==
  ASSUME NEW S \in SUBSET Int, IsFiniteSet(S), S # {}
  PROVE  \E m \in S : \A n \in S : n =< m
<1> DEFINE Above(m) == {n \in S : m < n}
           A == {Above(m) : m \in S}
           R == StrictSubsetOrdering(S)
<1>1. IsWellFoundedOn(R, FiniteSubsetsOf(S))
  BY FS_StrictSubsetOrderingWellFounded
<1>2. A \subseteq FiniteSubsetsOf(S) /\ A # {}
  <2>1. ASSUME NEW m \in S PROVE Above(m) \in FiniteSubsetsOf(S)
    <3>1. Above(m) \subseteq S
      OBVIOUS
    <3>2. IsFiniteSet(Above(m))
      BY <3>1, FS_Subset
    <3> QED
      BY <3>1, <3>2 DEF FiniteSubsetsOf
  <2> QED
    BY <2>1
<1>3. PICK a \in A : \A b \in A : <<b, a>> \notin R
  <2> HIDE DEF A, R
  <2> QED
    BY <1>1, <1>2, WFMin
<1>4. PICK m \in S : a = Above(m)
  OBVIOUS
<1>5. ASSUME NEW n \in S, m < n PROVE FALSE
  <2>1. Above(n) \subseteq Above(m) /\ n \in Above(m) /\ n \notin Above(n)
    <3>1. m \in Int /\ n \in Int
      OBVIOUS
    <3>2. ASSUME NEW x \in Above(n) PROVE x \in Above(m)
      <4>1. x \in S /\ x \in Int /\ n < x
        OBVIOUS
      <4> QED
        BY <1>5, <3>1, <4>1
    <3>3. n \in Above(m) /\ n \notin Above(n)
      BY <1>5, <3>1
    <3> QED
      BY <3>2, <3>3
  <2>2. <<Above(n), Above(m)>> \in R
    <3>1. <<Above(n), Above(m)>> \in (SUBSET S) \X (SUBSET S)
      OBVIOUS
    <3>2. Above(n) # Above(m)
      BY <2>1
    <3> QED
      BY <2>1, <3>1, <3>2 DEF StrictSubsetOrdering
  <2>3. Above(n) \in A
    OBVIOUS
  <2> HIDE DEF A, R, Above
  <2> QED
    BY <1>3, <1>4, <2>2, <2>3
<1> QED
  BY <1>5

\* Most bounds every reading.
LEMMA MostBounds == Most \in Nat /\ \A i \in Current : -Most =< i /\ i =< Most
<1> DEFINE f == [i \in Current |-> IF i < 0 THEN -i ELSE i]
           M == {IF i < 0 THEN -i ELSE i : i \in Current}
<1>2. IsFiniteSet(M)
  <2>1. f \in Surjection(Current, M)
    BY DEF Surjection
  <2> HIDE DEF f, M
  <2> QED
    BY <2>1, BatteryAssumption, FS_Surjection
<1>3. M \in SUBSET Nat /\ M # {}
  BY BatteryAssumption
<1>4. PICK m \in M : \A n \in M : n =< m
  <2> HIDE DEF M, f
  <2>1. IsFiniteSet(M) /\ M \in SUBSET Int
    BY <1>2, <1>3
  <2> QED
    BY <1>3, <2>1, Maximum
<1>5. \A i \in Current : -m =< i /\ i =< m
  <2> TAKE i \in Current
  <2>1. (IF i < 0 THEN -i ELSE i) =< m
    BY <1>4
  <2> QED
    BY <1>3, <2>1, BatteryAssumption
<1>6. Most \in M /\ \A i \in Current : -Most =< i /\ i =< Most
  <2> HIDE DEF f
  <2> QED
    BY <1>5 DEF Most
<1> QED
  BY <1>3, <1>6

LEMMA Constants ==
  /\ Current \subseteq Int /\ 0 \in Current /\ Full \in Nat /\ Interval \in Nat \ {0} /\ Hysteresis \in Nat
  /\ Builtins \in Nat \ {0} /\ Profiles \in Nat /\ Builtins =< Profiles
  /\ NoBinding = -1 /\ BuiltinId \subseteq Id /\ Id \subseteq Nat /\ 0 \in Id
  /\ Charge \subseteq Int /\ 0 \in Charge
  /\ Zero \in State /\ Zero.cycles = 0 /\ Zero # Absent
BY BatteryAssumption, MostBounds DEF NoBinding, BuiltinId, Id, Charge, Zero, Absent, State

\* PopulatedBy() is one past the largest slot in use, at least Builtins.
IsPopulated(n, ids) ==
  n \in Builtins .. Profiles /\ (\A i \in ids : i < n) /\ (n = Builtins \/ n - 1 \in ids)

LEMMA PopulatedIs ==
  ASSUME NEW ids \in SUBSET Id
  PROVE  IsPopulated(PopulatedBy(ids), ids)
<1> DEFINE S == {Builtins} \cup {i + 1 : i \in ids}
<1>1. S \in SUBSET Int /\ S # {} /\ S \subseteq 0 .. Profiles
  <2>1. Builtins \in Nat /\ Profiles \in Nat /\ Builtins =< Profiles
    BY Constants
  <2> QED
    BY <2>1 DEF Id
<1>2. PICK m \in S : \A n \in S : n =< m
  <2>1. IsFiniteSet(0 .. Profiles)
    BY Constants, FS_Interval
  <2>2. IsFiniteSet(S)
    BY <1>1, <2>1, FS_Subset
  <2> HIDE DEF S
  <2> QED
    BY <1>1, <2>2, Maximum
<1>3. m \in Builtins .. Profiles /\ (\A i \in ids : i < m) /\ (m = Builtins \/ m - 1 \in ids)
  <2>1. Builtins =< m /\ m =< Profiles /\ m \in Int
    BY <1>1, <1>2, Constants
  <2>2. \A i \in ids : i + 1 =< m
    BY <1>2
  <2> QED
    BY <2>1, <2>2, Constants DEF Id
<1> HIDE DEF S
<1> QED
  BY <1>3 DEF PopulatedBy, IsPopulated

LEMMA PopulatedUnique ==
  ASSUME NEW ids \in SUBSET Id, NEW n, IsPopulated(n, ids)
  PROVE  n = PopulatedBy(ids)
<1>1. IsPopulated(PopulatedBy(ids), ids)
  BY PopulatedIs
<1> HIDE DEF PopulatedBy
<1> QED
  BY <1>1, Constants DEF IsPopulated, Id

-----------------------------------------------------------------------------
(* One tick of the cycle counter.                                           *)

LEMMA Magnitude == \A n \in Int : Abs(n) \in Nat
BY DEF Abs

LEMMA Triangle ==
  ASSUME NEW a \in Int, NEW b \in Int, NEW c \in Int
  PROVE  Abs(a - c) =< Abs(b - c) + Abs(a - b)
BY DEF Abs

LEMMA SocType ==
  ASSUME charge \in Charge
  PROVE  Soc \in 0 .. Full
BY Constants DEF Soc, Charge

\* What is counted, with the session that is open after the tick, is covered by the travel, which
\* the same tick extends.
LEMMA TickIsTravel ==
  ASSUME TypeOK, NEW st \in State, NEW dir \in -1 .. 1, st.cycles =< travel,
         dir # 0 => seen = st.soc /\ st.cycles + Abs(st.soc - st.start) =< travel,
         NEW t, t = IF seen = -1 THEN travel ELSE travel + Abs(Soc - seen)
  PROVE  /\ AfterTick(st, dir) \in State /\ t \in Nat /\ travel =< t
         /\ AfterTick(st, dir).soc = Soc /\ AfterTick(st, dir).cycles =< t
         /\ dir # 0 \/ Sign(sensor.current) # 0 =>
              AfterTick(st, dir).cycles + Abs(Soc - AfterTick(st, dir).start) =< t
<1> DEFINE now   == Sign(sensor.current)
           start == IF dir = 0 /\ now # 0 THEN Soc ELSE st.start
           flip  == dir # 0 /\ now = -dir
           new   == AfterTick(st, dir)
<1>1. /\ Soc \in 0 .. Full /\ Full \in Nat /\ travel \in Nat /\ seen \in -1 .. Full
      /\ st.cycles \in Nat /\ st.soc \in 0 .. Full /\ st.start \in 0 .. Full /\ Hysteresis \in Nat
  <2>1. charge \in Charge /\ travel \in Nat /\ seen \in -1 .. Full
    BY DEF TypeOK
  <2> QED
    BY <2>1, SocType, Constants DEF State
<1>2. t \in Nat /\ travel =< t
  <2>1. seen # -1 => Abs(Soc - seen) \in Nat
    BY <1>1, Magnitude
  <2> QED
    BY <1>1, <2>1
<1>3. now \in -1 .. 1
  BY DEF Sign
<1>4. start \in 0 .. Full /\ Abs(Soc - start) \in Nat
  <2>1. start \in 0 .. Full
    BY <1>1
  <2> QED
    BY <1>1, <2>1, Magnitude
<1>5. new.soc = Soc /\ new.start = IF flip THEN Soc ELSE start
  BY Zenon DEF AfterTick
<1>6. new.cycles = IF flip /\ Abs(Soc - start) > Hysteresis THEN st.cycles + Abs(Soc - start) ELSE st.cycles
  BY Zenon DEF AfterTick
<1>7. new \in State
  <2>1. new.cycles \in Nat /\ new.start \in 0 .. Full
    BY <1>1, <1>4, <1>5, <1>6
  <2>2. new = [cycles |-> new.cycles, soc |-> new.soc, start |-> new.start]
    BY Zenon DEF AfterTick
  <2> HIDE DEF new
  <2> QED
    BY <1>1, <1>5, <2>1, <2>2 DEF State
<1>8. dir # 0 => st.cycles + Abs(Soc - start) =< t
  <2> SUFFICES ASSUME dir # 0 PROVE st.cycles + Abs(Soc - start) =< t
    OBVIOUS
  <2>1. start = st.start /\ seen = st.soc /\ seen # -1
    BY <1>1
  <2>2. Abs(Soc - st.start) =< Abs(st.soc - st.start) + Abs(Soc - st.soc)
    <3>1. Soc \in Int /\ st.soc \in Int /\ st.start \in Int
      BY <1>1
    <3> HIDE DEF Soc
    <3> QED
      BY <3>1, Triangle
  <2>3. Abs(Soc - st.start) \in Nat /\ Abs(st.soc - st.start) \in Nat /\ Abs(Soc - st.soc) \in Nat
    BY <1>1, Magnitude
  <2> QED
    BY <1>1, <2>1, <2>2, <2>3
<1>9. new.cycles =< t
  BY <1>1, <1>2, <1>4, <1>6, <1>8
<1>10. Abs(Soc - Soc) = 0
  BY <1>1 DEF Abs
<1>11. dir # 0 \/ now # 0 => new.cycles + Abs(Soc - new.start) =< t
  <2>1. CASE flip
    <3>1. new.start = Soc
      BY <1>5, <2>1
    <3>2. new.cycles \in Int
      BY <1>7 DEF State
    <3> HIDE DEF new
    <3> QED
      BY <1>2, <1>9, <1>10, <3>1, <3>2
  <2>2. CASE ~ flip /\ dir # 0
    <3>1. new.start = start /\ new.cycles = st.cycles
      BY <1>5, <1>6, <2>2
    <3> QED
      BY <1>8, <2>2, <3>1
  <2>3. CASE dir = 0 /\ now # 0
    <3>1. new.start = Soc /\ new.cycles = st.cycles
      BY <1>5, <1>6, <2>3
    <3> QED
      BY <1>1, <1>2, <1>10, <3>1
  <2> QED
    BY <2>1, <2>2, <2>3
<1> QED
  BY <1>2, <1>5, <1>7, <1>9, <1>11, Zenon

-----------------------------------------------------------------------------
(* The turns of the other tasks.  Each sets the row of one task, to one of  *)
(* four shapes.                                                             *)

ClientRow == [todo : Seq(Call), at : At, copy : State]
Turn(t, row) ==
  /\ row \in ClientRow /\ row.todo \in Todo /\ row.copy \in {Zero, client[t].copy, Flash, cache}
  /\ client' = [client EXCEPT ![t] = row]

LEMMA FlashTyped ==
  ASSUME TypeOK
  PROVE  Flash \in State /\ cache \in State
BY Constants DEF TypeOK, Flash

LEMMA TodoTails ==
  ASSUME NEW q \in Todo, q # << >>
  PROVE  /\ Head(q) \in Call /\ Tail(q) \in Todo /\ Tail(q) # <<"version">>
         /\ Head(q) = "version" <=> q = <<"version">>
<1>1. CASE q \in {<<"get">>, <<"cycles">>, <<"charge">>, <<"state">>, <<"version">>}
  <2>1. PICK c \in Call : q = <<c>>
    BY <1>1 DEF Call
  <2>2. Head(q) = c /\ Tail(q) = << >>
    BY <2>1
  <2>3. c = "version" <=> q = <<"version">>
    BY <2>1
  <2> QED
    BY <2>2, <2>3 DEF Todo
<1>2. CASE q = <<"cycles", "charge">>
  <2>1. Head(q) = "cycles" /\ Tail(q) = <<"charge">>
    BY <1>2
  <2> QED
    BY <1>2, <2>1 DEF Todo, Call
<1>3. CASE q = <<"charge", "state">>
  <2>1. Head(q) = "charge" /\ Tail(q) = <<"state">>
    BY <1>3
  <2> QED
    BY <1>3, <2>1 DEF Todo, Call
<1>4. CASE q = <<"cycles", "charge", "state">>
  <2>1. Head(q) = "cycles" /\ Tail(q) = <<"charge", "state">>
    BY <1>4
  <2> QED
    BY <1>4, <2>1 DEF Todo, Call
<1> QED
  BY <1>1, <1>2, <1>3, <1>4 DEF Todo

LEMMA TodoTyped == Todo \subseteq Seq(Call) /\ << >> \in Todo /\ Commands \subseteq Todo /\ <<"version">> \in Todo
BY DEF Todo, Call, Commands

LEMMA EmptyIsOther == << >> # <<"version">>
<1>1. Len(<< >>) = 0 /\ Len(<<"version">>) = 1
  OBVIOUS
<1> QED
  BY <1>1

LEMMA RowTyped ==
  ASSUME BatteryInvariant, NEW t \in Client
  PROVE  client[t] \in ClientRow /\ client[t].todo \in Todo /\ Quiet \in ClientRow /\ Zero \in State
BY TodoTyped, Constants DEF BatteryInvariant, TypeOK, ClientRow, Quiet, At

LEMMA TurnNext ==
  ASSUME BatteryInvariant, NEW t \in Client, NEW a \in At, Next1(t, a)
  PROVE  Turn(t, [client[t] EXCEPT !.at = a])
BY RowTyped DEF Turn, Next1, ClientRow

LEMMA TurnDone ==
  ASSUME BatteryInvariant, NEW t \in Client, client[t].todo # << >>, Done(t)
  PROVE  Turn(t, [Quiet EXCEPT !.todo = Tail(client[t].todo)])
<1>1. Tail(client[t].todo) \in Todo /\ Tail(client[t].todo) \in Seq(Call)
  BY RowTyped, TodoTails, TodoTyped
<1> QED
  BY <1>1, RowTyped DEF Turn, Done, ClientRow, Quiet

LEMMA TurnBegin ==
  ASSUME BatteryInvariant, NEW t \in Client, NEW kind, NEW q \in Todo, Begin(t, kind, q)
  PROVE  Turn(t, [client[t] EXCEPT !.todo = q])
BY RowTyped, TodoTyped DEF Turn, Begin, ClientRow

LEMMA TurnCopy ==
  ASSUME BatteryInvariant, NEW t \in Client, NEW a \in At, NEW s \in {Flash, cache},
         client' = [client EXCEPT ![t].at = a, ![t].copy = s]
  PROVE  Turn(t, [client[t] EXCEPT !.at = a, !.copy = s])
<1>1. s \in State
  BY FlashTyped DEF BatteryInvariant
<1> QED
  BY <1>1, RowTyped DEF Turn, ClientRow

\* After a turn: the other rows are as they were, and what depends on rows alone still holds.
LEMMA TurnKeeps ==
  ASSUME BatteryInvariant, NEW t \in Client, NEW row, Turn(t, row)
  PROVE  /\ client' \in [Client -> ClientRow] /\ client'[t] = row
         /\ \A u \in Client : u # t => client'[u] = client[u]
         /\ \A u \in Client : client'[u].todo \in Todo /\ client'[u].copy.cycles =< travel
<1>1. client \in [Client -> ClientRow] /\ travel \in Nat
  BY DEF BatteryInvariant, TypeOK, ClientRow
<1>2. client' \in [Client -> ClientRow] /\ client'[t] = row /\ \A u \in Client : u # t => client'[u] = client[u]
  BY <1>1 DEF Turn
<1>3. row.copy.cycles =< travel
  <2>1. Zero.cycles = 0 /\ Flash.cycles =< travel /\ cache.cycles =< travel /\ client[t].copy.cycles =< travel
    BY Constants DEF BatteryInvariant, CyclesAreTravel, Copies
  <2> QED
    BY <1>1, <2>1 DEF Turn
<1>4. ASSUME NEW u \in Client
      PROVE  client'[u].todo \in Todo /\ client'[u].copy.cycles =< travel
  <2>1. CASE u = t
    BY <1>2, <1>3, <2>1 DEF Turn
  <2>2. CASE u # t
    BY <1>2, <2>2 DEF BatteryInvariant, Copies
  <2> QED
    BY <2>1, <2>2
<1> QED
  BY <1>2, <1>4

LEMMA GetTurn ==
  ASSUME BatteryInvariant, NEW t \in Client, Get(t)
  PROVE  \E row : Turn(t, row) /\ row.todo # <<"version">> /\ Head(client[t].todo) = "get" /\ client[t].todo # << >>
<1>1. client[t].todo # << >> /\ Head(client[t].todo) = "get"
  BY DEF Get, At1
<1>2. client[t].todo # <<"version">> /\ Tail(client[t].todo) # <<"version">>
  BY <1>1, RowTyped, TodoTails
<1>3. CASE Next1(t, "read")
  BY <1>1, <1>2, <1>3, TurnNext, RowTyped DEF At, ClientRow
<1>4. CASE client' = [client EXCEPT ![t].at = "install", ![t].copy = Flash]
  BY <1>1, <1>2, <1>4, TurnCopy, RowTyped DEF At, ClientRow
<1>5. CASE Done(t)
  BY <1>1, <1>2, <1>5, TurnDone DEF Quiet
<1> QED
  BY <1>3, <1>4, <1>5 DEF Get

LEMMA CyclesTurn ==
  ASSUME BatteryInvariant, NEW t \in Client, ResetCycles(t)
  PROVE  \E row : Turn(t, row) /\ row.todo # <<"version">> /\ Head(client[t].todo) = "cycles" /\ client[t].todo # << >>
<1>1. client[t].todo # << >> /\ Head(client[t].todo) = "cycles"
  BY DEF ResetCycles, At1
<1>2. client[t].todo # <<"version">> /\ Tail(client[t].todo) # <<"version">>
  BY <1>1, RowTyped, TodoTails
<1>3. CASE Next1(t, IF loaded THEN "copy" ELSE "empty")
  BY <1>1, <1>2, <1>3, TurnNext, RowTyped DEF At, ClientRow
<1>4. CASE client' = [client EXCEPT ![t].at = "put", ![t].copy = cache]
  BY <1>1, <1>2, <1>4, TurnCopy, RowTyped DEF At, ClientRow
<1>5. CASE Done(t)
  BY <1>1, <1>2, <1>5, TurnDone DEF Quiet
<1> QED
  BY <1>3, <1>4, <1>5 DEF ResetCycles

LEMMA StateTurn ==
  ASSUME BatteryInvariant, NEW t \in Client, ResetState(t)
  PROVE  \E row : /\ Turn(t, row) /\ row.todo # <<"version">>
                  /\ Head(client[t].todo) \in {"cycles", "state"} /\ client[t].todo # << >>
<1>1. client[t].todo # << >> /\ Head(client[t].todo) \in {"cycles", "state"}
  BY DEF ResetState, At1
<1>2. client[t].todo # <<"version">> /\ Tail(client[t].todo) # <<"version">>
  BY <1>1, RowTyped, TodoTails
<1>3. CASE Next1(t, "remove")
  BY <1>1, <1>2, <1>3, TurnNext, RowTyped DEF At, ClientRow
<1>4. CASE Done(t)
  BY <1>1, <1>2, <1>4, TurnDone DEF Quiet
<1> QED
  BY <1>3, <1>4 DEF ResetState

LEMMA ChargeTurn ==
  ASSUME BatteryInvariant, NEW t \in Client, ResetCharge(t)
  PROVE  \E row : Turn(t, row) /\ row.todo # <<"version">> /\ Head(client[t].todo) = "charge" /\ client[t].todo # << >>
<1>1. client[t].todo # << >> /\ Head(client[t].todo) = "charge"
  BY DEF ResetCharge, At1
<1>2. client[t].todo # <<"version">> /\ Tail(client[t].todo) # <<"version">>
  BY <1>1, RowTyped, TodoTails
<1>3. CASE Next1(t, "save")
  BY <1>1, <1>2, <1>3, TurnNext, RowTyped DEF At, ClientRow
<1>4. CASE Done(t)
  BY <1>1, <1>2, <1>4, TurnDone DEF Quiet
<1> QED
  BY <1>3, <1>4 DEF ResetCharge

LEMMA BeginTurn ==
  ASSUME BatteryInvariant, NEW t \in Client, BeginCommand(t) \/ SetProfile(t) \/ DeleteProfile(t)
  PROVE  \E row : Turn(t, row) /\ row.todo # <<"version">> /\ client[t].todo = << >>
<1>1. PICK q \in Commands \cup {<< >>}, kind \in {"calls", "changes"} : Begin(t, kind, q)
  <2>1. CASE BeginCommand(t)
    BY <2>1 DEF BeginCommand
  <2>2. CASE SetProfile(t)
    BY <2>2 DEF SetProfile
  <2>3. CASE DeleteProfile(t)
    BY <2>3 DEF DeleteProfile
  <2> QED
    BY <2>1, <2>2, <2>3
<1>2. q \in Todo /\ q # <<"version">>
  <2>1. q \in Todo
    BY TodoTyped
  <2>2. ASSUME NEW c \in Commands PROVE c # <<"version">>
    <3>1. Head(c) # "version"
      BY DEF Commands
    <3> QED
      BY <3>1
  <2> QED
    BY <2>1, <2>2
<1>3. Turn(t, [client[t] EXCEPT !.todo = q])
  BY <1>1, <1>2, TurnBegin
<1>4. client[t].todo = << >>
  BY <1>1 DEF Begin
<1> QED
  BY <1>2, <1>3, <1>4, RowTyped DEF ClientRow

LEMMA BindTurn ==
  ASSUME BatteryInvariant, NEW t \in Client, NEW ok \in BOOLEAN,
         Begin(t, "changes", IF ok THEN <<"version">> ELSE << >>)
  PROVE  \E row : Turn(t, row) /\ row.todo = (IF ok THEN <<"version">> ELSE << >>) /\ client[t].todo = << >>
<1> DEFINE q == IF ok THEN <<"version">> ELSE << >>
<1>1. q \in Todo
  BY TodoTyped
<1>2. Turn(t, [client[t] EXCEPT !.todo = q])
  BY <1>1, TurnBegin
<1>3. client[t].todo = << >>
  BY DEF Begin
<1> QED
  BY <1>1, <1>2, <1>3, RowTyped DEF ClientRow

LEMMA VersionTurn ==
  ASSUME BatteryInvariant, NEW t \in Client, BindVersion(t)
  PROVE  \E row : Turn(t, row) /\ row.todo # <<"version">> /\ client[t].todo = <<"version">>
<1>1. client[t].todo # << >> /\ Head(client[t].todo) = "version" /\ Done(t)
  BY DEF BindVersion, At1
<1>2. client[t].todo = <<"version">> /\ Tail(client[t].todo) # <<"version">>
  BY <1>1, RowTyped, TodoTails
<1> QED
  BY <1>1, <1>2, TurnDone DEF Quiet

LEMMA SavingKept ==
  ASSUME BatteryInvariant, NEW t \in Client, NEW row, Turn(t, row), ~ At1(t, "charge", "save"), Saving
  PROVE  Saving'
BY TurnKeeps DEF Saving, At1

LEMMA VersioningKept ==
  ASSUME BatteryInvariant, NEW t \in Client, NEW row, Turn(t, row),
         row.todo # <<"version">>, client[t].todo # <<"version">>
  PROVE  Versioning' = Versioning
BY TurnKeeps DEF Versioning

-----------------------------------------------------------------------------
(* The initial states.                                                      *)

LEMMA PopulatedBuiltins == PopulatedBy(BuiltinId) = Builtins
<1>1. IsPopulated(Builtins, BuiltinId)
  BY Constants DEF IsPopulated, BuiltinId
<1> QED
  BY <1>1, Constants, PopulatedUnique

LEMMA InvariantInit == Init => BatteryInvariant
<1> SUFFICES ASSUME Init PROVE BatteryInvariant
  OBVIOUS
<1>1. TypeOK
  <2>1. client \in [Client -> [todo : Seq(Call), at : At, copy : State]]
    BY Constants DEF Init, Quiet, At
  <2>2. sensor \in [pc : {"idle", "store", "argument", "save", "cycle", "load", "copy", "put"},
                    current : Current, sum : Charge, copy : State]
    BY Constants DEF Init, Asleep
  <2>3. budget \in [ticks : Nat, calls : Nat, changes : Nat, resets : Nat, fails : Nat]
    BY BatteryAssumption DEF Init
  <2>4. /\ {charge, chargeNvs} \subseteq Charge
        /\ cache \in State /\ loaded \in BOOLEAN /\ lastDir \in -1 .. 1 /\ nvs \in State \cup {Absent}
        /\ age \in 0 .. Interval /\ {opens, safe, tableOk, bindOk, raced} \subseteq BOOLEAN
        /\ travel \in Nat /\ seen \in -1 .. Full /\ missed \in Nat
    <3>1. charge = 0 /\ chargeNvs = 0 /\ lastDir = 0 /\ age = 0 /\ travel = 0 /\ seen = -1 /\ missed = 0
      BY DEF Init
    <3>2. cache = Zero /\ nvs = Absent
      BY DEF Init
    <3>3. {opens, safe, tableOk, bindOk, raced} \subseteq BOOLEAN /\ loaded \in BOOLEAN
      BY DEF Init
    <3> QED
      BY <3>1, <3>2, <3>3, Constants
  <2>5. /\ table \subseteq Id /\ populated \in Builtins .. Profiles /\ tableNvs \subseteq Id
        /\ {bind, bindNvs} \subseteq Id \cup {NoBinding} /\ {bindVer, tableVer} \subseteq BOOLEAN
    <3>1. bindVer \in BOOLEAN /\ tableVer \in BOOLEAN
      BY DEF Init
    <3>2. table \subseteq Id /\ populated \in Builtins .. Profiles /\ tableNvs \subseteq Id
      <4>1. table = BuiltinId /\ populated = Builtins /\ tableNvs = {}
        BY DEF Init
      <4> QED
        BY <4>1, Constants
    <3>3. {bind, bindNvs} \subseteq Id \cup {NoBinding}
      <4>1. bind \in {NoBinding, 0} /\ bindNvs = bind
        BY DEF Init
      <4> QED
        BY <4>1, Constants
    <3> QED
      BY <3>1, <3>2, <3>3
  <2> QED
    BY <2>1, <2>2, <2>3, <2>4, <2>5 DEF TypeOK
<1>2. \A t \in Client : client[t].todo = << >> /\ client[t].copy = Zero
  BY DEF Init, Quiet
<1>3. CyclesAreTravel /\ Copies
  BY <1>2, Constants DEF Init, CyclesAreTravel, Copies, Flash, Asleep
<1>4. Integration
  <2>1. charge = 0 /\ chargeNvs = 0 /\ age = 0 /\ missed = 0 /\ sensor.pc = "idle" /\ age # Interval
    BY Constants DEF Init, Asleep
  <2>2. Credit = 0
    BY <2>1, Constants DEF Credit
  <2>3. Abs(charge - chargeNvs) =< Most * Credit
    BY <2>1, <2>2, MostBounds DEF Abs
  <2> QED
    BY <2>1, <2>3 DEF Integration
<1>5. Bindings
  BY DEF Init, Bindings
<1>6. Slots
  BY PopulatedBuiltins DEF Init, Slots, TableRead
<1>7. \A t \in Client : client[t].todo \in Todo
  BY <1>2, TodoTyped
<1> QED
  BY <1>1, <1>3, <1>4, <1>5, <1>6, <1>7 DEF BatteryInvariant

-----------------------------------------------------------------------------
(* Types.                                                                   *)

\* The parts of TypeOK that an action either leaves alone or sets as a whole.
CounterTypes ==
  /\ {charge, chargeNvs} \subseteq Charge
  /\ cache \in State /\ loaded \in BOOLEAN /\ lastDir \in -1 .. 1 /\ nvs \in State \cup {Absent}
  /\ age \in 0 .. Interval /\ {opens, safe, raced} \subseteq BOOLEAN /\ travel \in Nat /\ seen \in -1 .. Full
  /\ missed \in Nat
ConfigTypes ==
  /\ table \subseteq Id /\ populated \in Builtins .. Profiles /\ tableNvs \subseteq Id
  /\ {bind, bindNvs} \subseteq Id \cup {NoBinding} /\ {bindVer, tableVer, tableOk, bindOk} \subseteq BOOLEAN
SensorRow == [pc : {"idle", "store", "argument", "save", "cycle", "load", "copy", "put"},
              current : Current, sum : Charge, copy : State]
BudgetType == budget \in [ticks : Nat, calls : Nat, changes : Nat, resets : Nat, fails : Nat]

LEMMA TypeParts ==
  TypeOK <=> CounterTypes /\ ConfigTypes /\ BudgetType /\ sensor \in SensorRow /\ client \in [Client -> ClientRow]
BY DEF TypeOK, CounterTypes, ConfigTypes, BudgetType, SensorRow, ClientRow

LEMMA PrimedTypeParts ==
  CounterTypes' /\ ConfigTypes' /\ BudgetType' /\ sensor' \in SensorRow /\ client' \in [Client -> ClientRow] => TypeOK'
BY DEF TypeOK, CounterTypes, ConfigTypes, BudgetType, SensorRow, ClientRow

LEMMA SpendTyped ==
  ASSUME BudgetType, NEW kind \in {"ticks", "calls", "changes", "resets", "fails"}, Spend(kind)
  PROVE  BudgetType'
BY DEF BudgetType, Spend

LEMMA CounterKept ==
  ASSUME CounterTypes, UNCHANGED <<charge, chargeNvs, cache, loaded, lastDir, nvs, age, opens, safe, raced, missed, travel, seen>>
  PROVE  CounterTypes'
BY DEF CounterTypes

LEMMA ConfigKept ==
  ASSUME ConfigTypes, UNCHANGED config
  PROVE  ConfigTypes'
BY DEF ConfigTypes, config

LEMMA TypeStepSensor ==
  ASSUME BatteryInvariant, SensorStep
  PROVE  TypeOK'
<1>1. CounterTypes /\ ConfigTypes /\ BudgetType /\ sensor \in SensorRow /\ client \in [Client -> ClientRow]
  BY TypeParts DEF BatteryInvariant
<1>2. Asleep \in SensorRow
  BY Constants DEF Asleep, SensorRow
<1>3. ConfigTypes' /\ client' \in [Client -> ClientRow]
  <2>1. UNCHANGED <<config, client>>
    BY DEF SensorStep, ReadCurrent, Store, ReadArgument, SaveCharge, UpdateCycles, InstallAndUpdate, SkipChannel, CopyState, PutState,
           CycleTick
  <2> QED
    BY <1>1, <2>1, ConfigKept
<1>4. ASSUME NEW st \in State, NEW dir \in -1 .. 1, CycleTick(st, dir), st.cycles =< travel,
             dir # 0 => seen = st.soc /\ st.cycles + Abs(st.soc - st.start) =< travel
      PROVE  CounterTypes' /\ BudgetType' /\ sensor' \in SensorRow
  <2>1. AfterTick(st, dir) \in State /\ travel' \in Nat
    <3>1. travel' = IF seen = -1 THEN travel ELSE travel + Abs(Soc - seen)
      BY <1>4 DEF CycleTick
    <3> QED
      BY <1>4, <3>1, TickIsTravel DEF BatteryInvariant
  <2>2. cache' = AfterTick(st, dir) /\ loaded' = TRUE /\ seen' = Soc
    BY <1>4 DEF CycleTick
  <2>3. seen' \in -1 .. Full
    BY <1>1, <2>2, SocType, Constants DEF CounterTypes
  <2>4. lastDir' \in -1 .. 1
    <3>1. lastDir' = IF sensor.current # 0 THEN Sign(sensor.current) ELSE dir
      BY <1>4 DEF CycleTick
    <3>2. Sign(sensor.current) \in -1 .. 1
      BY DEF Sign
    <3> QED
      BY <3>1, <3>2
  <2>5. age' \in 0 .. Interval
    BY <1>1, <1>4, Constants DEF CycleTick, CounterTypes
  <2>6. UNCHANGED <<charge, chargeNvs, nvs, opens, safe, raced, missed, budget>>
    BY <1>4 DEF CycleTick, coulomb
  <2>7. sensor' \in SensorRow
    BY <1>2, <1>4 DEF CycleTick, SensorRow
  <2> QED
    BY <1>1, <2>1, <2>2, <2>3, <2>4, <2>5, <2>6, <2>7 DEF CounterTypes, BudgetType
<1>5. CounterTypes' /\ BudgetType' /\ sensor' \in SensorRow
  <2>1. CASE ReadCurrent
    <3>1. CounterTypes'
      BY <1>1, <2>1, CounterKept DEF ReadCurrent, coulomb, cycle, history
    <3>2. BudgetType'
      BY <1>1, <2>1, SpendTyped DEF ReadCurrent, BudgetType
    <3>3. sensor' \in SensorRow
      BY <1>1, <2>1 DEF ReadCurrent, SensorRow
    <3> QED
      BY <3>1, <3>2, <3>3
  <2>2. CASE Store
    <3>1. age' \in 0 .. Interval /\ sensor.sum \in Charge
      BY <1>1, <2>2, Constants DEF Store, CounterTypes, SensorRow
    <3>2. CounterTypes'
      BY <1>1, <2>2, <3>1 DEF Store, CounterTypes, cycle, history
    <3>3. BudgetType' /\ sensor' \in SensorRow
      BY <1>1, <2>2, Constants DEF Store, BudgetType, SensorRow
    <3> QED
      BY <3>2, <3>3
  <2>3. CASE UpdateCycles
    <3>1. CASE loaded /\ CycleTick(cache, lastDir)
      <4>1. cache \in State /\ lastDir \in -1 .. 1
        BY <1>1 DEF CounterTypes
      <4> QED
        BY <1>4, <3>1, <4>1 DEF BatteryInvariant, CyclesAreTravel, Copies
    <3>2. CASE sensor' = [sensor EXCEPT !.pc = "load", !.copy = Flash] /\ UNCHANGED <<coulomb, cycle, age, opens, safe, budget, history>>
      <4>1. Flash \in State
        BY FlashTyped DEF BatteryInvariant
      <4>2. CounterTypes'
        BY <1>1, <3>2, CounterKept DEF coulomb, cycle, history
      <4>3. sensor' \in SensorRow /\ BudgetType'
        BY <1>1, <3>2, <4>1 DEF SensorRow, BudgetType
      <4> QED
        BY <4>2, <4>3
    <3> QED
      BY <2>3, <3>1, <3>2 DEF UpdateCycles
  <2>4. CASE InstallAndUpdate
    <3>1. sensor.copy \in State /\ sensor.copy.cycles =< travel
      BY <1>1 DEF SensorRow, BatteryInvariant, Copies
    <3> QED
      BY <1>4, <2>4, <3>1 DEF InstallAndUpdate
  <2>5. CASE SkipChannel
    BY <1>1, <1>2, <2>5, Constants DEF SkipChannel, CounterTypes, BudgetType, SensorRow, coulomb, cycle, history
  <2>6. CASE CopyState
    BY <1>1, <1>2, <2>6, CounterKept DEF CopyState, BudgetType, SensorRow, CounterTypes, coulomb, cycle, history
  <2>7. CASE PutState
    <3>1. nvs' \in State \cup {Absent}
      <4>1. nvs' \in {sensor.copy, nvs}
        BY <2>7 DEF PutState
      <4> QED
        BY <1>1, <4>1 DEF SensorRow, CounterTypes
    <3>2. BudgetType'
      BY <1>1, <2>7, SpendTyped DEF PutState, BudgetType
    <3>3. age' \in 0 .. Interval /\ UNCHANGED <<charge, chargeNvs, cache, loaded, lastDir, opens, safe, history>>
      BY <1>1, <2>7, Constants DEF PutState, CounterTypes, coulomb
    <3>4. sensor' \in SensorRow
      BY <1>2, <2>7 DEF PutState, SensorRow
    <3> QED
      BY <1>1, <3>1, <3>2, <3>3, <3>4 DEF CounterTypes, history
  <2>8. CASE ReadArgument
    <3>1. CounterTypes'
      BY <1>1, <2>8, CounterKept DEF ReadArgument, coulomb, cycle, history
    <3>2. BudgetType' /\ sensor' \in SensorRow
      BY <1>1, <2>8 DEF ReadArgument, BudgetType, SensorRow, CounterTypes
    <3> QED
      BY <3>1, <3>2
  <2>9. CASE SaveCharge
    <3>1. chargeNvs' \in {sensor.sum, chargeNvs} /\ missed' \in {0, missed + 1}
      BY <2>9 DEF SaveCharge
    <3>2. raced' = (sensor.sum # charge) \/ raced' = raced
      BY <2>9 DEF SaveCharge
    <3>3. raced' \in BOOLEAN /\ chargeNvs' \in Charge /\ missed' \in Nat
      <4>1. raced' \in BOOLEAN
        BY <1>1, <3>2, Zenon DEF CounterTypes
      <4>2. chargeNvs' \in Charge
        BY <1>1, <3>1 DEF CounterTypes, SensorRow
      <4>3. missed' \in Nat
        BY <1>1, <3>1 DEF CounterTypes
      <4> QED
        BY <4>1, <4>2, <4>3
    <3>4. BudgetType'
      BY <1>1, <2>9, SpendTyped DEF SaveCharge, BudgetType
    <3>5. sensor' \in SensorRow
      BY <1>1, <2>9, Constants DEF SaveCharge, SensorRow
    <3>6. UNCHANGED <<charge, cache, loaded, lastDir, nvs, age, opens, safe, travel, seen>>
      BY <2>9 DEF SaveCharge, cycle
    <3> QED
      BY <1>1, <3>3, <3>4, <3>5, <3>6 DEF CounterTypes
  <2> QED
    BY <2>1, <2>2, <2>3, <2>4, <2>5, <2>6, <2>7, <2>8, <2>9 DEF SensorStep
<1> QED
  BY <1>3, <1>5, PrimedTypeParts

LEMMA ClientTurns ==
  ASSUME BatteryInvariant, NEW t \in Client,
         \/ BeginCommand(t) \/ Get(t) \/ ResetCycles(t) \/ ResetState(t) \/ ResetCharge(t)
         \/ Bind(t) \/ BindVersion(t) \/ SetProfile(t) \/ DeleteProfile(t)
  PROVE  \E row : Turn(t, row)
<1>1. CASE Bind(t)
  <2>1. PICK ok \in BOOLEAN : Begin(t, "changes", IF ok THEN <<"version">> ELSE << >>)
    BY <1>1 DEF Bind
  <2> QED
    BY <2>1, BindTurn
<1> QED
  BY <1>1, BeginTurn, GetTurn, CyclesTurn, StateTurn, ChargeTurn, VersionTurn

LEMMA TypeStepClient ==
  ASSUME BatteryInvariant, NEW t \in Client,
         \/ BeginCommand(t) \/ Get(t) \/ ResetCycles(t) \/ ResetState(t) \/ ResetCharge(t)
         \/ Bind(t) \/ BindVersion(t) \/ SetProfile(t) \/ DeleteProfile(t)
  PROVE  TypeOK'
<1>1. CounterTypes /\ ConfigTypes /\ BudgetType /\ sensor \in SensorRow /\ client \in [Client -> ClientRow]
  BY TypeParts DEF BatteryInvariant
<1>2. client' \in [Client -> ClientRow]
  BY ClientTurns, TurnKeeps
<1>3. UNCHANGED <<sensor, age, opens, safe>>
  BY DEF Others, BeginCommand, Get, ResetCycles, ResetState, ResetCharge, Bind, BindVersion, SetProfile, DeleteProfile
<1>4. sensor' \in SensorRow
  BY <1>1, <1>3
<1>5. Flash \in State /\ cache \in State /\ client[t].copy \in State /\ Zero \in State /\ 0 \in Charge
  BY FlashTyped, Constants, RowTyped DEF BatteryInvariant, ClientRow
<1>6. CounterTypes' /\ ConfigTypes' /\ BudgetType'
  <2>1. CASE BeginCommand(t)
    <3>1. Spend("calls") /\ UNCHANGED <<coulomb, cycle, config, history>>
      BY <2>1 DEF BeginCommand, Begin
    <3> QED
      BY <1>1, <1>3, <3>1, SpendTyped, CounterKept, ConfigKept DEF coulomb, cycle, history
  <2>2. CASE Get(t)
    <3>1. cache' \in State /\ loaded' \in BOOLEAN /\ lastDir' \in -1 .. 1
      <4>1. \/ UNCHANGED <<cache, loaded, lastDir>>
            \/ cache' = client[t].copy /\ loaded' = TRUE /\ lastDir' = 0
        BY <2>2 DEF Get
      <4>2. cache \in State /\ loaded \in BOOLEAN /\ lastDir \in -1 .. 1
        BY <1>1 DEF CounterTypes
      <4>3. loaded' \in BOOLEAN
        BY <4>1, <4>2, Zenon
      <4>4. cache' \in State /\ lastDir' \in {lastDir, 0}
        BY <1>5, <4>1, <4>2, Zenon
      <4> QED
        BY <4>2, <4>3, <4>4
    <3>2. UNCHANGED <<coulomb, nvs, config, budget, history>>
      BY <2>2 DEF Get
    <3> QED
      BY <1>1, <1>3, <3>1, <3>2, ConfigKept DEF CounterTypes, BudgetType, coulomb, history
  <2>3. CASE ResetCycles(t)
    <3>1. cache' \in State /\ loaded' \in BOOLEAN /\ lastDir' \in -1 .. 1 /\ nvs' \in State \cup {Absent}
      <4>1. \/ UNCHANGED <<cache, loaded, lastDir>>
            \/ cache' = Zero /\ loaded' = TRUE /\ lastDir' = 0
        BY <2>3 DEF ResetCycles, cycle
      <4>2. nvs' \in {nvs, client[t].copy}
        BY <2>3 DEF ResetCycles, Written, cycle
      <4>3. cache \in State /\ loaded \in BOOLEAN /\ lastDir \in -1 .. 1 /\ nvs \in State \cup {Absent}
        BY <1>1 DEF CounterTypes
      <4>4. loaded' \in BOOLEAN
        BY <4>1, <4>3, Zenon
      <4>5. cache' \in State /\ lastDir' \in {lastDir, 0}
        BY <1>5, <4>1, <4>3, Zenon
      <4> QED
        BY <1>5, <4>2, <4>3, <4>4, <4>5
    <3>2. UNCHANGED <<coulomb, config, budget, history>>
      BY <2>3 DEF ResetCycles
    <3> QED
      BY <1>1, <1>3, <3>1, <3>2, ConfigKept DEF CounterTypes, BudgetType, coulomb, history
  <2>4. CASE ResetState(t)
    <3>1. nvs' \in {Zero, Absent, nvs} /\ nvs \in State \cup {Absent}
      BY <1>1, <2>4 DEF ResetState, Written, CounterTypes
    <3>2. UNCHANGED <<coulomb, cache, loaded, lastDir, config, budget, history>>
      BY <2>4 DEF ResetState
    <3> QED
      BY <1>1, <1>3, <1>5, <3>1, <3>2, ConfigKept DEF CounterTypes, BudgetType, coulomb, history
  <2>5. CASE ResetCharge(t)
    <3>1. {charge', chargeNvs'} \subseteq Charge /\ raced' \in BOOLEAN
      <4>1. charge' \in {charge, 0} /\ chargeNvs' \in {chargeNvs, 0}
        BY <2>5 DEF ResetCharge, Written
      <4>2. raced' \in BOOLEAN
        BY <1>1, <2>5, Zenon DEF ResetCharge, CounterTypes
      <4> QED
        BY <1>1, <1>5, <4>1, <4>2 DEF CounterTypes
    <3>2. UNCHANGED <<cycle, config, budget, travel, seen, missed>>
      BY <2>5 DEF ResetCharge
    <3> QED
      BY <1>1, <1>3, <3>1, <3>2, ConfigKept DEF CounterTypes, BudgetType, cycle
  <2>6. CASE Bind(t)
    <3>1. PICK p \in Id \cup {NoBinding}, ok \in BOOLEAN :
             /\ Begin(t, "changes", IF ok THEN <<"version">> ELSE << >>)
             /\ bind' = p /\ bindNvs' = IF ok THEN p ELSE bindNvs
             /\ bindOk' = ok
             /\ UNCHANGED <<coulomb, cycle, table, populated, tableNvs, tableVer, bindVer, tableOk, history>>
      BY <2>6 DEF Bind, Written, Outcomes, Id
    <3>2. ConfigTypes'
      BY <1>1, <3>1 DEF ConfigTypes
    <3>3. BudgetType'
      BY <1>1, <3>1, SpendTyped DEF Begin
    <3>4. CounterTypes'
      BY <1>1, <1>3, <3>1, CounterKept DEF coulomb, cycle, history
    <3> QED
      BY <3>2, <3>3, <3>4
  <2>7. CASE BindVersion(t)
    <3>1. CounterTypes'
      BY <1>1, <1>3, <2>7, CounterKept DEF BindVersion, coulomb, cycle, history
    <3>2. bindVer' \in BOOLEAN
      BY <1>1, <2>7, Zenon DEF BindVersion, Written, Outcomes, ConfigTypes
    <3>3. UNCHANGED <<table, populated, tableNvs, tableVer, bind, bindNvs, tableOk, bindOk, budget>>
      BY <2>7 DEF BindVersion
    <3> QED
      BY <1>1, <3>1, <3>2, <3>3 DEF ConfigTypes, BudgetType
  <2>8. ASSUME NEW ids \in SUBSET Id, NEW n \in Builtins .. Profiles, SaveTable(ids, n), Begin(t, "changes", << >>)
        PROVE  CounterTypes' /\ ConfigTypes' /\ BudgetType'
    <3>1. CounterTypes'
      BY <1>1, <1>3, <2>8, CounterKept DEF SaveTable, coulomb, cycle, history
    <3>2. BudgetType'
      BY <1>1, <2>8, SpendTyped DEF Begin
    <3>3. ConfigTypes'
      <4>1. PICK ok \in BOOLEAN : /\ table' = ids /\ populated' = n /\ tableNvs' \in {ids, tableNvs}
                                 /\ tableOk' = ok /\ tableVer' \in {TRUE, tableVer}
                                 /\ UNCHANGED <<bind, bindNvs, bindVer, bindOk>>
        BY <2>8 DEF SaveTable, Written, Outcomes
      <4>2. tableVer' \in BOOLEAN /\ tableOk' \in BOOLEAN
        BY <1>1, <4>1 DEF ConfigTypes
      <4> QED
        BY <1>1, <2>8, <4>1, <4>2 DEF ConfigTypes
    <3> QED
      BY <3>1, <3>2, <3>3
  <2>9. CASE SetProfile(t)
    <3>1. PICK id \in Id : SaveTable(table \cup {id}, IF id + 1 > populated THEN id + 1 ELSE populated)
      BY <2>9 DEF SetProfile
    <3>2. (IF id + 1 > populated THEN id + 1 ELSE populated) \in Builtins .. Profiles
      BY <1>1, Constants DEF ConfigTypes, Id
    <3>3. table \cup {id} \in SUBSET Id
      BY <1>1 DEF ConfigTypes
    <3> QED
      BY <2>8, <2>9, <3>1, <3>2, <3>3 DEF SetProfile
  <2>10. CASE DeleteProfile(t)
    <3>1. PICK id \in Builtins .. populated - 1 : SaveTable(table \ {id}, Trimmed(table \ {id}, id))
      BY <2>10 DEF DeleteProfile
    <3>2. table \ {id} \in SUBSET Id
      BY <1>1 DEF ConfigTypes
    <3>3. Trimmed(table \ {id}, id) \in Builtins .. Profiles
      BY <1>1, <3>2, PopulatedIs DEF Trimmed, IsPopulated, ConfigTypes
    <3> QED
      BY <2>8, <2>10, <3>1, <3>2, <3>3 DEF DeleteProfile
  <2> QED
    BY <2>1, <2>2, <2>3, <2>4, <2>5, <2>6, <2>7, <2>9, <2>10
<1> QED
  BY <1>2, <1>4, <1>6, PrimedTypeParts

LEMMA TypeStepCrash ==
  ASSUME BatteryInvariant, Crash
  PROVE  TypeOK'
<1>1. CounterTypes /\ ConfigTypes /\ BudgetType
  BY TypeParts DEF BatteryInvariant
<1>2. TableRead \in SUBSET Id /\ BindingRead \in Id \cup {NoBinding}
  BY <1>1, Constants DEF TableRead, BindingRead, ConfigTypes
<1>3. PopulatedBy(TableRead) \in Builtins .. Profiles
  BY <1>2, PopulatedIs DEF IsPopulated
<1>4. CounterTypes'
  <2>1. charge' \in {0, chargeNvs} /\ chargeNvs' = chargeNvs
    BY DEF Crash
  <2>2. cache' = Zero /\ loaded' = FALSE /\ lastDir' = 0 /\ nvs' = nvs /\ age' = 0 /\ seen' = -1 /\ travel' = travel
    BY DEF Crash
  <2>3. safe' \in BOOLEAN /\ raced' \in BOOLEAN /\ missed' \in Nat /\ opens' \in BOOLEAN
    BY <1>1 DEF Crash, CounterTypes
  <2> QED
    <3>1. loaded' \in BOOLEAN
      BY <2>2
    <3>2. {charge', chargeNvs'} \subseteq Charge /\ nvs' \in State \cup {Absent} /\ travel' \in Nat
      BY <1>1, <2>1, <2>2, Constants DEF CounterTypes
    <3>3. cache' \in State /\ lastDir' \in -1 .. 1 /\ age' \in 0 .. Interval /\ seen' \in -1 .. Full
      <4>1. cache' = Zero /\ lastDir' = 0 /\ age' = 0 /\ seen' = -1
        BY <2>2
      <4> QED
        BY <4>1, Constants
    <3> QED
      BY <2>3, <3>1, <3>2, <3>3 DEF CounterTypes
<1>5. ConfigTypes'
  <2>1. table' \in {{}, TableRead} /\ populated' \in {Builtins, PopulatedBy(TableRead)} /\ bind' \in {0, BindingRead}
    BY DEF Crash
  <2>2. tableNvs' = tableNvs /\ tableVer' = tableVer /\ bindNvs' = bindNvs /\ bindVer' = bindVer /\ tableOk' = TRUE /\ bindOk' = TRUE
    BY DEF Crash
  <2> QED
    <3>1. {bindVer', tableVer', tableOk', bindOk'} \subseteq BOOLEAN
      BY <1>1, <2>2 DEF ConfigTypes
    <3>2. table' \subseteq Id /\ tableNvs' \subseteq Id /\ {bind', bindNvs'} \subseteq Id \cup {NoBinding}
      BY <1>1, <1>2, <2>1, <2>2, Constants DEF ConfigTypes
    <3>3. populated' \in Builtins .. Profiles
      BY <1>3, <2>1, Constants
    <3> QED
      BY <3>1, <3>2, <3>3 DEF ConfigTypes
<1>6. BudgetType'
  BY <1>1, SpendTyped DEF Crash
<1>7. sensor' \in SensorRow /\ client' \in [Client -> ClientRow]
  BY Constants, TodoTyped DEF Crash, Asleep, Quiet, SensorRow, ClientRow, At
<1> QED
  BY <1>4, <1>5, <1>6, <1>7, PrimedTypeParts

-----------------------------------------------------------------------------
(* Cycles are travelled.                                                    *)

LEMMA CyclesKept ==
  ASSUME BatteryInvariant, travel' = travel,
         cache'.cycles =< travel, nvs' = nvs \/ nvs' = Absent \/ nvs'.cycles =< travel,
         sensor'.copy.cycles =< travel, \A t \in Client : client'[t].copy.cycles =< travel,
         lastDir' = 0 \/ UNCHANGED <<lastDir, cache, seen>>
  PROVE  CyclesAreTravel' /\ Copies'
<1>1. travel \in Nat /\ CyclesAreTravel /\ Copies
  BY DEF BatteryInvariant, TypeOK
<1>2. (Flash.cycles)' =< travel
  <2>1. CASE nvs' = nvs
    BY <1>1, <2>1 DEF Flash, CyclesAreTravel
  <2>2. CASE nvs' = Absent
    BY <1>1, <2>2, Constants DEF Flash
  <2>3. CASE nvs'.cycles =< travel
    BY <1>1, <2>3, Constants DEF Flash
  <2> QED
    BY <2>1, <2>2, <2>3
<1>3. lastDir' # 0 => cache'.cycles + Abs(cache'.soc - cache'.start) =< travel /\ seen' = cache'.soc
  BY <1>1 DEF CyclesAreTravel, Copies
<1> QED
  BY <1>2, <1>3 DEF CyclesAreTravel, Copies

LEMMA TickKeepsCycles ==
  ASSUME BatteryInvariant, NEW st \in State, NEW dir \in -1 .. 1, CycleTick(st, dir), st.cycles =< travel,
         dir # 0 => seen = st.soc /\ st.cycles + Abs(st.soc - st.start) =< travel
  PROVE  CyclesAreTravel' /\ Copies'
<1> DEFINE new == AfterTick(st, dir)
           t   == IF seen = -1 THEN travel ELSE travel + Abs(Soc - seen)
<1>1. TypeOK /\ CyclesAreTravel /\ Copies /\ travel \in Nat
  BY DEF BatteryInvariant, TypeOK
<1>2. /\ new \in State /\ t \in Nat /\ travel =< t /\ new.soc = Soc /\ new.cycles =< t
      /\ dir # 0 \/ Sign(sensor.current) # 0 => new.cycles + Abs(Soc - new.start) =< t
  BY <1>1, TickIsTravel
<1>3. cache' = new /\ travel' = t /\ seen' = Soc /\ nvs' = nvs /\ client' = client
  BY DEF CycleTick
<1>4. lastDir' # 0 => dir # 0 \/ Sign(sensor.current) # 0
  BY Zenon DEF CycleTick
<1>5. sensor'.copy = Zero
  BY DEF CycleTick, Asleep
<1>6. (Flash.cycles)' =< t
  <2>1. Flash' = Flash /\ Flash.cycles =< travel /\ Flash.cycles \in Int
    BY <1>1, <1>3, FlashTyped DEF Flash, CyclesAreTravel, State
  <2> HIDE DEF t
  <2> QED
    BY <1>1, <1>2, <2>1
<1>7. \A u \in Client : client'[u].copy.cycles =< t
  <2> TAKE u \in Client
  <2>1. client[u].copy.cycles \in Int /\ client[u].copy.cycles =< travel
    BY <1>1, RowTyped DEF Copies, ClientRow, State
  <2> HIDE DEF t
  <2> QED
    BY <1>1, <1>2, <1>3, <2>1
<1>8. sensor'.copy.cycles =< t
  BY <1>2, <1>5, Constants
<1> HIDE DEF new, t
<1>9. CyclesAreTravel'
  BY <1>2, <1>3, <1>4, <1>6 DEF CyclesAreTravel
<1>10. Copies'
  BY <1>2, <1>3, <1>7, <1>8 DEF Copies
<1> QED
  BY <1>9, <1>10

LEMMA CycleStepSensor ==
  ASSUME BatteryInvariant, SensorStep
  PROVE  CyclesAreTravel' /\ Copies' /\ \A t \in Client : client'[t].todo \in Todo
<1>1. /\ TypeOK /\ CyclesAreTravel /\ Copies /\ travel \in Nat /\ client' = client
      /\ \A t \in Client : client[t].todo \in Todo
  BY DEF BatteryInvariant, TypeOK, SensorStep, ReadCurrent, Store, ReadArgument, SaveCharge, UpdateCycles, InstallAndUpdate, SkipChannel,
         CopyState, PutState, CycleTick
<1>2. sensor \in SensorRow /\ cache \in State /\ lastDir \in -1 .. 1
  BY <1>1 DEF TypeOK, SensorRow
<1>3. /\ cache.cycles =< travel /\ Flash.cycles =< travel /\ sensor.copy.cycles =< travel /\ Zero.cycles =< travel
      /\ \A t \in Client : client'[t].copy.cycles =< travel
  BY <1>1, Constants DEF CyclesAreTravel, Copies
<1>4. CyclesAreTravel' /\ Copies'
  <2>1. CASE ReadCurrent \/ Store \/ ReadArgument \/ SaveCharge
    <3>1. UNCHANGED <<cache, lastDir, nvs, travel, seen>> /\ sensor'.copy = sensor.copy
      BY <1>2, <2>1 DEF ReadCurrent, Store, ReadArgument, SaveCharge, cycle, history, SensorRow
    <3> QED
      BY <1>3, <3>1, CyclesKept
  <2>2. CASE UpdateCycles
    <3>1. CASE CycleTick(cache, lastDir)
      BY <1>1, <1>2, <3>1, TickKeepsCycles DEF CyclesAreTravel, Copies
    <3>2. CASE sensor' = [sensor EXCEPT !.pc = "load", !.copy = Flash] /\ UNCHANGED <<cycle, history>>
      <4>1. UNCHANGED <<cache, lastDir, nvs, travel, seen>> /\ sensor'.copy = Flash
        BY <1>2, <3>2 DEF cycle, history, SensorRow
      <4> QED
        BY <1>3, <4>1, CyclesKept
    <3> QED
      BY <2>2, <3>1, <3>2 DEF UpdateCycles
  <2>3. CASE InstallAndUpdate
    <3>1. CycleTick(sensor.copy, 0) /\ sensor.copy \in State
      BY <1>2, <2>3 DEF InstallAndUpdate, SensorRow
    <3> QED
      BY <1>3, <3>1, TickKeepsCycles
  <2>4. CASE SkipChannel
    <3>1. UNCHANGED <<cache, lastDir, nvs, travel, seen>> /\ sensor'.copy = Zero
      BY <2>4 DEF SkipChannel, Asleep, cycle, history
    <3> QED
      BY <1>3, <3>1, CyclesKept
  <2>5. CASE CopyState
    <3>1. UNCHANGED <<cache, lastDir, nvs, travel, seen>> /\ sensor'.copy = cache
      BY <2>5 DEF CopyState, Asleep, cycle, history
    <3> QED
      BY <1>3, <3>1, CyclesKept
  <2>6. CASE PutState
    <3>1. UNCHANGED <<cache, lastDir, travel, seen>> /\ nvs' \in {nvs, sensor.copy} /\ sensor'.copy = Zero
      BY <2>6 DEF PutState, Asleep, history
    <3> QED
      BY <1>3, <3>1, CyclesKept
  <2> QED
    BY <2>1, <2>2, <2>3, <2>4, <2>5, <2>6 DEF SensorStep
<1> QED
  BY <1>1, <1>4

LEMMA CycleStepClient ==
  ASSUME BatteryInvariant, NEW t \in Client,
         \/ BeginCommand(t) \/ Get(t) \/ ResetCycles(t) \/ ResetState(t) \/ ResetCharge(t)
         \/ Bind(t) \/ BindVersion(t) \/ SetProfile(t) \/ DeleteProfile(t)
  PROVE  CyclesAreTravel' /\ Copies' /\ \A u \in Client : client'[u].todo \in Todo
<1>1. (\A u \in Client : client'[u].todo \in Todo /\ client'[u].copy.cycles =< travel) /\ sensor' = sensor
  <2>1. sensor' = sensor
    BY DEF Others, BeginCommand, Get, ResetCycles, ResetState, ResetCharge, Bind, BindVersion, SetProfile, DeleteProfile
  <2> QED
    BY <2>1, ClientTurns, TurnKeeps
<1>2. /\ cache.cycles =< travel /\ sensor'.copy.cycles =< travel /\ Zero.cycles =< travel
      /\ client[t].copy.cycles =< travel
  BY <1>1, Constants DEF BatteryInvariant, TypeOK, CyclesAreTravel, Copies
<1>3. CyclesAreTravel' /\ Copies'
  <2>1. CASE Get(t)
    <3>1. /\ UNCHANGED <<nvs, travel, seen>>
          /\ (cache' = cache /\ lastDir' = lastDir) \/ (cache' = client[t].copy /\ lastDir' = 0)
      <4>1. UNCHANGED <<nvs, travel, seen>>
        BY <2>1 DEF Get, history
      <4>2. \/ cache' = cache /\ lastDir' = lastDir
            \/ cache' = client[t].copy /\ lastDir' = 0
        BY <2>1 DEF Get
      <4> QED
        BY <4>1, <4>2
    <3> QED
      BY <1>1, <1>2, <3>1, CyclesKept
  <2>2. CASE ResetCycles(t)
    <3>1. /\ UNCHANGED <<travel, seen>>
          /\ (cache' = cache /\ lastDir' = lastDir) \/ (cache' = Zero /\ lastDir' = 0)
          /\ nvs' \in {nvs, client[t].copy}
      <4>1. UNCHANGED <<travel, seen>>
        BY <2>2 DEF ResetCycles, history
      <4>2. \/ cache' = cache /\ lastDir' = lastDir
            \/ cache' = Zero /\ lastDir' = 0
        BY <2>2 DEF ResetCycles, cycle
      <4>3. nvs' \in {nvs, client[t].copy}
        BY <2>2 DEF ResetCycles, Written, cycle
      <4> QED
        BY <4>1, <4>2, <4>3
    <3> QED
      BY <1>1, <1>2, <3>1, CyclesKept
  <2>3. CASE ResetState(t)
    <3>1. UNCHANGED <<cache, lastDir, travel, seen>> /\ nvs' \in {nvs, Zero, Absent}
      BY <2>3 DEF ResetState, Written, history
    <3> QED
      BY <1>1, <1>2, <3>1, CyclesKept
  <2>4. CASE BeginCommand(t) \/ ResetCharge(t) \/ Bind(t) \/ BindVersion(t) \/ SetProfile(t) \/ DeleteProfile(t)
    <3>1. UNCHANGED <<cache, lastDir, nvs, travel, seen>>
      BY <2>4 DEF BeginCommand, ResetCharge, Bind, BindVersion, SetProfile, DeleteProfile, SaveTable, cycle, history
    <3> QED
      BY <1>1, <1>2, <3>1, CyclesKept
  <2> QED
    BY <2>1, <2>2, <2>3, <2>4
<1> QED
  BY <1>1, <1>3

LEMMA CycleStepCrash ==
  ASSUME BatteryInvariant, Crash
  PROVE  CyclesAreTravel' /\ Copies' /\ \A t \in Client : client'[t].todo \in Todo
<1>1. \A t \in Client : client'[t].todo = << >> /\ client'[t].copy = Zero
  BY DEF Crash, Quiet
<1>2. /\ cache' = Zero /\ lastDir' = 0 /\ nvs' = nvs /\ travel' = travel /\ sensor'.copy = Zero
      /\ Zero.cycles =< travel
  BY Constants DEF Crash, Asleep, BatteryInvariant, TypeOK
<1>3. CyclesAreTravel' /\ Copies'
  BY <1>1, <1>2, CyclesKept
<1> QED
  BY <1>1, <1>3, TodoTyped

-----------------------------------------------------------------------------
(* Charge: what a crash would lose.                                         *)

LEMMA Allowance ==
  ASSUME NEW n \in Nat
  PROVE  /\ 0 =< Most * n /\ Most * (n + 1) = Most * n + Most /\ Most * n \in Nat
         /\ \A m \in Nat : n =< m => Most * n =< Most * m
<1>1. ASSUME NEW m \in Nat, n =< m PROVE Most * n =< Most * m
  <2>1. m - n \in Nat /\ Most \in Nat
    BY <1>1, MostBounds
  <2>2. Most * (m - n) \in Nat /\ Most * m = Most * n + Most * (m - n)
    BY <2>1
  <2>3. Most * n \in Nat
    BY <2>1
  <2> QED
    BY <2>2, <2>3
<1> QED
  BY <1>1, MostBounds

LEMMA OneMore ==
  ASSUME NEW a \in Int, NEW b \in Int, NEW i \in Int, NEW m \in Nat, -m =< i, i =< m
  PROVE  Abs((a + i) - b) =< Abs(a - b) + m
BY DEF Abs

LEMMA CreditType ==
  ASSUME BatteryInvariant
  PROVE  /\ Credit \in Nat /\ Interval * missed \in Nat /\ age \in Nat /\ age =< Interval
         /\ missed \in Nat /\ Interval \in Nat \ {0}
<1>1. age \in 0 .. Interval /\ missed \in Nat
  BY DEF BatteryInvariant, TypeOK
<1>2. Interval * missed \in Nat
  BY <1>1, Constants
<1> QED
  BY <1>1, <1>2, Constants DEF Credit

LEMMA IntegrationKept ==
  ASSUME BatteryInvariant, UNCHANGED <<charge, chargeNvs, raced, safe>>, Saving => Saving',
         ~ safe /\ ~ raced /\ sensor'.pc = "store" => sensor'.sum = charge + sensor'.current,
         ~ safe /\ ~ raced /\ age' = Interval => sensor'.pc \notin {"idle", "store"},
         Credit' \in Nat, Credit =< Credit'
  PROVE  Integration'
<1>1. CASE safe \/ raced
  BY <1>1 DEF Integration
<1>2. CASE ~ safe /\ ~ raced
  <2>1. Saving \/ Abs(charge - chargeNvs) =< Most * Credit
    BY <1>2 DEF BatteryInvariant, Integration
  <2>2. Most * Credit \in Nat /\ Most * Credit' \in Nat /\ Most * Credit =< Most * Credit'
    BY CreditType, Allowance
  <2>3. Abs(charge - chargeNvs) \in Int
    <3>1. charge \in Int /\ chargeNvs \in Int
      BY Constants DEF BatteryInvariant, TypeOK
    <3> QED
      BY <3>1, Magnitude
  <2>4. Abs(charge - chargeNvs) =< Most * Credit => Abs(charge - chargeNvs) =< Most * Credit'
    BY <2>2, <2>3
  <2>5. Saving' \/ Abs(charge' - chargeNvs') =< Most * Credit'
    BY <2>1, <2>4
  <2> QED
    BY <1>2, <2>5 DEF Integration
<1> QED
  BY <1>1, <1>2

\* The cycle counter's part of a pass, which restarts the timer of the periodic save.
LEMMA PassIntegrates ==
  ASSUME BatteryInvariant, UNCHANGED <<charge, chargeNvs, raced, missed, safe>>, Saving => Saving',
         sensor.pc \in {"cycle", "load", "copy", "put"}, sensor'.pc \in {"idle", "load", "copy", "put"},
         age' = age \/ (age = Interval /\ age' = 0), age' = Interval => sensor'.pc # "idle"
  PROVE  Integration'
<1>1. Credit' = Credit
  <2>1. Credit = (IF age = Interval THEN 0 ELSE age) + Interval * missed
    BY DEF Credit
  <2>2. Credit' = (IF age' = Interval THEN 0 ELSE age') + Interval * missed
    BY DEF Credit
  <2> QED
    BY <2>1, <2>2, CreditType
<1> QED
  BY <1>1, CreditType, IntegrationKept

LEMMA StoreIntegrates ==
  ASSUME BatteryInvariant, Store
  PROVE  Integration'
<1>1. charge \in Int /\ chargeNvs \in Int /\ sensor.current \in Current /\ sensor \in SensorRow
  <2>1. CounterTypes /\ sensor \in SensorRow
    BY TypeParts DEF BatteryInvariant
  <2>2. charge \in Charge /\ chargeNvs \in Charge
    BY <2>1 DEF CounterTypes
  <2> QED
    BY <2>1, <2>2, Constants DEF SensorRow
<1>2. /\ sensor.pc = "store" /\ charge' = sensor.sum /\ UNCHANGED <<raced, missed, safe, chargeNvs>>
      /\ age' = (IF age < Interval THEN age + 1 ELSE age)
  BY DEF Store, history
<1>3. sensor'.pc = (IF age' = Interval THEN "argument" ELSE "cycle") /\ Saving' = Saving
  BY <1>1 DEF Store, SensorRow, Saving, At1
<1>4. CASE safe \/ raced
  BY <1>2, <1>4 DEF Integration
<1>5. CASE ~ safe /\ ~ raced
  <2>1. /\ sensor.sum = charge + sensor.current /\ age # Interval
        /\ Saving \/ Abs(charge - chargeNvs) =< Most * Credit
    BY <1>2, <1>5 DEF BatteryInvariant, Integration
  <2>2. CASE Saving
    BY <1>3, <2>2 DEF Integration
  <2>3. CASE ~ Saving
    <3>1. Credit' = Credit + 1
      <4>1. Credit = age + Interval * missed
        BY <2>1 DEF Credit
      <4>2. age' = age + 1
        BY <1>2, <2>1, CreditType
      <4>3. Credit' = age' + Interval * missed
        BY <1>2, <1>3 DEF Credit
      <4> QED
        BY <4>1, <4>2, <4>3, CreditType
    <3>2. Abs((charge + sensor.current) - chargeNvs) =< Abs(charge - chargeNvs) + Most
      <4>1. -Most =< sensor.current /\ sensor.current =< Most /\ Most \in Nat /\ sensor.current \in Int
        BY <1>1, MostBounds, Constants
      <4> QED
        BY <1>1, <4>1, OneMore
    <3>3. Abs(charge - chargeNvs) =< Most * Credit
      BY <2>1, <2>3
    <3>4. Most * (Credit + 1) = Most * Credit + Most /\ Most * Credit \in Nat
      BY CreditType, Allowance
    <3>5. Abs(charge - chargeNvs) \in Int /\ Abs((charge + sensor.current) - chargeNvs) \in Int /\ Most \in Int
      <4>1. sensor.current \in Int
        BY <1>1, Constants
      <4>2. charge - chargeNvs \in Int /\ (charge + sensor.current) - chargeNvs \in Int
        BY <1>1, <4>1
      <4> QED
        BY <4>2, Magnitude, MostBounds
    <3>6. Abs((charge + sensor.current) - chargeNvs) =< Most * (Credit + 1)
      BY <3>2, <3>3, <3>4, <3>5
    <3>7. charge' = charge + sensor.current /\ chargeNvs' = chargeNvs
      BY <1>2, <2>1
    <3>8. Abs(charge' - chargeNvs') =< Most * Credit'
      BY <3>1, <3>6, <3>7
    <3> QED
      BY <1>3, <3>8 DEF Integration
  <2> QED
    BY <2>2, <2>3
<1> QED
  BY <1>4, <1>5

LEMMA SaveIntegrates ==
  ASSUME BatteryInvariant, SaveCharge
  PROVE  Integration'
<1>1. sensor \in SensorRow /\ charge \in Int /\ client' = client /\ age' = age
  <2>1. CounterTypes /\ sensor \in SensorRow
    BY TypeParts DEF BatteryInvariant
  <2> QED
    BY <2>1, Constants DEF CounterTypes, SaveCharge
<1>2. sensor.pc = "save" /\ sensor'.pc = "cycle" /\ UNCHANGED <<charge, safe>>
  BY <1>1 DEF SaveCharge, SensorRow
<1>3. Saving => Saving'
  BY <1>1 DEF Saving, At1
<1>4. CASE chargeNvs' = sensor.sum /\ raced' = (sensor.sum # charge) /\ missed' = 0
  <2>1. CASE raced'
    BY <2>1 DEF Integration
  <2>2. CASE ~ raced'
    <3>0. sensor.sum = charge
      BY <1>4, <2>2
    <3>1. Abs(charge' - chargeNvs') = 0
      <4>1. charge' = charge /\ chargeNvs' = charge
        BY <1>2, <1>4, <3>0
      <4> QED
        BY <1>1, <4>1 DEF Abs
    <3>2. Credit' \in Nat
      BY <1>1, <1>4, CreditType DEF Credit
    <3>3. 0 =< Most * Credit'
      BY <3>2, Allowance
    <3> QED
      BY <1>2, <3>1, <3>3 DEF Integration
  <2> QED
    BY <2>1, <2>2
<1>5. CASE missed' = missed + 1 /\ UNCHANGED <<chargeNvs, raced>>
  <2>1. Credit = age + Interval * missed
    BY <1>2 DEF Credit
  <2>2. Credit' = (IF age = Interval THEN 0 ELSE age) + Interval * (missed + 1)
    BY <1>1, <1>2, <1>5 DEF Credit
  <2>3. Interval * (missed + 1) = Interval * missed + Interval
    BY CreditType
  <2>4. Credit' \in Nat /\ Credit =< Credit'
    BY <2>1, <2>2, <2>3, CreditType
  <2> QED
    BY <1>2, <1>3, <1>5, <2>4, IntegrationKept
<1> QED
  BY <1>4, <1>5 DEF SaveCharge

LEMMA IntegrationStepSensor ==
  ASSUME BatteryInvariant, SensorStep
  PROVE  Integration'
<1>1. client' = client /\ safe' = safe
  BY DEF SensorStep, ReadCurrent, Store, ReadArgument, SaveCharge, UpdateCycles, InstallAndUpdate, SkipChannel,
         CopyState, PutState, CycleTick
<1>2. Saving => Saving'
  BY <1>1 DEF Saving, At1
<1>3. sensor \in SensorRow
  BY DEF BatteryInvariant, TypeOK, SensorRow
<1>4. ASSUME NEW st, NEW dir, CycleTick(st, dir), sensor.pc \in {"cycle", "load"} PROVE Integration'
  <2>1. UNCHANGED <<charge, chargeNvs, raced, missed>> /\ (age' = age \/ (age = Interval /\ age' = 0))
    BY <1>4 DEF CycleTick, coulomb
  <2>2. sensor'.pc \in {"idle", "copy"} /\ (age' = Interval => sensor'.pc # "idle")
    <3>1. sensor'.pc = (IF AfterTick(st, dir).cycles > st.cycles \/ SaveDue THEN "copy" ELSE "idle")
      BY <1>4 DEF CycleTick, Asleep
    <3>2. age' = Interval => SaveDue
      BY <1>4, CreditType DEF CycleTick, SaveDue
    <3> QED
      BY <3>1, <3>2, Zenon
  <2> QED
    BY <1>1, <1>2, <1>4, <2>1, <2>2, PassIntegrates
<1>5. CASE ReadCurrent
  <2>1. /\ UNCHANGED <<charge, chargeNvs, raced, missed, age>> /\ sensor.pc = "idle" /\ sensor'.pc = "store"
        /\ sensor'.sum = charge + sensor'.current
    BY <1>3, <1>5 DEF ReadCurrent, coulomb, history, SensorRow
  <2>2. Credit' = Credit
    BY <2>1 DEF Credit
  <2>3. ~ safe /\ ~ raced => age' # Interval
    BY <2>1 DEF BatteryInvariant, Integration
  <2> QED
    BY <1>1, <1>2, <2>1, <2>2, <2>3, CreditType, IntegrationKept
<1>6. CASE Store
  BY <1>6, StoreIntegrates
<1>7. CASE ReadArgument
  <2>1. UNCHANGED <<charge, chargeNvs, raced, missed, age>> /\ sensor.pc = "argument" /\ sensor'.pc = "save"
    BY <1>3, <1>7 DEF ReadArgument, coulomb, history, SensorRow
  <2>2. Credit' = Credit
    BY <2>1 DEF Credit
  <2> QED
    BY <1>1, <1>2, <2>1, <2>2, CreditType, IntegrationKept
<1>8. CASE SaveCharge
  BY <1>8, SaveIntegrates
<1>9. CASE UpdateCycles
  <2>1. CASE CycleTick(cache, lastDir)
    BY <1>4, <1>9, <2>1 DEF UpdateCycles
  <2>2. CASE sensor' = [sensor EXCEPT !.pc = "load", !.copy = Flash] /\ UNCHANGED <<coulomb, age, history>>
    <3>1. sensor'.pc = "load" /\ sensor.pc = "cycle" /\ UNCHANGED <<charge, chargeNvs, raced, missed>>
      BY <1>3, <1>9, <2>2 DEF SensorRow, UpdateCycles, coulomb, history
    <3> QED
      BY <1>1, <1>2, <2>2, <3>1, PassIntegrates
  <2> QED
    BY <1>9, <2>1, <2>2 DEF UpdateCycles
<1>10. CASE InstallAndUpdate
  BY <1>4, <1>10 DEF InstallAndUpdate
<1>11. CASE SkipChannel \/ PutState
  <2>1. UNCHANGED <<charge, chargeNvs, raced, missed>> /\ age' = IF age = Interval THEN 0 ELSE age
    BY <1>11 DEF SkipChannel, PutState, coulomb, history
  <2>2. sensor.pc \in {"cycle", "put"} /\ sensor'.pc \in {"idle", "copy"}
    BY <1>11 DEF SkipChannel, PutState, Asleep
  <2>3. age' # Interval
    BY <2>1, CreditType
  <2> QED
    BY <1>1, <1>2, <2>1, <2>2, <2>3, PassIntegrates
<1>12. CASE CopyState
  <2>1. UNCHANGED <<charge, chargeNvs, raced, missed, age>> /\ sensor.pc = "copy" /\ sensor'.pc = "put"
    BY <1>12 DEF CopyState, Asleep, coulomb, history
  <2> QED
    BY <1>1, <1>2, <2>1, PassIntegrates
<1> QED
  BY <1>5, <1>6, <1>7, <1>8, <1>9, <1>10, <1>11, <1>12 DEF SensorStep

LEMMA ResetIntegrates ==
  ASSUME BatteryInvariant, NEW t \in Client, ResetCharge(t)
  PROVE  Integration'
<1>1. client \in [Client -> ClientRow] /\ charge \in Int
  <2>1. CounterTypes /\ client \in [Client -> ClientRow]
    BY TypeParts DEF BatteryInvariant
  <2> QED
    BY <2>1, Constants DEF CounterTypes
<1>2. UNCHANGED <<sensor, age, missed, safe>>
  BY DEF ResetCharge, Others
<1>3. CASE raced' \/ safe'
  BY <1>3 DEF Integration
<1>4. CASE ~ raced' /\ ~ safe'
  <2>1. ~ raced /\ ~ safe
    BY <1>2, <1>4 DEF ResetCharge
  <2>2. /\ sensor.pc = "store" => sensor.sum = charge + sensor.current
        /\ age = Interval => sensor.pc \notin {"idle", "store"}
    BY <2>1 DEF BatteryInvariant, Integration
  <2>3. CASE At1(t, "charge", "start") /\ Next1(t, "save") /\ sensor.pc # "store"
    <3>1. At1(t, "charge", "save")'
      BY <1>1, <2>3 DEF At1, Next1, ClientRow
    <3>2. Saving'
      BY <3>1 DEF Saving
    <3> QED
      BY <1>2, <2>2, <2>3, <3>2 DEF Integration
  <2>4. CASE charge = chargeNvs' /\ charge' = charge
    <3>1. Abs(charge' - chargeNvs') = 0
      <4>1. charge' = charge /\ chargeNvs' = charge
        BY <2>4
      <4> QED
        BY <1>1, <4>1 DEF Abs
    <3>2. Credit' = Credit
      BY <1>2 DEF Credit
    <3>3. Credit' \in Nat
      BY <3>2, CreditType
    <3>4. 0 =< Most * Credit'
      BY <3>3, Allowance
    <3> QED
      BY <1>2, <2>2, <2>4, <3>1, <3>4 DEF Integration
  <2> QED
    BY <1>4, <2>3, <2>4 DEF ResetCharge
<1> QED
  BY <1>3, <1>4

LEMMA IntegrationStepClient ==
  ASSUME BatteryInvariant, NEW t \in Client,
         \/ BeginCommand(t) \/ Get(t) \/ ResetCycles(t) \/ ResetState(t)
         \/ Bind(t) \/ BindVersion(t) \/ SetProfile(t) \/ DeleteProfile(t)
  PROVE  Integration'
<1>1. ~ At1(t, "charge", "save")
  <2>1. CASE BeginCommand(t) \/ SetProfile(t) \/ DeleteProfile(t) \/ Bind(t)
    BY <2>1 DEF BeginCommand, SetProfile, DeleteProfile, Bind, Begin, At1
  <2>2. CASE Get(t) \/ ResetCycles(t) \/ ResetState(t) \/ BindVersion(t)
    BY <2>2 DEF Get, ResetCycles, ResetState, BindVersion, At1
  <2> QED
    BY <2>1, <2>2
<1>2. Saving => Saving'
  BY <1>1, ClientTurns, SavingKept
<1>3. UNCHANGED <<sensor, age, raced, missed, safe, charge, chargeNvs>>
  <2>1. UNCHANGED <<sensor, age, safe>>
    BY DEF Others, BeginCommand, Get, ResetCycles, ResetState, Bind, BindVersion, SetProfile, DeleteProfile
  <2>2. UNCHANGED <<coulomb, history>>
    BY DEF BeginCommand, Get, ResetCycles, ResetState, Bind, BindVersion, SetProfile, DeleteProfile, SaveTable
  <2> QED
    BY <2>1, <2>2 DEF coulomb, history
<1>4. Credit' = Credit
  BY <1>3 DEF Credit
<1> QED
  BY <1>2, <1>3, <1>4, CreditType, IntegrationKept DEF BatteryInvariant, Integration

LEMMA IntegrationStepCrash ==
  ASSUME BatteryInvariant, Crash
  PROVE  Integration'
<1>1. CASE safe'
  BY <1>1 DEF Integration
<1>2. CASE ~ safe'
  <2>1. /\ charge' = chargeNvs /\ chargeNvs' = chargeNvs /\ age' = 0 /\ missed' = 0 /\ age' # Interval
        /\ sensor'.pc = "idle" /\ chargeNvs \in Int
    BY <1>2, Constants DEF Crash, Asleep, BatteryInvariant, TypeOK
  <2>2. Abs(charge' - chargeNvs') = 0
    BY <2>1 DEF Abs
  <2>3. Credit' = 0
    BY <2>1, Constants DEF Credit
  <2>4. Most * Credit' = 0
    BY <2>3, MostBounds
  <2> QED
    BY <2>1, <2>2, <2>4 DEF Integration
<1> QED
  BY <1>1, <1>2

-----------------------------------------------------------------------------
(* Configuration.                                                           *)

LEMMA SlotsKept ==
  ASSUME BatteryInvariant, UNCHANGED <<safe, table, populated, tableNvs, tableVer, tableOk>>
  PROVE  Slots'
BY DEF BatteryInvariant, Slots, TableRead

LEMMA BindingsKept ==
  ASSUME BatteryInvariant, UNCHANGED <<safe, bind, bindNvs, bindVer, bindOk>>, Versioning' = Versioning
  PROVE  Bindings'
BY DEF BatteryInvariant, Bindings

\* A set of slots and its count are stored together; the built-in ones stay.
LEMMA SaveKeepsSlots ==
  ASSUME BatteryInvariant, NEW ids \in SUBSET Id, NEW n, SaveTable(ids, n), safe' = safe,
         ~ safe => BuiltinId \subseteq ids /\ n = PopulatedBy(ids)
  PROVE  Slots'
<1> SUFFICES ASSUME ~ safe
             PROVE  /\ BuiltinId \subseteq table' /\ populated' = PopulatedBy(table')
                    /\ tableOk' /\ tableVer' => TableRead' = table'
  BY DEF Slots
<1>1. PICK ok \in BOOLEAN : table' = ids /\ populated' = n /\ tableNvs' = (IF ok THEN ids ELSE tableNvs) /\ tableOk' = ok
  BY DEF SaveTable, Written, Outcomes
<1>2. ok => BuiltinId \cup tableNvs' = ids
  BY <1>1
<1> QED
  BY <1>1, <1>2 DEF TableRead

LEMMA SlotsStepClient ==
  ASSUME BatteryInvariant, NEW t \in Client, SetProfile(t) \/ DeleteProfile(t)
  PROVE  Slots'
<1>1. /\ table \in SUBSET Id /\ populated \in Builtins .. Profiles /\ safe' = safe
      /\ ~ safe => BuiltinId \subseteq table /\ IsPopulated(populated, table)
  <2>1. table \in SUBSET Id /\ populated \in Builtins .. Profiles /\ Slots
    BY TypeParts DEF BatteryInvariant, ConfigTypes
  <2>2. safe' = safe
    BY DEF SetProfile, DeleteProfile, Others
  <2>3. IsPopulated(PopulatedBy(table), table)
    BY <2>1, PopulatedIs
  <2> QED
    BY <2>1, <2>2, <2>3, Zenon DEF Slots
<1>2. CASE SetProfile(t)
  <2> DEFINE count(id) == IF id + 1 > populated THEN id + 1 ELSE populated
  <2>1. PICK id \in Id : SaveTable(table \cup {id}, count(id))
    BY <1>2 DEF SetProfile
  <2>2. ~ safe => IsPopulated(count(id), table \cup {id})
    <3> SUFFICES ASSUME ~ safe PROVE IsPopulated(count(id), table \cup {id})
      OBVIOUS
    <3>1. IsPopulated(populated, table) /\ id \in 0 .. Profiles - 1 /\ table \subseteq Nat
      BY <1>1, Constants DEF Id
    <3>2. count(id) \in Builtins .. Profiles
      BY <1>1, <3>1, Constants
    <3>3. \A i \in table \cup {id} : i < count(id)
      BY <1>1, <3>1, Constants DEF IsPopulated
    <3>4. count(id) = Builtins \/ count(id) - 1 \in table \cup {id}
      BY <1>1, <3>1, Constants DEF IsPopulated
    <3> QED
      BY <3>2, <3>3, <3>4 DEF IsPopulated
  <2>3. table \cup {id} \in SUBSET Id
    BY <1>1
  <2>4. ~ safe => BuiltinId \subseteq table \cup {id} /\ count(id) = PopulatedBy(table \cup {id})
    BY <1>1, <2>2, <2>3, PopulatedUnique
  <2> HIDE DEF count
  <2> QED
    BY <1>1, <2>1, <2>3, <2>4, SaveKeepsSlots
<1>3. CASE DeleteProfile(t)
  <2>1. PICK id \in Builtins .. populated - 1 : SaveTable(table \ {id}, Trimmed(table \ {id}, id))
    BY <1>3 DEF DeleteProfile
  <2>2. table \ {id} \in SUBSET Id
    BY <1>1
  <2>3. ~ safe => Trimmed(table \ {id}, id) = PopulatedBy(table \ {id})
    <3>1. CASE id + 1 = populated
      BY <3>1 DEF Trimmed
    <3>2. CASE id + 1 # populated /\ ~ safe
      <4>1. IsPopulated(populated, table \ {id})
        BY <1>1, <3>2, Constants DEF IsPopulated
      <4> QED
        BY <2>2, <3>2, <4>1, PopulatedUnique DEF Trimmed
    <3> QED
      BY <3>1, <3>2
  <2>4. ~ safe => BuiltinId \subseteq table \ {id}
    BY <1>1, Constants DEF BuiltinId
  <2> QED
    BY <1>1, <2>1, <2>2, <2>3, <2>4, SaveKeepsSlots
<1> QED
  BY <1>2, <1>3

LEMMA ConfigStepCrash ==
  ASSUME BatteryInvariant, Crash
  PROVE  Slots' /\ Bindings'
<1>1. UNCHANGED <<tableNvs, tableVer, bindNvs, bindVer>>
  BY DEF Crash
<1>2. TableRead' = TableRead
  BY <1>1 DEF TableRead
<1>3. ~ Versioning'
  <2>1. \A t \in Client : client'[t].todo = << >>
    BY DEF Crash, Quiet
  <2> QED
    BY <2>1, EmptyIsOther DEF Versioning
<1>4. ~ safe' => table' = TableRead /\ populated' = PopulatedBy(TableRead) /\ bind' = BindingRead
  BY DEF Crash
<1>5. BuiltinId \subseteq TableRead
  BY DEF TableRead
<1>6. Slots'
  BY <1>2, <1>4, <1>5 DEF Slots
<1>7. Bindings'
  BY <1>1, <1>3, <1>4 DEF Bindings, BindingRead
<1> QED
  BY <1>6, <1>7

LEMMA BindStep ==
  ASSUME BatteryInvariant, NEW t \in Client, Bind(t) \/ BindVersion(t)
  PROVE  Bindings'
<1>1. Bindings /\ safe' = safe
  BY DEF BatteryInvariant, Bind, BindVersion, Others
<1>2. CASE Bind(t)
  BY <1>2 DEF Bind, Written, Bindings
<1>3. CASE BindVersion(t)
  <2>1. client[t].todo = <<"version">>
    BY <1>3, VersionTurn
  <2>2. Versioning
    BY <2>1 DEF Versioning
  <2>3. UNCHANGED <<bind, bindNvs, bindOk>>
    BY <1>3 DEF BindVersion
  <2> QED
    BY <1>1, <2>2, <2>3 DEF Bindings
<1> QED
  BY <1>2, <1>3

LEMMA ConfigStep ==
  ASSUME BatteryInvariant, [Next]_vars
  PROVE  Slots' /\ Bindings'
<1>1. CASE Crash
  BY <1>1, ConfigStepCrash
<1>2. CASE SensorStep \/ UNCHANGED vars
  <2>1. UNCHANGED <<config, safe, client>>
    BY <1>2 DEF SensorStep, ReadCurrent, Store, ReadArgument, SaveCharge, UpdateCycles, InstallAndUpdate, SkipChannel, CopyState, PutState,
                CycleTick, vars
  <2>2. Versioning' = Versioning
    BY <2>1 DEF Versioning
  <2> QED
    BY <2>1, <2>2, SlotsKept, BindingsKept DEF config
<1>3. ASSUME NEW t \in Client, BeginCommand(t) \/ Get(t) \/ ResetCycles(t) \/ ResetState(t) \/ ResetCharge(t)
      PROVE  Slots' /\ Bindings'
  <2>1. UNCHANGED <<config, safe>>
    BY <1>3 DEF Others, BeginCommand, Get, ResetCycles, ResetState, ResetCharge
  <2>2. PICK row : Turn(t, row) /\ row.todo # <<"version">> /\ client[t].todo # <<"version">>
    <3>1. CASE BeginCommand(t)
      BY <3>1, BeginTurn, EmptyIsOther
    <3>2. CASE Get(t)
      BY <3>2, GetTurn
    <3>3. CASE ResetCycles(t)
      BY <3>3, CyclesTurn
    <3>4. CASE ResetState(t)
      BY <3>4, StateTurn
    <3>5. CASE ResetCharge(t)
      BY <3>5, ChargeTurn
    <3> QED
      BY <1>3, <3>1, <3>2, <3>3, <3>4, <3>5
  <2> QED
    BY <2>1, <2>2, VersioningKept, SlotsKept, BindingsKept DEF config
<1>4. ASSUME NEW t \in Client, SetProfile(t) \/ DeleteProfile(t)
      PROVE  Slots' /\ Bindings'
  <2>1. UNCHANGED <<safe, bind, bindNvs, bindVer, bindOk>>
    BY <1>4 DEF Others, SetProfile, DeleteProfile, SaveTable
  <2>2. PICK row : Turn(t, row) /\ row.todo # <<"version">> /\ client[t].todo # <<"version">>
    BY <1>4, BeginTurn
  <2> QED
    BY <1>4, <2>1, <2>2, VersioningKept, BindingsKept, SlotsStepClient
<1>5. ASSUME NEW t \in Client, Bind(t) \/ BindVersion(t)
      PROVE  Slots' /\ Bindings'
  <2>1. UNCHANGED <<safe, table, populated, tableNvs, tableVer, tableOk>>
    BY <1>5 DEF Others, Bind, Written, BindVersion
  <2> QED
    BY <1>5, <2>1, BindStep, SlotsKept
<1> QED
  BY <1>1, <1>2, <1>3, <1>4, <1>5 DEF Next, SensorStep

-----------------------------------------------------------------------------
(* The invariant holds, and what it implies.                                *)

LEMMA InvariantStep == BatteryInvariant /\ [Next]_vars => BatteryInvariant'
<1> SUFFICES ASSUME BatteryInvariant, [Next]_vars PROVE BatteryInvariant'
  OBVIOUS
<1>1. TypeOK' /\ CyclesAreTravel' /\ Copies' /\ Integration' /\ \A t \in Client : client'[t].todo \in Todo
  <2>1. CASE Crash
    BY <2>1, TypeStepCrash, CycleStepCrash, IntegrationStepCrash
  <2>2. CASE SensorStep
    BY <2>2, TypeStepSensor, CycleStepSensor, IntegrationStepSensor
  <2>3. ASSUME NEW t \in Client,
               \/ BeginCommand(t) \/ Get(t) \/ ResetCycles(t) \/ ResetState(t) \/ ResetCharge(t)
               \/ Bind(t) \/ BindVersion(t) \/ SetProfile(t) \/ DeleteProfile(t)
        PROVE  TypeOK' /\ CyclesAreTravel' /\ Copies' /\ Integration' /\ \A u \in Client : client'[u].todo \in Todo
    <3>1. Integration'
      BY <2>3, ResetIntegrates, IntegrationStepClient
    <3> QED
      BY <2>3, <3>1, TypeStepClient, CycleStepClient
  <2>4. CASE UNCHANGED vars
    BY <2>4 DEF vars, coulomb, cycle, config, history, BatteryInvariant, TypeOK, CyclesAreTravel, Copies, Flash,
                Integration, Credit, Saving, At1
  <2> QED
    BY <2>1, <2>2, <2>3, <2>4 DEF Next, SensorStep
<1> QED
  BY <1>1, ConfigStep DEF BatteryInvariant

LEMMA InvariantHolds == Spec => []BatteryInvariant
BY InvariantInit, InvariantStep, PTL DEF Spec

\* Every reachable state is well typed: the counter stays within its bounds, the number of
\* slots in use within the table.
THEOREM BatteryTypeCorrect == Spec => []TypeOK
<1>1. BatteryInvariant => TypeOK
  BY DEF BatteryInvariant
<1> QED
  BY <1>1, InvariantHolds, PTL

\* The cycle counter never counts, in RAM or in flash, what the state of charge has not moved,
\* through late loads, resets by any number of tasks, and reboots.
THEOREM CyclesTravelled == Spec => []CyclesAreTravel
<1>1. BatteryInvariant => CyclesAreTravel
  BY DEF BatteryInvariant
<1> QED
  BY <1>1, InvariantHolds, PTL

\* update_coulomb_counter() and reset_coulomb_counter(): a crash loses what was integrated since
\* the last save that was stored, at the most, whatever resets and refused saves came between,
\* but for the cases that are named.
THEOREM CrashLosesLittle == Spec => []ChargeLossBounded
<1>1. BatteryInvariant => ChargeLossBounded
  <2> SUFFICES ASSUME BatteryInvariant, ~ safe, ~ raced, ~ Saving
               PROVE  Abs(charge - chargeNvs) =< Most * (age + Interval * missed)
    BY DEF ChargeLossBounded, Saving
  <2>1. Abs(charge - chargeNvs) =< Most * Credit
    BY DEF BatteryInvariant, Integration
  <2>2. Credit \in Nat /\ Interval * missed \in Nat /\ age \in Nat
    BY CreditType
  <2>3. Credit =< age + Interval * missed
    BY <2>2, CreditType DEF Credit
  <2>4. Most * Credit =< Most * (age + Interval * missed)
    <3> DEFINE b == age + Interval * missed
    <3>1. b \in Nat
      BY <2>2
    <3> HIDE DEF b
    <3>2. Credit =< b
      BY <2>3 DEF b
    <3>3. Most * Credit =< Most * b
      BY <2>2, <3>1, <3>2, Allowance
    <3> QED
      BY <3>3 DEF b
  <2>5. Abs(charge - chargeNvs) \in Int
    <3>1. charge \in Int /\ chargeNvs \in Int
      BY Constants DEF BatteryInvariant, TypeOK
    <3> QED
      BY <3>1, Magnitude
  <2>6. Most * Credit \in Int /\ Most * (age + Interval * missed) \in Int
    BY <2>2, MostBounds
  <2> QED
    BY <2>1, <2>4, <2>5, <2>6
<1> QED
  BY <1>1, InvariantHolds, PTL

\* Profiles and bindings: with their version key in flash, what was stored with success is what
\* the next boot reads.
THEOREM ConfigurationLasts == Spec => []ConfigurationDurable
<1>1. BatteryInvariant => ConfigurationDurable
  <2> SUFFICES ASSUME BatteryInvariant, ~ safe
               PROVE  /\ bindOk /\ bindVer => BindingRead = bind
                      /\ tableOk /\ tableVer => TableRead = table /\ PopulatedBy(TableRead) = populated
    BY DEF ConfigurationDurable
  <2>1. bindOk /\ bindVer => BindingRead = bind
    BY DEF BatteryInvariant, Bindings, BindingRead
  <2>2. tableOk /\ tableVer => TableRead = table /\ PopulatedBy(TableRead) = populated
    BY DEF BatteryInvariant, Slots
  <2> QED
    BY <2>1, <2>2
<1> QED
  BY <1>1, InvariantHolds, PTL
=============================================================================
