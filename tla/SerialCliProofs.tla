--------------------------- MODULE SerialCliProofs ---------------------------
(***************************************************************************)
(* What is proved of SerialCli for every set of lines and endings, any     *)
(* number of lines, any size of the buffer, and however the bytes of the   *)
(* lines are spread over the reads.                                        *)
(***************************************************************************)
EXTENDS SerialCli, FiniteSetTheorems, SequenceTheorems, WellFoundedInduction, TLAPS

-----------------------------------------------------------------------------
(* Extreme numbers.                                                         *)

\* A bounded set of numbers has a largest member: the one with the fewest above it, and the strict
\* subset ordering of finite sets is well founded.
LEMMA Greatest ==
  ASSUME NEW N \in Nat, NEW S \in SUBSET (0 .. N), S # {}
  PROVE  \E m \in S : \A n \in S : n =< m
<1> DEFINE Above(m) == {n \in S : m < n}
           A == {Above(m) : m \in S}
           R == StrictSubsetOrdering(S)
<1>1. IsWellFoundedOn(R, FiniteSubsetsOf(S))
  BY FS_StrictSubsetOrderingWellFounded
<1>2. A \subseteq FiniteSubsetsOf(S) /\ A # {}
  <2>1. ASSUME NEW T \in SUBSET S PROVE T \in FiniteSubsetsOf(S)
    <3>1. IsFiniteSet(0 .. N)
      BY FS_Interval
    <3>2. IsFiniteSet(T)
      BY <3>1, FS_Subset
    <3> QED
      BY <3>2 DEF FiniteSubsetsOf
  <2> QED
    BY <2>1
<1>3. PICK a \in A : \A b \in A : <<b, a>> \notin R
  <2> HIDE DEF A, R
  <2> QED
    BY <1>1, <1>2, WFMin
<1>4. PICK m \in S : a = Above(m)
  OBVIOUS
<1>5. ASSUME NEW n \in S, m < n PROVE FALSE
  <2>1. Above(n) \subseteq Above(m) /\ n \in Above(m) /\ n \notin Above(n)
    <3>1. m \in Int /\ n \in Int /\ \A x \in S : x \in Int
      OBVIOUS
    <3>2. \A x \in Above(n) : x \in S /\ n < x
      OBVIOUS
    <3>3. \A x \in Above(n) : x \in S /\ m < x
      BY <1>5, <3>1, <3>2
    <3>4. Above(n) \subseteq Above(m)
      BY <3>3
    <3>5. n \in Above(m)
      BY <1>5
    <3>6. n \notin Above(n)
      BY <3>1
    <3> QED
      BY <3>4, <3>5, <3>6
  <2>2. <<Above(n), Above(m)>> \in R
    <3>1. Above(n) # Above(m)
      BY <2>1
    <3> QED
      BY <2>1, <3>1 DEF StrictSubsetOrdering
  <2> HIDE DEF R
  <2> QED
    BY <1>3, <1>4, <2>2
<1> QED
  BY <1>5

LEMMA Least ==
  ASSUME NEW N \in Nat, NEW S \in SUBSET (0 .. N), S # {}
  PROVE  \E m \in S : \A n \in S : m =< n
<1> DEFINE T == {N - n : n \in S}
<1>1. T \in SUBSET (0 .. N) /\ T # {}
  OBVIOUS
<1>2. PICK t \in T : \A u \in T : u =< t
  <2> HIDE DEF T
  <2> QED
    BY <1>1, Greatest
<1>3. PICK m \in S : t = N - m
  OBVIOUS
<1>4. ASSUME NEW n \in S PROVE m =< n
  <2>1. N - n =< N - m
    BY <1>2, <1>3
  <2> QED
    BY <2>1
<1> QED
  BY <1>4

-----------------------------------------------------------------------------
(* The chain.                                                               *)

\* The forms of a branch take at most five arguments.
Bounded(b) == \A f \in b.forms : Len(f.args) \in 0 .. 5

\* A table of such branches.
Sound(T) == \E S : T \in Seq(S) /\ \A b \in S : Bounded(b)

LEMMA ConcatSound ==
  ASSUME NEW T, NEW U, Sound(T), Sound(U)
  PROVE  Sound(T \o U)
<1>1. PICK S : T \in Seq(S) /\ \A b \in S : Bounded(b)
  BY Zenon DEF Sound
<1>2. PICK R : U \in Seq(R) /\ \A b \in R : Bounded(b)
  BY Zenon DEF Sound
<1>3. T \o U \in Seq(S \cup R)
  BY <1>1, <1>2
<1>4. \A b \in S \cup R : Bounded(b)
  BY <1>1, <1>2
<1> QED
  BY <1>3, <1>4, Zenon DEF Sound

LEMMA BranchesBounded ==
  /\ \A heads, does : Bounded(Is(heads, does))
  /\ \A head, args, does : Len(args) \in 0 .. 5 => Bounded(Takes(head, args, does))
  /\ \A heads, args, does : Len(args) \in 0 .. 5 => Bounded(BeginsWith(heads, {Form(args, does)}))
  /\ \A heads, args, does, more, other :
       Len(args) \in 0 .. 5 /\ Len(more) \in 0 .. 5
         => Bounded(BeginsWith(heads, {Form(args, does), Form(more, other)}))
BY DEF Bounded, Is, Takes, BeginsWith, Form

LEMMA ManualSound == Sound(Manual)
<1> DEFINE S == {Manual[1], Manual[2], Manual[3], Manual[4]}
<1>1. Bounded(Manual[1]) /\ Bounded(Manual[2]) /\ Bounded(Manual[3]) /\ Bounded(Manual[4])
  BY BranchesBounded DEF Manual
<1>2. Manual \in Seq(S)
  BY DEF Manual
<1> QED
  BY <1>1, <1>2 DEF Sound

LEMMA CalibrationsSound == Sound(Calibrations)
<1> DEFINE S == {Calibrations[1], Calibrations[2], Calibrations[3], Calibrations[4], Calibrations[5],
                 Calibrations[6], Calibrations[7], Calibrations[8]}
<1>1. Bounded(Calibrations[1]) /\ Bounded(Calibrations[2]) /\ Bounded(Calibrations[3]) /\
      Bounded(Calibrations[4]) /\ Bounded(Calibrations[5]) /\ Bounded(Calibrations[6]) /\
      Bounded(Calibrations[7]) /\ Bounded(Calibrations[8])
  <2>1. Len(<<"N", "N">>) \in 0 .. 5 /\ Len(<<"N", "N", "N">>) \in 0 .. 5
    OBVIOUS
  <2> QED
    BY <2>1, BranchesBounded DEF Calibrations
<1>2. Calibrations \in Seq(S)
  BY DEF Calibrations
<1> QED
  BY <1>1, <1>2 DEF Sound

LEMMA NetworksSound == Sound(Networks)
<1> DEFINE S == {Networks[1], Networks[2], Networks[3], Networks[4]}
<1>1. Bounded(Networks[1]) /\ Bounded(Networks[2]) /\ Bounded(Networks[3]) /\ Bounded(Networks[4])
  <2>1. Len(<<"W">>) \in 0 .. 5 /\ Len(<<"W", "W">>) \in 0 .. 5 /\ Len(<<"W", "W", "W", "W">>) \in 0 .. 5
    OBVIOUS
  <2> QED
    BY <2>1, BranchesBounded DEF Networks
<1>2. Networks \in Seq(S)
  BY DEF Networks
<1> QED
  BY <1>1, <1>2 DEF Sound

LEMMA ReadingsSound == Sound(Readings)
<1> DEFINE S == {Readings[1], Readings[2], Readings[3]}
<1>1. Bounded(Readings[1]) /\ Bounded(Readings[2]) /\ Bounded(Readings[3])
  <2>1. Len(<<"N">>) \in 0 .. 5 /\ Len(<<"all">>) \in 0 .. 5 /\ Len(<<"page", "N">>) \in 0 .. 5
        /\ Len(<<"N", "N", "N", "N", "N">>) \in 0 .. 5
    OBVIOUS
  <2> QED
    BY <2>1, BranchesBounded DEF Readings
<1>2. Readings \in Seq(S)
  BY DEF Readings
<1> QED
  BY <1>1, <1>2 DEF Sound

LEMMA ReportsSound == Sound(Reports)
<1> DEFINE S == {Reports[1], Reports[2], Reports[3], Reports[4], Reports[5], Reports[6], Reports[7]}
<1>1. Bounded(Reports[1]) /\ Bounded(Reports[2]) /\ Bounded(Reports[3]) /\ Bounded(Reports[4]) /\
      Bounded(Reports[5]) /\ Bounded(Reports[6]) /\ Bounded(Reports[7])
  <2>1. Len(<<"N">>) \in 0 .. 5
    OBVIOUS
  <2> QED
    BY <2>1, BranchesBounded DEF Reports
<1>2. Reports \in Seq(S)
  BY DEF Reports
<1> QED
  BY <1>1, <1>2 DEF Sound

LEMMA BatteriesSound == Sound(Batteries)
<1> DEFINE S == {Batteries[1], Batteries[2], Batteries[3], Batteries[4], Batteries[5], Batteries[6], Batteries[7],
                 Batteries[8]}
<1>1. Bounded(Batteries[1]) /\ Bounded(Batteries[2]) /\ Bounded(Batteries[3]) /\
      Bounded(Batteries[4]) /\ Bounded(Batteries[5]) /\ Bounded(Batteries[6]) /\
      Bounded(Batteries[7]) /\ Bounded(Batteries[8])
  <2>1. Len(<<"N">>) \in 0 .. 5 /\ Len(<<"N", "N">>) \in 0 .. 5 /\ Len(<<"N", "W", "W">>) \in 0 .. 5
    OBVIOUS
  <2> QED
    BY <2>1, BranchesBounded DEF Batteries
<1>2. Batteries \in Seq(S)
  BY DEF Batteries
<1> QED
  BY <1>1, <1>2 DEF Sound

LEMMA TestsSound == Sound(Tests)
<1> DEFINE S == {Tests[1], Tests[2], Tests[3], Tests[4], Tests[5], Tests[6], Tests[7], Tests[8]}
<1>1. Bounded(Tests[1]) /\ Bounded(Tests[2]) /\ Bounded(Tests[3]) /\ Bounded(Tests[4]) /\
      Bounded(Tests[5]) /\ Bounded(Tests[6]) /\ Bounded(Tests[7]) /\ Bounded(Tests[8])
  BY BranchesBounded DEF Tests
<1>2. Tests \in Seq(S)
  BY DEF Tests
<1> QED
  BY <1>1, <1>2 DEF Sound

LEMMA DeviceSound == Sound(Device)
<1> DEFINE S == {Device[1], Device[2], Device[3], Device[4], Device[5], Device[6], Device[7], Device[8],
                 Device[9]}
<1>1. Bounded(Device[1]) /\ Bounded(Device[2]) /\ Bounded(Device[3]) /\ Bounded(Device[4]) /\
      Bounded(Device[5]) /\ Bounded(Device[6]) /\ Bounded(Device[7]) /\ Bounded(Device[8]) /\
      Bounded(Device[9])
  BY BranchesBounded DEF Device
<1>2. Device \in Seq(S)
  BY DEF Device
<1> QED
  BY <1>1, <1>2 DEF Sound

LEMMA ChainSound == Sound(Chain)
BY ManualSound, CalibrationsSound, NetworksSound, ReadingsSound, ReportsSound, BatteriesSound,
   TestsSound, DeviceSound, ConcatSound DEF Chain

LEMMA ChainTyped ==
  /\ Len(Chain) \in Nat /\ DOMAIN Chain = 1 .. Len(Chain)
  /\ \A i \in DOMAIN Chain : Bounded(Chain[i])
<1>1. PICK S : Chain \in Seq(S) /\ \A b \in S : Bounded(b)
  BY ChainSound DEF Sound
<1>2. Len(Chain) \in Nat /\ DOMAIN Chain = 1 .. Len(Chain) /\ \A i \in DOMAIN Chain : Chain[i] \in S
  BY <1>1
<1> QED
  BY <1>1, <1>2

\* What a branch does is the effect of one of its forms, or nothing.
LEMMA EffectTyped ==
  ASSUME NEW i \in DOMAIN Chain, NEW l
  PROVE  Effect(Chain[i], l) \in Effects
<1> DEFINE b    == Chain[i]
           n    == Len(CHOOSE head \in b.heads : Starts(head, l))
           fits == {f \in b.forms : Fits(f.args, l, n)}
           best == CHOOSE f \in fits : \A g \in fits : Len(g.args) <= Len(f.args)
           lens == {Len(f.args) : f \in fits}
<1>1. Effect(b, l) = IF fits = {} THEN "nothing" ELSE best.does
  BY Zenon DEF Effect
<1>2. ASSUME fits # {} PROVE best \in b.forms
  <2>1. lens \in SUBSET (0 .. 5) /\ lens # {}
    BY <1>2, ChainTyped DEF Bounded
  <2>2. PICK m \in lens : \A k \in lens : k <= m
    <3> HIDE DEF lens
    <3> QED
      BY <2>1, Greatest
  <2>3. PICK f \in fits : m = Len(f.args)
    OBVIOUS
  <2>4. \A g \in fits : Len(g.args) <= Len(f.args)
    BY <2>2, <2>3
  <2>5. best \in fits
    <3> HIDE DEF fits
    <3> QED
      BY <2>3, <2>4
  <2> QED
    BY <2>5
<1>3. \A f \in b.forms : f.does \in Effects
  BY DEF Effects
<1>4. "nothing" \in Effects
  BY DEF Effects
<1> HIDE DEF b, fits, best
<1> QED
  BY <1>1, <1>2, <1>3, <1>4 DEF b

LEMMA DispatchTyped ==
  ASSUME NEW buffer
  PROVE  Dispatch(buffer) \in Effects
<1> DEFINE hits  == {i \in DOMAIN Chain : Len(buffer) = 1 /\ Matches(Chain[i], buffer[1])}
           first == CHOOSE i \in hits : \A j \in hits : i <= j
<1>1. Dispatch(buffer) = IF hits = {} THEN "nothing" ELSE Effect(Chain[first], buffer[1])
  BY Zenon DEF Dispatch
<1>2. ASSUME hits # {} PROVE first \in DOMAIN Chain
  <2>1. hits \in SUBSET (0 .. Len(Chain)) /\ Len(Chain) \in Nat
    BY ChainTyped
  <2>2. PICK m \in hits : \A j \in hits : m <= j
    <3> HIDE DEF hits
    <3> QED
      BY <1>2, <2>1, Least
  <2>3. first \in hits
    <3> HIDE DEF hits
    <3> QED
      BY <2>2
  <2> QED
    BY <2>3
<1>3. "nothing" \in Effects
  BY DEF Effects
<1> HIDE DEF hits, first
<1> QED
  BY <1>1, <1>2, <1>3, EffectTyped

-----------------------------------------------------------------------------
(* Terminators.                                                             *)

\* What is left is the rest of s from some place on; all of it when s begins with no terminator.
LEMMA Skipped ==
  ASSUME NEW T, NEW s \in Seq(T)
  PROVE  /\ SkipTerminators(s) \in Seq(T)
         /\ (s = << >> \/ s[1] \notin Terminator) => SkipTerminators(s) = s
<1> DEFINE rest == {n \in 0 .. Len(s) : \A i \in 1 .. n : s[i] \in Terminator}
           most == CHOOSE n \in rest : \A m \in rest : m <= n
<1>1. SkipTerminators(s) = SubSeq(s, most + 1, Len(s))
  BY Zenon DEF SkipTerminators
<1>2. Len(s) \in Nat
  OBVIOUS
<1>3. rest \in SUBSET (0 .. Len(s)) /\ 0 \in rest
  OBVIOUS
<1>4. most \in rest /\ \A m \in rest : m <= most
  <2>1. rest # {}
    BY <1>3
  <2> HIDE DEF rest
  <2>2. PICK n \in rest : \A m \in rest : m <= n
    BY <1>2, <1>3, <2>1, Greatest
  <2> QED
    BY <2>2
<1>5. most \in 0 .. Len(s)
  BY <1>4
<1>6. SubSeq(s, most + 1, Len(s)) \in Seq(T)
  <2> HIDE DEF most
  <2>1. \A k \in (most + 1) .. Len(s) : s[k] \in T
    BY <1>5
  <2> QED
    BY <1>2, <1>5, <2>1, SubSeqProperties
<1>7. ASSUME s = << >> \/ s[1] \notin Terminator PROVE SubSeq(s, most + 1, Len(s)) = s
  <2>1. most = 0
    <3>1. ASSUME most # 0 PROVE FALSE
      <4>1. 1 \in 1 .. most /\ Len(s) # 0
        BY <1>5, <1>2, <3>1
      <4>2. s[1] \in Terminator
        BY <1>4, <4>1
      <4> QED
        BY <1>7, <4>1, <4>2
    <3> QED
      BY <3>1
  <2> HIDE DEF most
  <2> QED
    BY <2>1, SubSeqFull
<1> QED
  BY <1>1, <1>6, <1>7

-----------------------------------------------------------------------------
(* Types.                                                                   *)

LEMMA TokensTyped ==
  /\ \A e \in Endings : e \in Seq(Terminator) /\ Len(e) \in {1, 2}
  /\ Lines \cap Terminator = {}
  /\ Lines \subseteq Token /\ Terminator \subseteq Token
<1>1. \A e \in Ending : e \in Seq(Terminator) /\ Len(e) \in {1, 2}
  <2>1. LF \in Terminator /\ CR \in Terminator
    BY DEF Terminator
  <2>2. <<LF>> \in Seq(Terminator) /\ <<CR>> \in Seq(Terminator) /\ <<CR, LF>> \in Seq(Terminator)
    BY <2>1
  <2> QED
    BY <2>2 DEF Ending
<1> QED
  BY <1>1, CliAssumption DEF Terminator, Token

LEMMA TypeKept == TypeOK /\ [Next]_vars => TypeOK'
<1> SUFFICES ASSUME TypeOK, [Next]_vars PROVE TypeOK'
  OBVIOUS
<1>1. CASE TypeLine
  <2>1. PICK l \in Lines : typed' = Append(typed, l) /\ wire' = wire \o <<l>> \o ending
    BY <1>1 DEF TypeLine
  <2>2. typed' \in Seq(Lines) /\ Len(typed') = Len(typed) + 1
    BY <2>1 DEF TypeOK
  <2>3. Len(typed') <= MaxLines
    BY <1>1, <2>2, CliAssumption DEF TypeLine, TypeOK
  <2>4. ending \in Seq(Token) /\ <<l>> \in Seq(Token)
    BY TokensTyped DEF TypeOK
  <2>5. wire' \in Seq(Token)
    BY <2>1, <2>4 DEF TypeOK
  <2> QED
    BY <1>1, <2>2, <2>3, <2>5 DEF TypeLine, TypeOK
<1>2. CASE Arrive
  <2>1. Head(wire) \in Token /\ Tail(wire) \in Seq(Token)
    BY <1>2 DEF Arrive, TypeOK
  <2>2. fifo' \in Seq(Token)
    BY <1>2, <2>1 DEF Arrive, TypeOK
  <2> QED
    BY <1>2, <2>1, <2>2 DEF Arrive, TypeOK
<1>3. CASE RunLine
  <2>1. Tail(fifo) \in Seq(Token)
    BY <1>3 DEF RunLine, TypeOK
  <2>2. fifo' \in Seq(Token)
    BY <1>3, <2>1, Skipped DEF RunLine
  <2>3. done' \in Seq(Effects)
    BY <1>3, DispatchTyped DEF RunLine, TypeOK
  <2>4. line' = << >> /\ BufferSize \in Nat
    BY <1>3, CliAssumption DEF RunLine
  <2>5. line' \in Seq(Token) /\ Len(line') <= BufferSize
    BY <2>4
  <2> QED
    BY <1>3, <2>2, <2>3, <2>5 DEF RunLine, TypeOK
<1>4. CASE StoreByte
  <2>1. Head(fifo) \in Token /\ Tail(fifo) \in Seq(Token)
    BY <1>4 DEF StoreByte, TypeOK
  <2>2. line' \in Seq(Token) /\ Len(line') <= BufferSize
    <3>1. BufferSize \in Nat /\ line \in Seq(Token) /\ Len(line) <= BufferSize
      BY CliAssumption DEF TypeOK
    <3>2. CASE Len(line) < BufferSize
      <4>1. line' = Append(line, Head(fifo))
        BY <1>4, <3>2 DEF StoreByte
      <4> QED
        BY <2>1, <3>1, <3>2, <4>1
    <3>3. CASE ~ (Len(line) < BufferSize)
      <4>1. line' = line
        BY <1>4, <3>3 DEF StoreByte
      <4> QED
        BY <3>1, <4>1
    <3> QED
      BY <3>2, <3>3
  <2> QED
    BY <1>4, <2>1, <2>2 DEF StoreByte, TypeOK
<1>5. CASE UNCHANGED vars
  BY <1>5 DEF vars, TypeOK
<1> QED
  BY <1>1, <1>2, <1>3, <1>4, <1>5 DEF Next

LEMMA InitTyped == Init => TypeOK
<1> SUFFICES ASSUME Init PROVE TypeOK
  OBVIOUS
<1>1. MaxLines \in Nat /\ BufferSize \in Nat
  BY CliAssumption
<1> QED
  BY <1>1 DEF Init, TypeOK

\* The line buffer keeps within its array, and every branch does what it says or nothing, whatever
\* is typed and whenever its bytes arrive (handle_serial_cli).
THEOREM CliTypeCorrect == Spec => []TypeOK
BY InitTyped, TypeKept, PTL DEF Spec

-----------------------------------------------------------------------------
(* Lines.                                                                   *)

\* s are the lines of t after the first d, each followed by e.
Spells(s, t, d, e) ==
  /\ Len(s) = 2 * (Len(t) - d)
  /\ \A j \in 1 .. (Len(t) - d) : s[2 * j - 1] = t[d + j] /\ s[2 * j] = e

\* What is in the buffer, received or on its way are the lines that have not run, and what has run
\* did what its line alone in the buffer does.
Stream == line \o fifo \o wire
Assembly ==
  Len(ending) = 1 =>
    /\ Len(done) <= Len(typed) /\ Len(line) <= 1
    /\ Spells(Stream, typed, Len(done), ending[1])
    /\ \A i \in DOMAIN done : done[i] = Dispatch(<<typed[i]>>)

LEMMA StreamAt ==
  ASSUME NEW a \in Seq(Token), NEW b \in Seq(Token), NEW c \in Seq(Token)
  PROVE  /\ a \o b \o c \in Seq(Token) /\ Len(a \o b \o c) = Len(a) + Len(b) + Len(c)
         /\ a # << >> => (a \o b \o c)[1] = a[1]
         /\ a = << >> /\ b # << >> => (a \o b \o c)[1] = b[1]
         /\ Len(a) = 1 /\ b # << >> => (a \o b \o c)[2] = b[1]
<1>1. a \o b \in Seq(Token) /\ Len(a \o b) = Len(a) + Len(b)
  OBVIOUS
<1>2. a \o b \o c \in Seq(Token) /\ Len(a \o b \o c) = Len(a) + Len(b) + Len(c)
  BY <1>1
<1>3. \A k \in 1 .. Len(a) + Len(b) : (a \o b \o c)[k] = (a \o b)[k]
  BY <1>1
<1>4. \A k \in 1 .. Len(a) : (a \o b)[k] = a[k]
  OBVIOUS
<1>5. \A k \in 1 .. Len(b) : (a \o b)[Len(a) + k] = b[k]
  OBVIOUS
<1>6. a # << >> => (a \o b \o c)[1] = a[1]
  BY <1>3, <1>4
<1>7. a = << >> /\ b # << >> => (a \o b \o c)[1] = b[1]
  <2> SUFFICES ASSUME a = << >>, b # << >> PROVE (a \o b \o c)[1] = b[1]
    OBVIOUS
  <2>1. Len(a) = 0 /\ 1 \in 1 .. Len(b)
    OBVIOUS
  <2> QED
    BY <2>1, <1>3, <1>5
<1>8. ASSUME Len(a) = 1, NEW k \in 1 .. Len(b) PROVE (a \o b \o c)[1 + k] = b[k]
  <2>1. 1 + k \in 1 .. Len(a) + Len(b) /\ Len(a) + k = 1 + k
    BY <1>8
  <2>2. (a \o b)[Len(a) + k] = b[k]
    BY <1>5
  <2>3. (a \o b \o c)[1 + k] = (a \o b)[1 + k]
    BY <2>1, <1>3
  <2> QED
    BY <2>1, <2>2, <2>3
<1>9. Len(a) = 1 /\ b # << >> => (a \o b \o c)[2] = b[1]
  <2> SUFFICES ASSUME Len(a) = 1, b # << >> PROVE (a \o b \o c)[2] = b[1]
    OBVIOUS
  <2>1. 1 \in 1 .. Len(b) /\ 1 + 1 = 2
    OBVIOUS
  <2>2. (a \o b \o c)[1 + 1] = b[1]
    BY <2>1, <1>8
  <2> QED
    BY <2>1, <2>2
<1> QED
  BY <1>2, <1>6, <1>7, <1>9

LEMMA StreamThird ==
  ASSUME NEW a \in Seq(Token), NEW b \in Seq(Token), NEW c \in Seq(Token), Len(a) = 1, Len(b) >= 2
  PROVE  (a \o b \o c)[3] = b[2]
<1>1. a \o b \in Seq(Token) /\ Len(a \o b) = 1 + Len(b) /\ (a \o b)[1 + 2] = b[2]
  <2>1. /\ a \o b \in Seq(Token) /\ Len(a \o b) = Len(a) + Len(b)
        /\ \A i \in 1 .. Len(a) + Len(b) : (a \o b)[i] = IF i <= Len(a) THEN a[i] ELSE b[i - Len(a)]
    BY ConcatProperties
  <2>2. Len(b) \in Nat
    OBVIOUS
  <2>3. 3 \in 1 .. Len(a) + Len(b) /\ ~ (3 <= Len(a)) /\ 3 - Len(a) = 2 /\ 1 + 2 = 3
    BY <2>2
  <2>4. (a \o b)[3] = b[2]
    BY <2>1, <2>3
  <2> QED
    BY <2>1, <2>3, <2>4
<1> DEFINE ab == a \o b
<1>2. ab \in Seq(Token) /\ Len(ab) >= 3 /\ ab[3] = b[2]
  BY <1>1
<1> HIDE DEF ab
<1>3. (ab \o c)[3] = ab[3]
  BY <1>2
<1> QED
  BY <1>2, <1>3 DEF ab

\* A token that moves on stays in its place in the stream.
LEMMA MovedUp ==
  ASSUME NEW a \in Seq(Token), NEW b \in Seq(Token), NEW c \in Seq(Token), b # << >>
  PROVE  Append(a, Head(b)) \o Tail(b) \o c = a \o b \o c
OBVIOUS

LEMMA Regrouped ==
  ASSUME NEW a \in Seq(Token), NEW b \in Seq(Token), NEW c \in Seq(Token)
  PROVE  a \o b \o c = a \o (b \o c)
BY ConcatAssociative

LEMMA MovedIn ==
  ASSUME NEW a \in Seq(Token), NEW b \in Seq(Token), NEW c \in Seq(Token), c # << >>
  PROVE  a \o Append(b, Head(c)) \o Tail(c) = a \o b \o c
<1> DEFINE p == Append(b, Head(c))
           q == Tail(c)
<1>1. p \in Seq(Token) /\ q \in Seq(Token)
  OBVIOUS
<1>2. p \o q = b \o c
  OBVIOUS
<1>3. a \o b \o c = a \o (b \o c)
  BY Regrouped
<1>4. a \o p \o q = a \o (p \o q)
  <2> HIDE DEF p, q
  <2> QED
    BY <1>1, Regrouped, Zenon
<1> QED
  BY <1>2, <1>3, <1>4

\* Without a and the first of b, two tokens less are left.
LEMMA TakenOff ==
  ASSUME NEW T, NEW a \in Seq(T), NEW b \in Seq(T), NEW c \in Seq(T), Len(a) = 1, b # << >>
  PROVE  LET s == a \o b \o c
             r == << >> \o Tail(b) \o c
         IN  /\ r \in Seq(T) /\ Len(r) = Len(s) - 2
             /\ \A k \in 1 .. Len(r) : r[k] = s[k + 2]
<1> DEFINE q == Tail(b)
           ab == a \o b
           s == ab \o c
           r == q \o c
<1>1. q \in Seq(T) /\ Len(q) = Len(b) - 1 /\ \A k \in 1 .. Len(q) : q[k] = b[k + 1]
  OBVIOUS
<1>2. << >> \o q = q
  BY <1>1
<1>3. /\ ab \in Seq(T) /\ Len(ab) = Len(a) + Len(b)
      /\ \A i \in 1 .. Len(a) + Len(b) : ab[i] = IF i <= Len(a) THEN a[i] ELSE b[i - Len(a)]
  BY ConcatProperties
<1>5. Len(b) \in Nat \ {0} /\ Len(c) \in Nat /\ Len(a) = 1
  BY EmptySeq, LenProperties
<1> HIDE DEF q, ab
<1>4. Len(ab) = Len(b) + 1 /\ \A k \in 1 .. Len(b) : ab[k + 1] = b[k]
  <2>1. Len(ab) = Len(b) + 1
    BY <1>3, <1>5
  <2>2. ASSUME NEW k \in 1 .. Len(b) PROVE ab[k + 1] = b[k]
    <3>1. k + 1 \in 1 .. Len(a) + Len(b) /\ ~ (k + 1 <= Len(a)) /\ k + 1 - Len(a) = k
      BY <1>5
    <3> QED
      BY <1>3, <3>1
  <2> QED
    BY <2>1, <2>2
<1>6. r \in Seq(T) /\ Len(r) = Len(b) - 1 + Len(c)
  <2>1. r \in Seq(T) /\ Len(r) = Len(q) + Len(c)
    BY <1>1, ConcatProperties
  <2> QED
    BY <1>1, <2>1
<1>7. s \in Seq(T) /\ Len(s) = Len(b) + 1 + Len(c)
  BY <1>3, <1>4
<1>8. ASSUME NEW k \in 1 .. Len(r) PROVE r[k] = s[k + 2]
  <2>1. CASE k <= Len(q)
    <3>1. r[k] = q[k] /\ q[k] = b[k + 1]
      BY <1>1, <1>6, <2>1
    <3>2. k + 1 \in 1 .. Len(b) /\ k + 2 \in 1 .. Len(ab) /\ k + 1 + 1 = k + 2
      BY <1>1, <1>4, <1>5, <1>6, <2>1
    <3>3. ab[k + 1 + 1] = b[k + 1]
      BY <1>4, <3>2
    <3>4. s[k + 2] = ab[k + 2]
      BY <1>3, <3>2
    <3> QED
      BY <3>1, <3>2, <3>3, <3>4
  <2>2. CASE k > Len(q)
    <3> DEFINE m == k - Len(q)
    <3>1. m \in 1 .. Len(c) /\ Len(q) + m = k /\ Len(ab) + m = k + 2
      BY <1>1, <1>4, <1>5, <1>6, <2>2
    <3> HIDE DEF m
    <3>2. r[Len(q) + m] = c[m]
      BY <1>1, <3>1
    <3>3. s[Len(ab) + m] = c[m]
      BY <1>3, <3>1
    <3> QED
      BY <3>1, <3>2, <3>3
  <2>3. k <= Len(q) \/ k > Len(q)
    BY <1>1, <1>5, <1>6
  <2> QED
    BY <2>1, <2>2, <2>3
<1>9. Len(r) = Len(s) - 2
  BY <1>5, <1>6, <1>7
<1> QED
  BY <1>2, <1>6, <1>8, <1>9 DEF q, ab

\* A line typed after the others is spelled after them.
LEMMA TypedOn ==
  ASSUME NEW T, NEW s \in Seq(T), NEW t \in Seq(T), NEW d \in Nat, d =< Len(t), NEW e \in T, NEW l \in T,
         Spells(s, t, d, e)
  PROVE  Spells(s \o <<l>> \o <<e>>, Append(t, l), d, e)
<1> DEFINE r == s \o <<l>> \o <<e>>
           u == Append(t, l)
<1>1. Len(s) = 2 * (Len(t) - d) /\ Len(t) \in Nat
  BY DEF Spells
<1>2. Len(u) = Len(t) + 1 /\ u[Len(t) + 1] = l /\ \A i \in 1 .. Len(t) : u[i] = t[i]
  OBVIOUS
<1>3. /\ Len(r) = Len(s) + 2 /\ r[Len(s) + 1] = l /\ r[Len(s) + 2] = e
      /\ \A i \in 1 .. Len(s) : r[i] = s[i]
  <2>1. /\ s \o <<l>> \in Seq(T) /\ Len(s \o <<l>>) = Len(s) + 1
        /\ (s \o <<l>>)[Len(s) + 1] = l /\ \A i \in 1 .. Len(s) : (s \o <<l>>)[i] = s[i]
    OBVIOUS
  <2> QED
    BY <2>1
<1>4. Len(r) = 2 * (Len(u) - d)
  BY <1>1, <1>2, <1>3
<1>5. ASSUME NEW j \in 1 .. (Len(u) - d) PROVE r[2 * j - 1] = u[d + j] /\ r[2 * j] = e
  <2> HIDE DEF r, u
  <2>1. CASE j \in 1 .. (Len(t) - d)
    <3>1. s[2 * j - 1] = t[d + j] /\ s[2 * j] = e
      BY <2>1 DEF Spells
    <3>2. 2 * j - 1 \in 1 .. Len(s) /\ 2 * j \in 1 .. Len(s) /\ d + j \in 1 .. Len(t)
      BY <2>1, <1>1
    <3>3. r[2 * j - 1] = s[2 * j - 1] /\ r[2 * j] = s[2 * j] /\ u[d + j] = t[d + j]
      BY <3>2, <1>2, <1>3
    <3> QED
      BY <3>1, <3>3
  <2>2. CASE j = Len(t) - d + 1
    <3>1. 2 * j - 1 = Len(s) + 1 /\ 2 * j = Len(s) + 2 /\ d + j = Len(t) + 1
      BY <2>2, <1>1
    <3> QED
      BY <3>1, <1>2, <1>3
  <2>3. j \in 1 .. (Len(t) - d) \/ j = Len(t) - d + 1
    BY <1>1, <1>2
  <2> QED
    BY <2>1, <2>2, <2>3
<1> QED
  BY <1>4, <1>5 DEF Spells

\* Without its first line and that one's end, the stream spells one line less.
LEMMA LineTaken ==
  ASSUME NEW T, NEW s \in Seq(T), NEW t \in Seq(T), NEW d \in Nat, d + 1 =< Len(t), NEW e,
         Spells(s, t, d, e),
         NEW r \in Seq(T), Len(r) = Len(s) - 2, \A k \in 1 .. Len(r) : r[k] = s[k + 2]
  PROVE  Spells(r, t, d + 1, e)
<1>1. Len(s) = 2 * (Len(t) - d) /\ Len(t) \in Nat
  BY DEF Spells
<1>2. Len(r) = 2 * (Len(t) - (d + 1))
  BY <1>1
<1>3. ASSUME NEW j \in 1 .. (Len(t) - (d + 1)) PROVE r[2 * j - 1] = t[d + 1 + j] /\ r[2 * j] = e
  <2>1. j + 1 \in 1 .. (Len(t) - d)
    BY <1>1
  <2>2. s[2 * (j + 1) - 1] = t[d + (j + 1)] /\ s[2 * (j + 1)] = e
    BY <2>1 DEF Spells
  <2>3. 2 * j - 1 \in 1 .. Len(r) /\ 2 * j \in 1 .. Len(r)
    BY <1>2
  <2>4. r[2 * j - 1] = s[2 * j - 1 + 2] /\ r[2 * j] = s[2 * j + 2]
    BY <2>3
  <2>5. 2 * j - 1 + 2 = 2 * (j + 1) - 1 /\ 2 * j + 2 = 2 * (j + 1) /\ d + (j + 1) = d + 1 + j
    OBVIOUS
  <2> QED
    BY <2>2, <2>4, <2>5
<1> QED
  BY <1>2, <1>3 DEF Spells

\* Where no terminator comes next, none is skipped.
LEMMA NothingSkipped ==
  ASSUME NEW s \in Seq(Token), s # << >> => s[1] \notin Terminator
  PROVE  SkipTerminators(s) = s
<1> DEFINE rest == {n \in 0 .. Len(s) : \A i \in 1 .. n : s[i] \in Terminator}
<1>1. rest = {0}
  <2>1. 0 \in rest
    OBVIOUS
  <2>2. ASSUME NEW n \in rest, n # 0 PROVE FALSE
    <3>1. 1 \in 1 .. n /\ s # << >>
      BY <2>2
    <3> QED
      BY <3>1
  <2> QED
    BY <2>1, <2>2
<1>2. (CHOOSE n \in rest : \A m \in rest : m <= n) = 0
  BY <1>1
<1>3. SkipTerminators(s) = SubSeq(s, 0 + 1, Len(s))
  BY <1>2 DEF SkipTerminators
<1> QED
  BY <1>3

\* The only ending of one byte that a line has is a terminator.
LEMMA OneByteEnding ==
  ASSUME TypeOK, Len(ending) = 1
  PROVE  ending[1] \in Terminator /\ ending = <<ending[1]>>
<1>1. ending \in {<<LF>>, <<CR>>, <<CR, LF>>}
  BY CliAssumption DEF TypeOK, Ending
<1>2. Len(<<CR, LF>>) = 2
  OBVIOUS
<1> QED
  BY <1>1, <1>2 DEF Terminator

LEMMA AssemblyAtFirst == Init => Assembly
<1> SUFFICES ASSUME Init, Len(ending) = 1 PROVE
      /\ Len(done) <= Len(typed) /\ Len(line) <= 1
      /\ Spells(Stream, typed, Len(done), ending[1])
      /\ \A i \in DOMAIN done : done[i] = Dispatch(<<typed[i]>>)
  BY DEF Assembly
<1>1. typed = << >> /\ done = << >> /\ line = << >> /\ Stream = << >>
  BY DEF Init, Stream
<1>2. Spells(Stream, typed, Len(done), ending[1])
  BY <1>1 DEF Spells
<1> QED
  BY <1>1, <1>2

LEMMA AssemblyWhenTyped ==
  ASSUME TypeOK, Assembly, TypeLine
  PROVE  Assembly'
<1> SUFFICES ASSUME Len(ending) = 1 PROVE
      /\ Len(done') <= Len(typed') /\ Len(line') <= 1
      /\ Spells(Stream', typed', Len(done'), ending[1])
      /\ \A i \in DOMAIN done' : done'[i] = Dispatch(<<typed'[i]>>)
  BY DEF Assembly, TypeLine
<1>1. PICK l \in Lines : typed' = Append(typed, l) /\ wire' = wire \o <<l>> \o ending
  BY DEF TypeLine
<1>2. ending' = ending /\ fifo' = fifo /\ line' = line /\ done' = done
  BY DEF TypeLine
<1>3. ending[1] \in Token /\ ending = <<ending[1]>> /\ l \in Token
  BY OneByteEnding DEF Token
<1>4. line \in Seq(Token) /\ fifo \in Seq(Token) /\ wire \in Seq(Token) /\ typed \in Seq(Token)
  BY DEF TypeOK, Token
<1>5. typed \in Seq(Lines) /\ done \in Seq(Effects)
  BY DEF TypeOK
<1>6. Stream' = Stream \o <<l>> \o ending
  <2> DEFINE a == line \o fifo
             b == <<l>>
             c == ending
  <2>1. a \in Seq(Token) /\ b \in Seq(Token) /\ c \in Seq(Token)
    <3>1. c = <<ending[1]>>
      BY <1>3
    <3>2. <<ending[1]>> \in Seq(Token)
      BY <1>3
    <3>3. c \in Seq(Token)
      BY <3>1, <3>2
    <3> HIDE DEF c
    <3> QED
      BY <1>3, <1>4, <3>3
  <2>2. Stream' = a \o (wire \o b \o c)
    BY <1>1, <1>2 DEF Stream
  <2>3. Stream = a \o wire
    BY DEF Stream
  <2> HIDE DEF a, b, c
  <2>4. \A x, y, z \in Seq(Token) : x \o (y \o z) = x \o y \o z
    BY ConcatAssociative
  <2>8. wire \o b \in Seq(Token)
    BY <1>4, <2>1
  <2>5. a \o (wire \o b \o c) = a \o (wire \o b) \o c
    BY <2>1, <2>4, <2>8
  <2>6. a \o (wire \o b) = a \o wire \o b
    <3>1. wire \in Seq(Token)
      BY <1>4
    <3> QED
      BY <2>1, <2>4, <3>1
  <2>7. Stream' = Stream \o b \o c
    BY <2>2, <2>3, <2>5, <2>6
  <2> QED
    BY <2>7 DEF b, c
<1>7. /\ Len(done) <= Len(typed) /\ Len(line) <= 1 /\ Spells(Stream, typed, Len(done), ending[1])
      /\ \A i \in DOMAIN done : done[i] = Dispatch(<<typed[i]>>)
  BY DEF Assembly
<1>8. Spells(Stream', typed', Len(done'), ending[1])
  <2>1. Stream \in Seq(Token) /\ Len(done) \in Nat
    BY <1>4, <1>5 DEF Stream
  <2>2. Spells(Stream \o <<l>> \o <<ending[1]>>, Append(typed, l), Len(done), ending[1])
    BY <1>3, <1>4, <1>7, <2>1, TypedOn
  <2> QED
    BY <1>1, <1>2, <1>3, <1>6, <2>2
<1>9. Len(typed') = Len(typed) + 1 /\ \A i \in 1 .. Len(typed) : typed'[i] = typed[i]
  BY <1>1, <1>5
<1>10. \A i \in DOMAIN done : typed'[i] = typed[i]
  BY <1>5, <1>7, <1>9
<1>11. Len(done') <= Len(typed')
  BY <1>2, <1>5, <1>7, <1>9
<1> QED
  BY <1>2, <1>7, <1>8, <1>10, <1>11

LEMMA AssemblyWhenStored ==
  ASSUME TypeOK, Assembly, Arrive \/ StoreByte
  PROVE  Assembly'
<1> SUFFICES ASSUME Len(ending) = 1 PROVE Assembly'
  BY DEF Assembly, Arrive, StoreByte
<1>1. line \in Seq(Token) /\ fifo \in Seq(Token) /\ wire \in Seq(Token)
  BY DEF TypeOK
<1>2. /\ Len(line) <= 1 /\ Spells(Stream, typed, Len(done), ending[1])
  BY DEF Assembly
<1>3. ending' = ending /\ typed' = typed /\ done' = done
  BY DEF Arrive, StoreByte
<1>4. Stream' = Stream /\ Len(line') <= 1
  <2>1. CASE Arrive
    <3>1. line' = line /\ wire # << >> /\ fifo' = Append(fifo, Head(wire)) /\ wire' = Tail(wire)
      BY <2>1 DEF Arrive
    <3>2. line \o Append(fifo, Head(wire)) \o Tail(wire) = line \o fifo \o wire
      BY <1>1, <3>1, MovedIn
    <3>3. Stream' = Stream
      BY <3>1, <3>2 DEF Stream
    <3> QED
      BY <1>2, <3>1, <3>3
  <2>2. CASE StoreByte
    <3>1. fifo # << >>
      BY <2>2 DEF StoreByte
    <3>2. line = << >>
      <4> SUFFICES ASSUME line # << >> PROVE FALSE
        OBVIOUS
      <4>1. Len(line) = 1
        <5>1. Len(line) \in Nat \ {0}
          BY <1>1, EmptySeq
        <5> QED
          BY <1>2, <5>1
      <4>2. Stream[2] = Head(fifo) /\ Len(Stream) = Len(line) + Len(fifo) + Len(wire)
        <5>1. Stream[2] = fifo[1] /\ Len(Stream) = Len(line) + Len(fifo) + Len(wire)
          BY <1>1, <3>1, <4>1, StreamAt DEF Stream
        <5> QED
          BY <1>1, <3>1, <5>1
      <4>3. Len(Stream) >= 2
        BY <1>1, <3>1, <4>1, <4>2
      <4>4. Stream[2] = ending[1]
        <5>1. Len(typed) \in Nat /\ Len(done) \in Nat
          BY DEF TypeOK
        <5>2. 1 \in 1 .. (Len(typed) - Len(done)) /\ 2 * 1 = 2
          BY <1>2, <4>3, <5>1 DEF Spells
        <5>3. Stream[2 * 1] = ending[1]
          BY <1>2, <5>2 DEF Spells
        <5> QED
          BY <5>2, <5>3
      <4>5. Head(fifo) \in Terminator
        BY <4>2, <4>4, OneByteEnding
      <4> QED
        BY <2>2, <4>5 DEF StoreByte
    <3>3. line' = Append(line, Head(fifo)) /\ fifo' = Tail(fifo) /\ wire' = wire
      <4>1. BufferSize \in Nat \ {0}
        BY CliAssumption
      <4>2. Len(line) < BufferSize
        BY <3>2, <4>1
      <4> QED
        BY <2>2, <4>2 DEF StoreByte
    <3>4. Append(line, Head(fifo)) \o Tail(fifo) \o wire = line \o fifo \o wire
      BY <1>1, <3>1, MovedUp
    <3>5. Stream' = Stream
      BY <3>3, <3>4 DEF Stream
    <3>6. Head(fifo) \in Token /\ Len(Append(line, Head(fifo))) = Len(line) + 1
      BY <1>1, <3>1
    <3>7. Len(line') <= 1
      BY <3>2, <3>3, <3>6
    <3> QED
      BY <3>5, <3>7
  <2> QED
    BY <2>1, <2>2
<1> QED
  BY <1>3, <1>4 DEF Assembly

\* The line in the buffer is the next one typed, and the terminators that are skipped after its own
\* are none.
LEMMA NextLine ==
  ASSUME TypeOK, Assembly, RunLine, Len(ending) = 1
  PROVE  /\ Len(done) + 1 <= Len(typed) /\ line = <<typed[Len(done) + 1]>>
         /\ SkipTerminators(Tail(fifo)) = Tail(fifo)
<1> DEFINE d == Len(done)
<1>1. line \in Seq(Token) /\ fifo \in Seq(Token) /\ wire \in Seq(Token) /\ typed \in Seq(Lines)
  BY DEF TypeOK
<1>2. Len(line) <= 1 /\ Spells(Stream, typed, d, ending[1])
  BY DEF Assembly
<1>3. line # << >> /\ fifo # << >>
  BY DEF RunLine
<1>4. Len(line) = 1
  <2>1. Len(line) \in Nat \ {0}
    BY <1>1, <1>3, EmptySeq
  <2> QED
    BY <1>2, <2>1
<1>5. Len(typed) \in Nat /\ d \in Nat
  BY DEF TypeOK
<1>6. Len(Stream) = 2 * (Len(typed) - d) /\ Len(Stream) = Len(line) + Len(fifo) + Len(wire)
  <2>1. Len(Stream) = Len(line) + Len(fifo) + Len(wire)
    BY <1>1, StreamAt DEF Stream
  <2> QED
    BY <1>2, <2>1 DEF Spells
<1>7. Len(fifo) \in Nat \ {0} /\ Len(wire) \in Nat
  BY <1>1, <1>3
<1>8. d + 1 <= Len(typed)
  BY <1>4, <1>5, <1>6, <1>7
<1>9. \A j \in 1 .. (Len(typed) - d) : Stream[2 * j - 1] = typed[d + j]
  BY <1>2 DEF Spells
<1>10. line = <<typed[d + 1]>>
  <2>1. Stream[1] = line[1]
    BY <1>1, <1>3, StreamAt DEF Stream
  <2>2. 1 \in 1 .. (Len(typed) - d) /\ 2 * 1 - 1 = 1
    BY <1>5, <1>8
  <2>3. Stream[2 * 1 - 1] = typed[d + 1]
    BY <2>2, <1>9
  <2>4. line[1] = typed[d + 1]
    BY <2>1, <2>2, <2>3
  <2> HIDE DEF d
  <2> QED
    BY <1>1, <1>4, <2>4
<1>11. SkipTerminators(Tail(fifo)) = Tail(fifo)
  <2>1. Tail(fifo) \in Seq(Token)
    BY <1>1, <1>3
  <2>2. ASSUME Tail(fifo) # << >> PROVE Tail(fifo)[1] \notin Terminator
    <3>1. Len(fifo) >= 2 /\ Tail(fifo)[1] = fifo[2]
      BY <1>1, <1>3, <2>2
    <3>2. Stream[3] = fifo[2]
      <4>1. (line \o fifo \o wire)[3] = fifo[2]
        BY <1>1, <1>4, <3>1, StreamThird
      <4> QED
        BY <4>1 DEF Stream
    <3>3. 2 \in 1 .. (Len(typed) - d) /\ 2 * 2 - 1 = 3 /\ d + 2 \in 1 .. Len(typed)
      BY <1>4, <1>5, <1>6, <1>7, <3>1
    <3>4. Stream[2 * 2 - 1] = typed[d + 2]
      BY <3>3, <1>9
    <3>5. typed[d + 2] \in Lines
      BY <1>1, <3>3
    <3>6. Tail(fifo)[1] \in Lines
      BY <3>1, <3>2, <3>3, <3>4, <3>5
    <3> QED
      BY <3>6, CliAssumption DEF Terminator
  <2> QED
    BY <2>1, <2>2, NothingSkipped
<1> QED
  BY <1>8, <1>10, <1>11

LEMMA AssemblyWhenRun ==
  ASSUME TypeOK, Assembly, RunLine
  PROVE  Assembly'
<1> SUFFICES ASSUME Len(ending) = 1 PROVE
      /\ Len(done') <= Len(typed') /\ Len(line') <= 1
      /\ Spells(Stream', typed', Len(done'), ending[1])
      /\ \A i \in DOMAIN done' : done'[i] = Dispatch(<<typed'[i]>>)
  BY DEF Assembly, RunLine
<1> DEFINE d == Len(done)
<1>1. line \in Seq(Token) /\ fifo \in Seq(Token) /\ wire \in Seq(Token)
  BY DEF TypeOK
<1>2. typed \in Seq(Lines) /\ done \in Seq(Effects) /\ typed \in Seq(Token) /\ d \in Nat
  BY DEF TypeOK, Token
<1>3. /\ Spells(Stream, typed, d, ending[1])
      /\ \A i \in DOMAIN done : done[i] = Dispatch(<<typed[i]>>)
  BY DEF Assembly
<1>4. d + 1 <= Len(typed) /\ line = <<typed[d + 1]>> /\ SkipTerminators(Tail(fifo)) = Tail(fifo)
  BY NextLine
<1>5. fifo # << >> /\ line' = << >> /\ fifo' = SkipTerminators(Tail(fifo)) /\ wire' = wire /\ typed' = typed
  BY DEF RunLine
<1>6. done' = Append(done, Dispatch(line))
  BY DEF RunLine
<1>7. done' = Append(done, Dispatch(<<typed[d + 1]>>))
  BY <1>4, <1>6
<1>8. Dispatch(<<typed[d + 1]>>) \in Effects
  BY DispatchTyped
<1>9. Len(done') = d + 1 /\ \A i \in DOMAIN done' : done'[i] = Dispatch(<<typed[i]>>)
  <2> DEFINE x == Dispatch(<<typed[d + 1]>>)
             F(i) == Dispatch(<<typed[i]>>)
  <2>1. done' = Append(done, x) /\ x = F(d + 1) /\ x \in Effects /\ \A i \in DOMAIN done : done[i] = F(i)
    BY <1>3, <1>7, <1>8
  <2> HIDE DEF x, F
  <2>2. Len(done') = d + 1 /\ done'[d + 1] = x /\ \A i \in 1 .. d : done'[i] = done[i]
    BY <1>2, <2>1
  <2>3. DOMAIN done' = 1 .. (d + 1) /\ DOMAIN done = 1 .. d
    <3>1. done' \in Seq(Effects)
      BY <1>2, <2>1
    <3> QED
      BY <1>2, <2>2, <3>1
  <2>4. \A i \in DOMAIN done' : done'[i] = F(i)
    <3> SUFFICES ASSUME NEW i \in 1 .. (d + 1) PROVE done'[i] = F(i)
      BY <2>3
    <3>1. CASE i = d + 1
      BY <3>1, <2>1, <2>2
    <3>2. CASE i # d + 1
      <4>1. i \in 1 .. d
        BY <3>2, <1>2
      <4> QED
        BY <4>1, <2>1, <2>2, <2>3
    <3> QED
      BY <3>1, <3>2
  <2> QED
    BY <2>2, <2>4 DEF F
<1>10. Spells(Stream', typed, d + 1, ending[1])
  <2>1. Len(line) = 1
    BY <1>4
  <2>2. Stream' = << >> \o Tail(fifo) \o wire
    BY <1>4, <1>5 DEF Stream
  <2>3. /\ Stream' \in Seq(Token) /\ Len(Stream') = Len(Stream) - 2
        /\ \A k \in 1 .. Len(Stream') : Stream'[k] = Stream[k + 2]
    <3> DEFINE s == line \o fifo \o wire
               r == << >> \o Tail(fifo) \o wire
    <3>1. /\ r \in Seq(Token) /\ Len(r) = Len(s) - 2
          /\ \A k \in 1 .. Len(r) : r[k] = s[k + 2]
      <4>1. \A a, b, c \in Seq(Token) : Len(a) = 1 /\ b # << >> =>
              /\ << >> \o Tail(b) \o c \in Seq(Token)
              /\ Len(<< >> \o Tail(b) \o c) = Len(a \o b \o c) - 2
              /\ \A k \in 1 .. Len(<< >> \o Tail(b) \o c) :
                    (<< >> \o Tail(b) \o c)[k] = (a \o b \o c)[k + 2]
        BY TakenOff
      <4> QED
        BY <1>1, <1>5, <2>1, <4>1
    <3>2. Stream' = r /\ Stream = s
      BY <2>2 DEF Stream
    <3> HIDE DEF r, s
    <3> QED
      BY <3>1, <3>2
  <2>4. Stream \in Seq(Token)
    BY <1>1 DEF Stream
  <2> HIDE DEF d
  <2> DEFINE r == Stream'
             s == Stream
             e == ending[1]
  <2>5. /\ r \in Seq(Token) /\ s \in Seq(Token) /\ Len(r) = Len(s) - 2
        /\ \A k \in 1 .. Len(r) : r[k] = s[k + 2]
    BY <2>3, <2>4
  <2>6. Spells(s, typed, d, e)
    BY <1>3
  <2> HIDE DEF r, s, e
  <2>7. Spells(r, typed, d + 1, e)
    BY <1>2, <1>4, <2>5, <2>6, LineTaken
  <2> QED
    BY <2>7 DEF r, s, e
<1> QED
  <2>1. Len(line') <= 1
    BY <1>5
  <2> QED
    BY <1>4, <1>5, <1>9, <1>10, <2>1

\* The lines that have not run are in the buffer, received or on their way, whole and in order.
LEMMA AssemblyHolds == Spec => [](TypeOK /\ Assembly)
<1>1. Init => TypeOK /\ Assembly
  BY InitTyped, AssemblyAtFirst
<1>2. TypeOK /\ Assembly /\ [Next]_vars => (TypeOK /\ Assembly)'
  <2> SUFFICES ASSUME TypeOK, Assembly, [Next]_vars PROVE TypeOK' /\ Assembly'
    OBVIOUS
  <2>1. TypeOK'
    BY TypeKept
  <2>2. ASSUME UNCHANGED vars PROVE Assembly'
    BY <2>2 DEF vars, Assembly, Stream
  <2>3. ASSUME Next PROVE Assembly'
    BY <2>3, AssemblyWhenTyped, AssemblyWhenStored, AssemblyWhenRun DEF Next
  <2> QED
    BY <2>1, <2>2, <2>3
<1> QED
  BY <1>1, <1>2, PTL DEF Spec

\* Where each line alone in the buffer does what its documentation says, every line does, in the
\* order typed, however its bytes arrive (handle_serial_cli).
THEOREM LinesRun ==
  ASSUME \A l \in Lines : <<l, Dispatch(<<l>>)>> \in Help
  PROVE  Spec => []LinesRunAsTyped
<1>1. TypeOK /\ Assembly => LinesRunAsTyped
  <2> SUFFICES ASSUME TypeOK, Assembly, Len(ending) = 1 PROVE
        Len(done) <= Len(typed) /\ \A i \in DOMAIN done : <<typed[i], done[i]>> \in Help
    BY DEF LinesRunAsTyped
  <2>1. Len(done) <= Len(typed) /\ \A i \in DOMAIN done : done[i] = Dispatch(<<typed[i]>>)
    BY DEF Assembly
  <2>2. \A i \in DOMAIN done : typed[i] \in Lines
    BY <2>1 DEF TypeOK
  <2> QED
    BY <2>1, <2>2
<1> QED
  BY <1>1, AssemblyHolds, PTL
=============================================================================
