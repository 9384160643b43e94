---------------------------- MODULE UplinkProofs ----------------------------
(***************************************************************************)
(* What is proved of DataLogger and Uplink for every size of the ring, the *)
(* files and the queue, and for every scenario.                            *)
(***************************************************************************)
EXTENDS Uplink, SequenceTheorems, TLAPS

\* The logger's entries are in order, none is newer than the newest sample, and each delta comes
\* right after its predecessor as long as nothing was discarded; then the last entry is the
\* newest sample, once there is a base.  Only the file holds a torn entry, if an append was cut.
Ordered(s)    == \A j, k \in DOMAIN s : j < k => s[j].at < s[k].at
NotAfter(s, n) == \A k \in DOMAIN s : s[k].at =< n
Chained(s)    == \A k \in DOMAIN s : s[k].base \/ (k > 1 /\ s[k - 1].at = s[k].at - 1)
EndsAt(s, n)  == s # << >> /\ s[Len(s)].at = n
Whole         == {e \in Entry : e.whole}
Untorn        == pending \in Seq(Whole) /\ ring \in Seq(Whole) /\ (cuts = 0 => overflow \in Seq(Whole))
LogInvariant ==
  /\ Ordered(Held) /\ NotAfter(Held, now)
  /\ dropped \/ (Chained(Held) /\ (haveBase => EndsAt(Held, now)))
  /\ logStep # "flush" => pending = << >>
  /\ Untorn

\* Where a line that may still be published can be.  What the file holds beside the lines its open
\* reader has yet to give is removed when the reader comes to its end.
Lines(s)   == {s[k] : k \in DOMAIN s} \ {0}
OneEach(s) == \A j, k \in DOMAIN s : s[j] = s[k] /\ s[j] # 0 => j = k
InFile     == Lines(ToRead)
InHand     == Lines(replay)
InFront    == {current} \ {0}
InQueue    == Lines(queue)

\* The four places share no line, and their lines were sampled and not published.
Apart(file, hand, front, waiting, count, n) ==
  /\ file \cap hand = {} /\ file \cap front = {} /\ file \cap waiting = {}
  /\ hand \cap front = {} /\ hand \cap waiting = {} /\ front \cap waiting = {}
  /\ \A s \in file \cup hand \cup front \cup waiting : s =< n /\ count[s] = 0

Counted(count, n) == \A s \in Sample : count[s] =< 1 /\ (count[s] = 1 => s =< n)

\* Before a reset, each followed line is at one place, or was published once, or was given up.
LinesApart ==
  /\ OneEach(ToRead) /\ OneEach(queue)
  /\ Apart(InFile, InHand, InFront, InQueue, sent, now) /\ Counted(sent, now)
LinesInvariant == resets = 0 => LinesApart

UplinkInvariant == TypeOK /\ budget \in Scenario /\ LogInvariant /\ LinesInvariant

-----------------------------------------------------------------------------
(* Sequences of entries.                                                    *)

\* A selection from an ordered sequence is ordered.
LEMMA SelectionOrdered ==
  ASSUME NEW s \in Seq(Entry), NEW t \in Seq(Entry), NEW n \in Nat,
         NEW f \in [1 .. Len(t) -> 1 .. Len(s)],
         \A j, k \in 1 .. Len(t) : j < k => f[j] < f[k],
         \A j \in 1 .. Len(t) : t[j].at = s[f[j]].at,
         Ordered(s), NotAfter(s, n)
  PROVE  Ordered(t) /\ NotAfter(t, n)
<1>1. DOMAIN t = 1 .. Len(t) /\ DOMAIN s = 1 .. Len(s)
  BY LenProperties
<1>2. ASSUME NEW j \in 1 .. Len(t), NEW k \in 1 .. Len(t), j < k PROVE t[j].at < t[k].at
  <2>1. f[j] \in DOMAIN s /\ f[k] \in DOMAIN s /\ f[j] < f[k]
    BY <1>1, <1>2
  <2>2. s[f[j]].at < s[f[k]].at
    BY <2>1 DEF Ordered
  <2> QED
    BY <2>2
<1>3. ASSUME NEW j \in 1 .. Len(t) PROVE t[j].at =< n
  <2>1. f[j] \in DOMAIN s
    BY <1>1
  <2> QED
    BY <2>1 DEF NotAfter
<1> QED
  BY <1>1, <1>2, <1>3 DEF Ordered, NotAfter

\* What is left when a stretch of an ordered sequence is taken out.
LEMMA WithoutMiddle ==
  ASSUME NEW a \in Seq(Entry), NEW b \in Seq(Entry), NEW c \in Seq(Entry), NEW n \in Nat,
         Ordered((a \o b) \o c), NotAfter((a \o b) \o c, n)
  PROVE  Ordered(a \o c) /\ NotAfter(a \o c, n)
<1> DEFINE s == (a \o b) \o c
           t == a \o c
           f == [i \in 1 .. Len(t) |-> IF i =< Len(a) THEN i ELSE i + Len(b)]
<1>1. a \o b \in Seq(Entry) /\ Len(a \o b) = Len(a) + Len(b)
      /\ \A i \in 1 .. Len(a) + Len(b) : (a \o b)[i] = IF i =< Len(a) THEN a[i] ELSE b[i - Len(a)]
  BY ConcatProperties
<1>2. s \in Seq(Entry) /\ Len(s) = Len(a) + Len(b) + Len(c)
      /\ \A i \in 1 .. Len(a) + Len(b) + Len(c) :
            s[i] = IF i =< Len(a) + Len(b) THEN (a \o b)[i] ELSE c[i - (Len(a) + Len(b))]
  BY <1>1, ConcatProperties
<1>3. t \in Seq(Entry) /\ Len(t) = Len(a) + Len(c)
      /\ \A i \in 1 .. Len(a) + Len(c) : t[i] = IF i =< Len(a) THEN a[i] ELSE c[i - Len(a)]
  BY ConcatProperties
<1>4. Len(a) \in Nat /\ Len(b) \in Nat /\ Len(c) \in Nat
  BY LenProperties
<1>5. f \in [1 .. Len(t) -> 1 .. Len(s)]
  BY <1>2, <1>3, <1>4
<1>6. \A j, k \in 1 .. Len(t) : j < k => f[j] < f[k]
  BY <1>3, <1>4
<1>7. ASSUME NEW j \in 1 .. Len(t) PROVE t[j] = s[f[j]]
  <2> HIDE DEF s, t
  <2>1. CASE j =< Len(a)
    BY <2>1, <1>1, <1>2, <1>3, <1>4
  <2>2. CASE ~ (j =< Len(a))
    <3>1. f[j] = j + Len(b) /\ j + Len(b) \in 1 .. Len(a) + Len(b) + Len(c) /\ ~ (j + Len(b) =< Len(a) + Len(b))
      BY <2>2, <1>3, <1>4
    <3>2. s[j + Len(b)] = c[j + Len(b) - (Len(a) + Len(b))]
      BY <3>1, <1>2
    <3>3. j + Len(b) - (Len(a) + Len(b)) = j - Len(a)
      BY <1>4, <1>3
    <3> QED
      BY <2>2, <3>1, <3>2, <3>3, <1>3
  <2> QED
    BY <2>1, <2>2
<1> HIDE DEF s, t, f
<1>8. Ordered(s) /\ NotAfter(s, n)
  BY DEF s
<1>9. \A j \in 1 .. Len(t) : t[j].at = s[f[j]].at
  BY <1>7
<1>10. Ordered(t) /\ NotAfter(t, n)
  BY <1>2, <1>3, <1>5, <1>6, <1>8, <1>9, SelectionOrdered
<1> QED
  BY <1>10 DEF t

\* The beginning of a sequence, but for what a torn end says beside the samples.
BeginningOf(p, s) ==
  /\ Len(p) =< Len(s)
  /\ \A k \in 1 .. Len(p) : p[k].at = s[k].at /\ p[k].base = s[k].base

\* When only the beginning of the middle is left.
LEMMA MiddleShortened ==
  ASSUME NEW a \in Seq(Entry), NEW b \in Seq(Entry), NEW c \in Seq(Entry), NEW p \in Seq(Entry), NEW n \in Nat,
         BeginningOf(p, b), Ordered((a \o b) \o c), NotAfter((a \o b) \o c, n)
  PROVE  Ordered((a \o p) \o c) /\ NotAfter((a \o p) \o c, n)
<1> DEFINE s == (a \o b) \o c
           t == (a \o p) \o c
           f == [i \in 1 .. Len(t) |-> IF i =< Len(a) + Len(p) THEN i ELSE i + (Len(b) - Len(p))]
<1>1. a \o b \in Seq(Entry) /\ Len(a \o b) = Len(a) + Len(b)
      /\ \A i \in 1 .. Len(a) + Len(b) : (a \o b)[i] = IF i =< Len(a) THEN a[i] ELSE b[i - Len(a)]
  BY ConcatProperties
<1>2. s \in Seq(Entry) /\ Len(s) = Len(a) + Len(b) + Len(c)
      /\ \A i \in 1 .. Len(a) + Len(b) + Len(c) :
            s[i] = IF i =< Len(a) + Len(b) THEN (a \o b)[i] ELSE c[i - (Len(a) + Len(b))]
  BY <1>1, ConcatProperties
<1>3. a \o p \in Seq(Entry) /\ Len(a \o p) = Len(a) + Len(p)
      /\ \A i \in 1 .. Len(a) + Len(p) : (a \o p)[i] = IF i =< Len(a) THEN a[i] ELSE p[i - Len(a)]
  BY ConcatProperties
<1>4. t \in Seq(Entry) /\ Len(t) = Len(a) + Len(p) + Len(c)
      /\ \A i \in 1 .. Len(a) + Len(p) + Len(c) :
            t[i] = IF i =< Len(a) + Len(p) THEN (a \o p)[i] ELSE c[i - (Len(a) + Len(p))]
  BY <1>3, ConcatProperties
<1>5. Len(a) \in Nat /\ Len(b) \in Nat /\ Len(c) \in Nat /\ Len(p) \in Nat /\ Len(p) =< Len(b)
  BY LenProperties DEF BeginningOf
<1>6. f \in [1 .. Len(t) -> 1 .. Len(s)]
  BY <1>2, <1>4, <1>5
<1>7. \A j, k \in 1 .. Len(t) : j < k => f[j] < f[k]
  BY <1>4, <1>5
<1>8. ASSUME NEW j \in 1 .. Len(t) PROVE t[j].at = s[f[j]].at
  <2>1. j \in Nat /\ j >= 1 /\ j =< Len(a) + Len(p) + Len(c)
    BY <1>4, <1>5
  <2>2. f[j] = IF j =< Len(a) + Len(p) THEN j ELSE j + (Len(b) - Len(p))
    OBVIOUS
  <2> HIDE DEF s, t, f
  <2>3. CASE j =< Len(a)
    <3>1. t[j] = a[j]
      BY <1>3, <1>4, <1>5, <2>1, <2>3
    <3>2. f[j] = j /\ s[j] = a[j]
      BY <1>1, <1>2, <1>5, <2>1, <2>2, <2>3
    <3> QED
      BY <3>1, <3>2
  <2>4. CASE j > Len(a) /\ j =< Len(a) + Len(p)
    <3>1. t[j] = p[j - Len(a)]
      BY <1>3, <1>4, <1>5, <2>1, <2>4
    <3>2. f[j] = j /\ s[j] = b[j - Len(a)]
      BY <1>1, <1>2, <1>5, <2>1, <2>2, <2>4
    <3>3. j - Len(a) \in 1 .. Len(p)
      BY <1>5, <2>1, <2>4
    <3> QED
      BY <3>1, <3>2, <3>3 DEF BeginningOf
  <2>5. CASE j > Len(a) + Len(p)
    <3>1. t[j] = c[j - (Len(a) + Len(p))]
      BY <1>4, <1>5, <2>1, <2>5
    <3>2. f[j] = j + (Len(b) - Len(p)) /\ f[j] \in 1 .. Len(a) + Len(b) + Len(c) /\ ~ (f[j] =< Len(a) + Len(b))
      BY <1>5, <2>1, <2>2, <2>5
    <3>3. s[f[j]] = c[f[j] - (Len(a) + Len(b))]
      BY <1>2, <3>2
    <3>4. f[j] - (Len(a) + Len(b)) = j - (Len(a) + Len(p))
      BY <1>5, <2>1, <3>2
    <3> QED
      BY <3>1, <3>3, <3>4
  <2> QED
    BY <1>5, <2>1, <2>3, <2>4, <2>5
<1> HIDE DEF s, t, f
<1>9. Ordered(s) /\ NotAfter(s, n)
  BY DEF s
<1>10. Ordered(t) /\ NotAfter(t, n)
  BY <1>2, <1>4, <1>6, <1>7, <1>8, <1>9, SelectionOrdered
<1> QED
  BY <1>10 DEF t

\* And the chain up to there.
LEMMA EndShortened ==
  ASSUME NEW a \in Seq(Entry), NEW b \in Seq(Entry), NEW p \in Seq(Entry),
         BeginningOf(p, b), Chained(a \o b)
  PROVE  Chained(a \o p)
<1>1. Len(a) \in Nat /\ Len(b) \in Nat /\ Len(p) \in Nat /\ Len(p) =< Len(b)
  BY LenProperties DEF BeginningOf
<1> DEFINE s == a \o b
           t == a \o p
<1>2. s \in Seq(Entry) /\ Len(s) = Len(a) + Len(b)
      /\ \A i \in 1 .. Len(a) + Len(b) : s[i] = IF i =< Len(a) THEN a[i] ELSE b[i - Len(a)]
  BY ConcatProperties
<1>3. t \in Seq(Entry) /\ Len(t) = Len(a) + Len(p)
      /\ \A i \in 1 .. Len(a) + Len(p) : t[i] = IF i =< Len(a) THEN a[i] ELSE p[i - Len(a)]
  BY ConcatProperties
<1>4. DOMAIN s = 1 .. Len(a) + Len(b) /\ DOMAIN t = 1 .. Len(a) + Len(p)
  BY <1>2, <1>3, LenProperties
<1>5. Chained(s)
  OBVIOUS
<1> HIDE DEF s, t
<1>6. ASSUME NEW i \in 1 .. Len(a) + Len(p) PROVE t[i].at = s[i].at /\ t[i].base = s[i].base
  <2>1. i \in 1 .. Len(a) + Len(b)
    BY <1>1
  <2>2. CASE i =< Len(a)
    BY <1>2, <1>3, <2>1, <2>2
  <2>3. CASE ~ (i =< Len(a))
    <3>1. i - Len(a) \in 1 .. Len(p)
      BY <1>1, <2>3
    <3>2. t[i] = p[i - Len(a)] /\ s[i] = b[i - Len(a)]
      BY <1>2, <1>3, <2>1, <2>3
    <3> QED
      BY <3>1, <3>2 DEF BeginningOf
  <2> QED
    BY <2>2, <2>3
<1>7. ASSUME NEW k \in DOMAIN t PROVE t[k].base \/ (k > 1 /\ t[k - 1].at = t[k].at - 1)
  <2>1. k \in DOMAIN s /\ k \in 1 .. Len(a) + Len(p)
    BY <1>1, <1>4
  <2>2. s[k].base \/ (k > 1 /\ s[k - 1].at = s[k].at - 1)
    BY <1>5, <2>1 DEF Chained
  <2>3. k > 1 => k - 1 \in 1 .. Len(a) + Len(p)
    BY <1>1, <2>1
  <2> QED
    BY <1>6, <2>1, <2>2, <2>3
<1>8. Chained(t)
  BY <1>7 DEF Chained
<1> QED
  BY <1>8 DEF t

\* A newer entry at the end.
LEMMA AppendNewer ==
  ASSUME NEW s \in Seq(Entry), NEW e \in Entry, NEW n \in Nat, e.at = n + 1,
         Ordered(s), NotAfter(s, n)
  PROVE  Ordered(Append(s, e)) /\ NotAfter(Append(s, e), n + 1) /\ EndsAt(Append(s, e), n + 1)
<1> DEFINE t == Append(s, e)
<1>1. t \in Seq(Entry) /\ Len(t) = Len(s) + 1 /\ (\A i \in 1 .. Len(s) : t[i] = s[i]) /\ t[Len(s) + 1] = e
      /\ t # << >>
  BY AppendProperties
<1>2. Len(s) \in Nat /\ DOMAIN s = 1 .. Len(s) /\ DOMAIN t = 1 .. Len(s) + 1
  BY <1>1, LenProperties
<1>3. \A i \in 1 .. Len(s) : s[i].at =< n /\ s[i].at \in Int
  <2>1. \A i \in 1 .. Len(s) : s[i] \in Entry
    BY <1>2, ElementOfSeq
  <2> QED
    BY <2>1, <1>2 DEF NotAfter, Entry, Sample
<1> HIDE DEF t
<1>4. NotAfter(t, n + 1)
  BY <1>1, <1>2, <1>3 DEF NotAfter
<1>5. Ordered(t)
  <2> SUFFICES ASSUME NEW j \in 1 .. Len(s) + 1, NEW k \in 1 .. Len(s) + 1, j < k PROVE t[j].at < t[k].at
    BY <1>2 DEF Ordered
  <2>1. j \in 1 .. Len(s)
    BY <1>2
  <2>2. CASE k \in 1 .. Len(s)
    <3>1. s[j].at < s[k].at
      BY <2>1, <2>2, <1>2 DEF Ordered
    <3> QED
      BY <3>1, <2>1, <2>2, <1>1
  <2>3. CASE k = Len(s) + 1
    BY <2>1, <2>3, <1>1, <1>3
  <2> QED
    BY <2>2, <2>3, <1>2
<1>6. EndsAt(t, n + 1)
  BY <1>1 DEF EndsAt
<1> QED
  BY <1>4, <1>5, <1>6 DEF t

\* A base, or the successor of the last entry, at the end.
LEMMA AppendChained ==
  ASSUME NEW s \in Seq(Entry), NEW e \in Entry,
         Chained(s), e.base \/ EndsAt(s, e.at - 1)
  PROVE  Chained(Append(s, e))
<1> DEFINE t == Append(s, e)
<1>1. t \in Seq(Entry) /\ Len(t) = Len(s) + 1 /\ (\A i \in 1 .. Len(s) : t[i] = s[i]) /\ t[Len(s) + 1] = e
  BY AppendProperties
<1>2. Len(s) \in Nat /\ DOMAIN s = 1 .. Len(s) /\ DOMAIN t = 1 .. Len(s) + 1
  BY <1>1, LenProperties
<1> HIDE DEF t
<1>3. ASSUME NEW k \in 1 .. Len(s) PROVE t[k].base \/ (k > 1 /\ t[k - 1].at = t[k].at - 1)
  <2>1. s[k].base \/ (k > 1 /\ s[k - 1].at = s[k].at - 1)
    BY <1>2 DEF Chained
  <2>2. t[k] = s[k] /\ (k > 1 => t[k - 1] = s[k - 1])
    BY <1>1, <1>2
  <2> QED
    BY <2>1, <2>2
<1>4. t[Len(s) + 1].base \/ (Len(s) + 1 > 1 /\ t[Len(s) + 1 - 1].at = t[Len(s) + 1].at - 1)
  <2>1. CASE e.base
    BY <2>1, <1>1
  <2>2. CASE EndsAt(s, e.at - 1)
    <3>1. Len(s) # 0 /\ s[Len(s)].at = e.at - 1
      BY <2>2, EmptySeq DEF EndsAt
    <3>2. Len(s) \in 1 .. Len(s) /\ Len(s) + 1 > 1 /\ Len(s) + 1 - 1 = Len(s)
      BY <3>1, <1>2
    <3> QED
      BY <3>1, <3>2, <1>1
  <2> QED
    BY <2>1, <2>2
<1>5. \A k \in DOMAIN t : k \in 1 .. Len(s) \/ k = Len(s) + 1
  BY <1>2
<1>6. ASSUME NEW k \in DOMAIN t PROVE t[k].base \/ (k > 1 /\ t[k - 1].at = t[k].at - 1)
  <2>1. CASE k \in 1 .. Len(s)
    BY <2>1, <1>3
  <2>2. CASE k = Len(s) + 1
    BY <2>2, <1>4
  <2> QED
    BY <1>5, <2>1, <2>2
<1> QED
  BY <1>6 DEF Chained, t

\* The beginning of a chained sequence is chained.
LEMMA PrefixChained ==
  ASSUME NEW a \in Seq(Entry), NEW b \in Seq(Entry), Chained(a \o b)
  PROVE  Chained(a)
<1>1. Len(a) \in Nat /\ Len(b) \in Nat /\ DOMAIN a = 1 .. Len(a)
  BY LenProperties
<1>2. a \o b \in Seq(Entry) /\ Len(a \o b) = Len(a) + Len(b)
  BY ConcatProperties
<1>3. DOMAIN (a \o b) = 1 .. Len(a) + Len(b)
  BY <1>2, LenProperties
<1>4. \A i \in 1 .. Len(a) : (a \o b)[i] = a[i]
  BY <1>1, ConcatProperties
<1> SUFFICES ASSUME NEW k \in 1 .. Len(a) PROVE a[k].base \/ (k > 1 /\ a[k - 1].at = a[k].at - 1)
  BY <1>1 DEF Chained
<1>5. (a \o b)[k].base \/ (k > 1 /\ (a \o b)[k - 1].at = (a \o b)[k].at - 1)
  BY <1>1, <1>3 DEF Chained
<1>6. (a \o b)[k] = a[k] /\ (k > 1 => (a \o b)[k - 1] = a[k - 1])
  BY <1>4, <1>1
<1> QED
  BY <1>5, <1>6

-----------------------------------------------------------------------------
(* Type correctness.                                                        *)

LEMMA SpendTyped ==
  ASSUME budget \in Scenario,
         NEW kind \in {"far", "outage", "broker", "setup", "console", "flush", "card", "write", "reset"},
         Spend(kind)
  PROVE  budget' \in Scenario /\ budget'.samples = budget.samples
<1>1. CASE kind = "far"
  BY <1>1 DEF Spend, Scenario
<1>2. CASE kind = "outage"
  BY <1>2 DEF Spend, Scenario
<1>3. CASE kind = "broker"
  BY <1>3 DEF Spend, Scenario
<1>4. CASE kind = "setup"
  BY <1>4 DEF Spend, Scenario
<1>5. CASE kind = "console"
  BY <1>5 DEF Spend, Scenario
<1>6. CASE kind = "flush"
  BY <1>6 DEF Spend, Scenario
<1>7. CASE kind = "card"
  BY <1>7 DEF Spend, Scenario
<1>8. CASE kind = "reset"
  BY <1>8 DEF Spend, Scenario
<1>9. CASE kind = "write"
  BY <1>9 DEF Spend, Scenario
<1> QED
  BY <1>1, <1>2, <1>3, <1>4, <1>5, <1>6, <1>7, <1>8, <1>9

TypeSteps ==
  /\ logStep \in {"sample", "flush", "row"} /\ netStep \in NetStep /\ wifiState \in WifiState
  /\ post \in {"idle", "ntp", "cal", "mqtt", "done"}
TypeFlags ==
  /\ link \in BOOLEAN /\ haveBase \in BOOLEAN /\ flushing \in BOOLEAN
  /\ card \in BOOLEAN /\ sdTried \in BOOLEAN /\ sdPresent \in BOOLEAN /\ dropped \in BOOLEAN
  /\ \A b \in {timer, skip, was, ble, mqtt, server, cooling, creds, begun, joining, ap} : b \in BOOLEAN

LEMMA CardFlags ==
  ASSUME TypeFlags, CardFails
  PROVE  /\ sdTried' \in BOOLEAN /\ sdPresent' \in BOOLEAN /\ (dropped => dropped') /\ dropped' \in BOOLEAN
         /\ UNCHANGED <<link, haveBase, flushing, card>>
<1>1. CASE RowFails
  BY <1>1 DEF RowFails, SdReset, TypeFlags
<1>2. CASE FlushFails
  <2>1. PICK n \in 0 .. Len(pending) : CutAppend(n, TRUE) /\ IF n = 0 THEN SdReset ELSE InitSd(TRUE)
    BY <1>2, Zenon DEF FlushFails
  <2>2. sdTried' \in BOOLEAN /\ sdPresent' \in BOOLEAN
    BY <2>1 DEF SdReset, InitSd
  <2>3. dropped' = TRUE
    BY <2>1, Zenon DEF CutAppend
  <2> QED
    BY <1>2, <2>2, <2>3 DEF FlushFails
<1> QED
  BY <1>1, <1>2, Zenon DEF CardFails

LEMMA StepsTyped ==
  ASSUME TypeSteps, [Next]_vars
  PROVE  TypeSteps'
<1>1. CASE TakeSample
  BY <1>1 DEF TakeSample, LogSample, CanFit, wifi, TypeSteps, NetStep, WifiState
<1>2. CASE TakeLaterSample
  BY <1>2 DEF TakeLaterSample, logVars, logger, wifi, TypeSteps, NetStep, WifiState
<1>3. CASE RestOfSample
  BY <1>3 DEF RestOfSample, FlushToSd, WriteRow, wifi, TypeSteps, NetStep, WifiState
<1>4. CASE WifiTick
  BY <1>4 DEF WifiTick, TickInit, TickConnecting, TickConnected, TickBackoff, Enter, logVars, logger, TypeSteps, NetStep, WifiState
<1>5. CASE TickJoined
  BY <1>5 DEF TickJoined, Enter, logVars, logger, TypeSteps, NetStep, WifiState
<1>6. CASE TickNtp
  BY <1>6 DEF TickNtp, logVars, logger, TypeSteps, NetStep, WifiState
<1>7. CASE CheckLink
  BY <1>7 DEF CheckLink, logVars, logger, TypeSteps, NetStep, WifiState
<1>8. CASE KeepMqtt
  BY <1>8 DEF KeepMqtt, logVars, logger, wifi, TypeSteps, NetStep, WifiState
<1>9. CASE BleSetWifi
  BY <1>9 DEF BleSetWifi, NewCredentials, Enter, logger, TypeSteps, NetStep, WifiState
<1>10. CASE BleSetMqtt
  BY <1>10 DEF BleSetMqtt, logVars, logger, wifi, TypeSteps, NetStep, WifiState
<1>11. CASE TakeSnapshot
  BY <1>11 DEF TakeSnapshot, logger, wifi, TypeSteps, NetStep, WifiState
<1>12. CASE Drain
  BY <1>12 DEF Drain, logger, wifi, TypeSteps, NetStep, WifiState
<1>13. CASE Replay
  BY <1>13 DEF Replay, logger, wifi, TypeSteps, NetStep, WifiState
<1>14. CASE Send
  BY <1>14 DEF Send, logger, wifi, TypeSteps, NetStep, WifiState
<1>15. CASE LinkUp
  BY <1>15 DEF LinkUp, logger, wifi, TypeSteps, NetStep, WifiState
<1>16. CASE AccessPointGoes
  BY <1>16 DEF AccessPointGoes, logger, wifi, TypeSteps, NetStep, WifiState
<1>17. CASE AccessPointComes
  BY <1>17 DEF AccessPointComes, logVars, logger, wifi, TypeSteps, NetStep, WifiState
<1>18. CASE SessionEnds
  BY <1>18 DEF SessionEnds, logVars, logger, wifi, TypeSteps, NetStep, WifiState
<1>19. CASE TimerPasses
  BY <1>19 DEF TimerPasses, logVars, logger, TypeSteps, NetStep, WifiState
<1>20. CASE CoolingPasses
  BY <1>20 DEF CoolingPasses, logVars, logger, wifi, TypeSteps, NetStep, WifiState
<1>21. CASE ConsoleSetWifi
  BY <1>21 DEF ConsoleSetWifi, logger, TypeSteps, NetStep, WifiState
<1>22. CASE ConsoleJoins
  BY <1>22 DEF ConsoleJoins, NewCredentials, Enter, logVars, logger, TypeSteps, NetStep, WifiState
<1>23. CASE ConsoleBleOn
  BY <1>23 DEF ConsoleBleOn, logVars, logger, wifi, TypeSteps, NetStep, WifiState
<1>24. CASE ConsoleFlushLog
  BY <1>24 DEF ConsoleFlushLog, FlushLog, PopBatch, PopRing, logger, wifi, TypeSteps, NetStep, WifiState
<1>25. CASE MoveCard
  BY <1>25 DEF MoveCard, CardOut, CardIn, logger, wifi, TypeSteps, NetStep, WifiState
<1>26. CASE Reset
  BY <1>26 DEF Reset, LogReset, TypeSteps, NetStep, WifiState
<1>27. CASE UNCHANGED vars
  BY <1>27 DEF vars, logVars, logger, sd, files, wifi, session, data, env, TypeSteps, NetStep, WifiState
<1>28. CASE CardFails
  BY <1>28 DEF CardFails, FlushFails, RowFails, wifi, TypeSteps, NetStep, WifiState
<1> QED
  BY <1>1, <1>2, <1>3, <1>4, <1>5, <1>6, <1>7, <1>8, <1>9, <1>10, <1>11, <1>12, <1>13, <1>14, <1>15, <1>16, <1>17, <1>18, <1>19, <1>20, <1>21, <1>22, <1>23, <1>24, <1>25, <1>26, <1>27, <1>28 DEF Next

LEMMA FlagsTyped ==
  ASSUME TypeFlags, [Next]_vars
  PROVE  TypeFlags'
<1>1. CASE TakeSample
  BY <1>1 DEF TakeSample, LogSample, CanFit, Spill, InitSd, Begins, sd, wifi, session, TypeFlags
<1>2. CASE TakeLaterSample
  BY <1>2 DEF TakeLaterSample, logVars, logger, sd, wifi, session, env, TypeFlags
<1>3. CASE RestOfSample
  BY <1>3 DEF RestOfSample, FlushToSd, FlushAppend, WriteRow, InitSd, SdReset, Begins, sd, wifi, session, env, TypeFlags
<1>4. CASE WifiTick
  BY <1>4 DEF WifiTick, TickInit, TickConnecting, TickConnected, TickBackoff, Enter, ConnectMqtt, logVars, logger, sd, session, TypeFlags
<1>5. CASE TickJoined
  BY <1>5 DEF TickJoined, Enter, logVars, logger, sd, session, env, TypeFlags
<1>6. CASE TickNtp
  BY <1>6 DEF TickNtp, logVars, logger, sd, session, env, TypeFlags
<1>7. CASE CheckLink
  BY <1>7 DEF CheckLink, Reopens, Resumes, logVars, logger, sd, session, env, TypeFlags
<1>8. CASE KeepMqtt
  BY <1>8 DEF KeepMqtt, ConnectMqtt, logVars, logger, sd, wifi, TypeFlags
<1>9. CASE BleSetWifi
  BY <1>9 DEF BleSetWifi, NewCredentials, Enter, logger, sd, session, TypeFlags
<1>10. CASE BleSetMqtt
  BY <1>10 DEF BleSetMqtt, logVars, logger, sd, wifi, TypeFlags
<1>11. CASE TakeSnapshot
  BY <1>11 DEF TakeSnapshot, HasOverflowFile, InitSd, Begins, logger, sd, wifi, session, env, TypeFlags
<1>12. CASE Drain
  BY <1>12 DEF Drain, logger, sd, wifi, session, env, TypeFlags
<1>13. CASE Replay
  BY <1>13 DEF Replay, Publish, PublishFails, SaveTelemetry, InitSd, Begins, logger, sd, wifi, session, TypeFlags
<1>14. CASE Send
  BY <1>14 DEF Send, Publish, PublishFails, SaveTelemetry, InitSd, Begins, logger, sd, wifi, session, TypeFlags
<1>15. CASE LinkUp
  BY <1>15 DEF LinkUp, logger, sd, wifi, session, env, TypeFlags
<1>16. CASE AccessPointGoes
  BY <1>16 DEF AccessPointGoes, logger, sd, wifi, session, TypeFlags
<1>17. CASE AccessPointComes
  BY <1>17 DEF AccessPointComes, logVars, logger, sd, wifi, session, TypeFlags
<1>18. CASE SessionEnds
  BY <1>18 DEF SessionEnds, logVars, logger, sd, wifi, TypeFlags
<1>19. CASE TimerPasses
  BY <1>19 DEF TimerPasses, logVars, logger, sd, session, env, TypeFlags
<1>20. CASE CoolingPasses
  BY <1>20 DEF CoolingPasses, logVars, logger, sd, wifi, env, TypeFlags
<1>21. CASE ConsoleSetWifi
  BY <1>21 DEF ConsoleSetWifi, logger, sd, session, TypeFlags
<1>22. CASE ConsoleJoins
  BY <1>22 DEF ConsoleJoins, NewCredentials, Enter, logVars, logger, sd, session, env, TypeFlags
<1>23. CASE ConsoleBleOn
  BY <1>23 DEF ConsoleBleOn, logVars, logger, sd, wifi, session, TypeFlags
<1>24. CASE ConsoleFlushLog
  BY <1>24 DEF ConsoleFlushLog, FlushLog, PopBatch, PopRing, logger, sd, wifi, session, env, TypeFlags
<1>25. CASE MoveCard
  BY <1>25 DEF MoveCard, CardOut, CardIn, logger, sd, wifi, session, TypeFlags
<1>26. CASE Reset
  <2>1. (dropped' = dropped \/ dropped' \in BOOLEAN)
    BY <1>26, Zenon DEF Reset, LogReset, CutAppend
  <2> QED
    BY <1>26, <2>1 DEF Reset, LogReset, Begins, TypeFlags
<1>27. CASE UNCHANGED vars
  BY <1>27 DEF vars, logVars, logger, sd, files, wifi, session, data, env, TypeFlags
<1>28. CASE CardFails
  BY <1>28, CardFlags DEF CardFails, wifi, session, TypeFlags
<1> QED
  BY <1>1, <1>2, <1>3, <1>4, <1>5, <1>6, <1>7, <1>8, <1>9, <1>10, <1>11, <1>12, <1>13, <1>14, <1>15, <1>16, <1>17, <1>18, <1>19, <1>20, <1>21, <1>22, <1>23, <1>24, <1>25, <1>26, <1>27, <1>28 DEF Next

LEMMA SessionTyped ==
  ASSUME mqtt => server, [Next]_vars
  PROVE  (mqtt => server)'
<1>1. CASE TakeSample
  BY <1>1 DEF TakeSample, session
<1>2. CASE TakeLaterSample
  BY <1>2 DEF TakeLaterSample, session
<1>3. CASE RestOfSample
  BY <1>3 DEF RestOfSample, session
<1>4. CASE WifiTick
  BY <1>4 DEF WifiTick, TickInit, TickConnecting, TickConnected, TickBackoff, ConnectMqtt, session
<1>5. CASE TickJoined
  BY <1>5 DEF TickJoined, session
<1>6. CASE TickNtp
  BY <1>6 DEF TickNtp, session
<1>7. CASE CheckLink
  BY <1>7 DEF CheckLink, session
<1>8. CASE KeepMqtt
  BY <1>8 DEF KeepMqtt, ConnectMqtt
<1>9. CASE BleSetWifi
  BY <1>9 DEF BleSetWifi, session
<1>10. CASE BleSetMqtt
  BY <1>10 DEF BleSetMqtt
<1>11. CASE TakeSnapshot
  BY <1>11 DEF TakeSnapshot, session
<1>12. CASE Drain
  BY <1>12 DEF Drain, session
<1>13. CASE Replay
  BY <1>13 DEF Replay, session
<1>14. CASE Send
  BY <1>14 DEF Send, session
<1>15. CASE LinkUp
  BY <1>15 DEF LinkUp, session
<1>16. CASE AccessPointGoes
  BY <1>16 DEF AccessPointGoes, session
<1>17. CASE AccessPointComes
  BY <1>17 DEF AccessPointComes, session
<1>18. CASE SessionEnds
  BY <1>18 DEF SessionEnds
<1>19. CASE TimerPasses
  BY <1>19 DEF TimerPasses, session
<1>20. CASE CoolingPasses
  BY <1>20 DEF CoolingPasses
<1>21. CASE ConsoleSetWifi
  BY <1>21 DEF ConsoleSetWifi, session
<1>22. CASE ConsoleJoins
  BY <1>22 DEF ConsoleJoins, session
<1>23. CASE ConsoleBleOn
  BY <1>23 DEF ConsoleBleOn, session
<1>24. CASE ConsoleFlushLog
  BY <1>24 DEF ConsoleFlushLog, session
<1>25. CASE MoveCard
  BY <1>25 DEF MoveCard, session
<1>26. CASE Reset
  BY <1>26 DEF Reset
<1>27. CASE UNCHANGED vars
  BY <1>27 DEF vars, logVars, logger, sd, files, wifi, session, data, env, Enter, NewCredentials
<1>28. CASE CardFails
  BY <1>28 DEF CardFails, session
<1> QED
  BY <1>1, <1>2, <1>3, <1>4, <1>5, <1>6, <1>7, <1>8, <1>9, <1>10, <1>11, <1>12, <1>13, <1>14, <1>15, <1>16, <1>17, <1>18, <1>19, <1>20, <1>21, <1>22, <1>23, <1>24, <1>25, <1>26, <1>27, <1>28 DEF Next

LEMMA BudgetTyped ==
  ASSUME budget \in Scenario, [Next]_vars
  PROVE  budget' \in Scenario /\ budget'.samples = budget.samples
<1>1. CASE TakeSample
  BY <1>1, SpendTyped DEF TakeSample
<1>2. CASE TakeLaterSample
  BY <1>2 DEF TakeLaterSample, env
<1>3. CASE RestOfSample
  BY <1>3 DEF RestOfSample, env
<1>4. CASE WifiTick
  BY <1>4, SpendTyped DEF WifiTick, TickInit, TickConnecting, TickConnected, TickBackoff, ConnectMqtt
<1>5. CASE TickJoined
  BY <1>5 DEF TickJoined, env
<1>6. CASE TickNtp
  BY <1>6 DEF TickNtp, env
<1>7. CASE CheckLink
  BY <1>7 DEF CheckLink, env
<1>8. CASE KeepMqtt
  BY <1>8, SpendTyped DEF KeepMqtt, ConnectMqtt
<1>9. CASE BleSetWifi
  BY <1>9, SpendTyped DEF BleSetWifi
<1>10. CASE BleSetMqtt
  BY <1>10, SpendTyped DEF BleSetMqtt
<1>11. CASE TakeSnapshot
  BY <1>11 DEF TakeSnapshot, env
<1>12. CASE Drain
  BY <1>12 DEF Drain, env
<1>13. CASE Replay
  BY <1>13, SpendTyped DEF Replay, PublishFails, Publish
<1>14. CASE Send
  BY <1>14, SpendTyped DEF Send, Publish, PublishFails
<1>15. CASE LinkUp
  BY <1>15 DEF LinkUp, env
<1>16. CASE AccessPointGoes
  BY <1>16, SpendTyped DEF AccessPointGoes
<1>17. CASE AccessPointComes
  BY <1>17 DEF AccessPointComes
<1>18. CASE SessionEnds
  BY <1>18, SpendTyped DEF SessionEnds
<1>19. CASE TimerPasses
  BY <1>19 DEF TimerPasses, env
<1>20. CASE CoolingPasses
  BY <1>20 DEF CoolingPasses, env
<1>21. CASE ConsoleSetWifi
  BY <1>21, SpendTyped DEF ConsoleSetWifi
<1>22. CASE ConsoleJoins
  BY <1>22 DEF ConsoleJoins, env
<1>23. CASE ConsoleBleOn
  BY <1>23, SpendTyped DEF ConsoleBleOn
<1>24. CASE ConsoleFlushLog
  BY <1>24, SpendTyped DEF ConsoleFlushLog, env
<1>25. CASE MoveCard
  BY <1>25, SpendTyped DEF MoveCard
<1>26. CASE Reset
  BY <1>26, SpendTyped DEF Reset
<1>27. CASE UNCHANGED vars
  BY <1>27 DEF vars, logVars, logger, sd, files, wifi, session, data, env
<1>28. CASE CardFails
  BY <1>28, SpendTyped DEF CardFails
<1> QED
  BY <1>1, <1>2, <1>3, <1>4, <1>5, <1>6, <1>7, <1>8, <1>9, <1>10, <1>11, <1>12, <1>13, <1>14, <1>15, <1>16, <1>17, <1>18, <1>19, <1>20, <1>21, <1>22, <1>23, <1>24, <1>25, <1>26, <1>27, <1>28 DEF Next

TypeCounts ==
  /\ now \in 0 .. MaxSample /\ csvRows \in Nat /\ resets \in Nat /\ cuts \in Nat
  /\ sent \in [Sample -> Nat]

LEMMA CountsTyped ==
  ASSUME TypeCounts, budget \in Scenario, [Next]_vars
  PROVE  TypeCounts'
<1>1. CASE TakeSample
  <2>1. now < budget.samples /\ now' = now + 1 /\ csvRows' = csvRows /\ cuts' = cuts /\ resets' = resets /\ sent' = sent
    BY <1>1 DEF TakeSample, LogSample, CanFit, env, data
  <2>2. budget.samples \in 0 .. MaxSample
    BY DEF Scenario
  <2> QED
    BY <2>1, <2>2, LoggerAssumption DEF TypeCounts
<1>2. CASE TakeLaterSample
  BY <1>2 DEF TakeLaterSample, logVars, logger, env, TypeCounts, Sample, Scenario
<1>3. CASE RestOfSample
  <2>1. csvRows' = csvRows \/ csvRows' = 0 \/ csvRows' = 1 \/ csvRows' = csvRows + 1
    BY <1>3 DEF RestOfSample, FlushToSd, WriteRow
  <2>2. now' = now /\ cuts' = cuts /\ resets' = resets /\ sent' = sent
    BY <1>3 DEF RestOfSample, FlushToSd, WriteRow, env, data
  <2> QED
    BY <2>1, <2>2 DEF TypeCounts
<1>4. CASE WifiTick
  BY <1>4 DEF WifiTick, logVars, logger, data, TypeCounts, Sample, Scenario
<1>5. CASE TickJoined
  BY <1>5 DEF TickJoined, logVars, logger, data, env, TypeCounts, Sample, Scenario
<1>6. CASE TickNtp
  BY <1>6 DEF TickNtp, logVars, logger, data, env, TypeCounts, Sample, Scenario
<1>7. CASE CheckLink
  BY <1>7 DEF CheckLink, logVars, logger, data, env, TypeCounts, Sample, Scenario
<1>8. CASE KeepMqtt
  BY <1>8 DEF KeepMqtt, logVars, logger, data, TypeCounts, Sample, Scenario
<1>9. CASE BleSetWifi
  BY <1>9 DEF BleSetWifi, logger, data, TypeCounts, Sample, Scenario
<1>10. CASE BleSetMqtt
  BY <1>10 DEF BleSetMqtt, logVars, logger, data, TypeCounts, Sample, Scenario
<1>11. CASE TakeSnapshot
  BY <1>11 DEF TakeSnapshot, logger, env, TypeCounts, Sample, Scenario
<1>12. CASE Drain
  BY <1>12 DEF Drain, logger, env, TypeCounts, Sample, Scenario
<1>13. CASE Replay
  BY <1>13 DEF Replay, Publish, PublishFails, logger, TypeCounts, Sample, Scenario
<1>14. CASE Send
  BY <1>14 DEF Send, Publish, PublishFails, logger, TypeCounts, Sample, Scenario
<1>15. CASE LinkUp
  BY <1>15 DEF LinkUp, logger, data, env, TypeCounts, Sample, Scenario
<1>16. CASE AccessPointGoes
  BY <1>16 DEF AccessPointGoes, logger, data, TypeCounts, Sample, Scenario
<1>17. CASE AccessPointComes
  BY <1>17 DEF AccessPointComes, logVars, logger, data, TypeCounts, Sample, Scenario
<1>18. CASE SessionEnds
  BY <1>18 DEF SessionEnds, logVars, logger, data, TypeCounts, Sample, Scenario
<1>19. CASE TimerPasses
  BY <1>19 DEF TimerPasses, logVars, logger, data, env, TypeCounts, Sample, Scenario
<1>20. CASE CoolingPasses
  BY <1>20 DEF CoolingPasses, logVars, logger, data, env, TypeCounts, Sample, Scenario
<1>21. CASE ConsoleSetWifi
  BY <1>21 DEF ConsoleSetWifi, logger, data, TypeCounts, Sample, Scenario
<1>22. CASE ConsoleJoins
  BY <1>22 DEF ConsoleJoins, logVars, logger, data, env, TypeCounts, Sample, Scenario
<1>23. CASE ConsoleBleOn
  BY <1>23 DEF ConsoleBleOn, logVars, logger, data, TypeCounts, Sample, Scenario
<1>24. CASE ConsoleFlushLog
  BY <1>24 DEF ConsoleFlushLog, FlushLog, PopBatch, PopRing, logger, data, env, TypeCounts, Sample, Scenario
<1>25. CASE MoveCard
  BY <1>25 DEF MoveCard, CardOut, CardIn, logger, data, TypeCounts, Sample, Scenario
<1>26. CASE Reset
  <2>1. cuts' = cuts \/ cuts' = cuts + 1
    BY <1>26 DEF Reset, LogReset, CutAppend
  <2> QED
    BY <1>26, <2>1 DEF Reset, LogReset, TypeCounts, Sample, Scenario
<1>27. CASE UNCHANGED vars
  BY <1>27 DEF vars, logVars, logger, sd, files, wifi, session, data, env, TypeCounts, Sample, Scenario
<1>28. CASE CardFails
  <2>1. (csvRows' = csvRows \/ csvRows' = csvRows + 1) /\ (cuts' = cuts \/ cuts' = cuts + 1)
    BY <1>28 DEF CardFails, FlushFails, RowFails, CutAppend
  <2>2. now' = now /\ resets' = resets /\ sent' = sent
    BY <1>28 DEF CardFails, FlushFails, RowFails, data
  <2> QED
    BY <2>1, <2>2 DEF TypeCounts
<1> QED
  BY <1>1, <1>2, <1>3, <1>4, <1>5, <1>6, <1>7, <1>8, <1>9, <1>10, <1>11, <1>12, <1>13, <1>14, <1>15, <1>16, <1>17, <1>18, <1>19, <1>20, <1>21, <1>22, <1>23, <1>24, <1>25, <1>26, <1>27, <1>28 DEF Next

LEMMA EntryMade ==
  ASSUME TypeCounts, budget \in Scenario, now < budget.samples, NEW far \in BOOLEAN
  PROVE  MakeEntry(far) \in Entry /\ MakeEntry(far).at = now + 1 /\ MakeEntry(far).whole
<1>1. budget.samples \in 0 .. MaxSample
  BY DEF Scenario
<1>2. now + 1 \in Sample
  BY <1>1, LoggerAssumption DEF TypeCounts, Sample
<1>3. (~ haveBase \/ far) \in BOOLEAN
  OBVIOUS
<1> QED
  BY <1>2, <1>3 DEF MakeEntry, Entry

\* What a sequence becomes by Append, Tail and \o.
LEMMA SequenceSteps ==
  ASSUME NEW S, NEW s \in Seq(S)
  PROVE  /\ \A e \in S : Append(s, e) \in Seq(S) /\ Len(Append(s, e)) = Len(s) + 1
         /\ s # << >> => Head(s) \in S /\ Tail(s) \in Seq(S) /\ Len(Tail(s)) = Len(s) - 1
         /\ \A t \in Seq(S) : s \o t \in Seq(S)
         /\ << >> \in Seq(S) /\ Len(<< >>) = 0 /\ Len(s) \in Nat
         /\ \A e \in S : <<e>> \in Seq(S) /\ Len(<<e>>) = 1
<1>1. \A e \in S : Append(s, e) \in Seq(S) /\ Len(Append(s, e)) = Len(s) + 1
  BY AppendProperties
<1>2. s # << >> => Head(s) \in S /\ Tail(s) \in Seq(S) /\ Len(Tail(s)) = Len(s) - 1
  BY HeadTailProperties
<1>3. \A t \in Seq(S) : s \o t \in Seq(S)
  BY ConcatProperties
<1>4. << >> \in Seq(S) /\ Len(<< >>) = 0 /\ Len(s) \in Nat
  BY EmptySeq, LenProperties
<1>5. \A e \in S : <<e>> \in Seq(S) /\ Len(<<e>>) = 1
  OBVIOUS
<1> QED
  BY <1>1, <1>2, <1>3, <1>4, <1>5

TypeEntries ==
  ring \in Seq(Entry) /\ Len(ring) =< RingSize /\ pending \in Seq(Entry) /\ overflow \in Seq(Entry)


\* What log_sample() does to the entries, up to the end of its critical section.
LEMMA SampleTaken ==
  ASSUME TypeFlags, TypeCounts, TypeEntries, budget \in Scenario, TakeSample
  PROVE  /\ logStep = "sample" /\ now' = now + 1 /\ haveBase' /\ overflow' = overflow
         /\ dropped => dropped'
         /\ cuts' = cuts
         /\ \E e \in Entry :
              /\ e.at = now + 1 /\ (haveBase \/ e.base) /\ e.whole
              /\ \/ Len(ring) < RingSize /\ ring' = Append(ring, e) /\ pending' = pending
                 \/ Len(ring) = RingSize /\ ~ link /\ ring' = <<e>> /\ pending' = ring
                 \/ /\ Len(ring) = RingSize /\ (link \/ ~ sdPresent') /\ ring' = <<e>>
                    /\ pending' = << >> /\ dropped'
<1>1. PICK far \in BOOLEAN : LogSample(far)
  BY Zenon DEF TakeSample
<1>2. logStep = "sample" /\ now' = now + 1 /\ haveBase' /\ overflow' = overflow /\ cuts' = cuts
  BY <1>1 DEF LogSample, CanFit, files
<1> DEFINE e == MakeEntry(far)
<1>3. e \in Entry /\ e.at = now + 1 /\ e.whole
  BY EntryMade DEF TakeSample
<1>4. haveBase \/ e.base
  BY DEF MakeEntry
<1> HIDE DEF e
<1>5. CASE Len(ring) < RingSize
  <2>1. ring' = Append(ring, e) /\ pending' = pending /\ dropped' = dropped
    BY <1>1, <1>5 DEF LogSample, CanFit, e
  <2> QED
    BY <1>2, <1>3, <1>4, <1>5, <2>1
<1>6. CASE ~ (Len(ring) < RingSize)
  <2>1. Len(ring) = RingSize
    BY <1>6, LenProperties, LoggerAssumption DEF TypeEntries
  <2>2. PICK up \in BOOLEAN :
          /\ IF link THEN up = FALSE /\ UNCHANGED sd ELSE InitSd(up)
          /\ pending' = IF up THEN ring ELSE << >>
          /\ ring' = <<e>> /\ dropped' = (dropped \/ ~ up)
    BY <1>1, <1>6, Zenon DEF LogSample, CanFit, Spill, e
  <2>3. CASE up
    <3>1. ~ link /\ pending' = ring
      BY <2>2, <2>3
    <3>2. dropped => dropped'
      BY <2>2
    <3> QED
      BY <1>2, <1>3, <1>4, <2>1, <2>2, <3>1, <3>2
  <2>4. CASE ~ up
    <3>1. pending' = << >>
      BY <2>2, <2>4
    <3>2. dropped'
      BY <2>2, <2>4
    <3>3. link \/ ~ sdPresent'
      BY <2>2, <2>4, Zenon DEF InitSd
    <3> QED
      BY <1>2, <1>3, <1>4, <2>1, <2>2, <3>1, <3>2, <3>3
  <2> QED
    BY <2>3, <2>4
<1> QED
  BY <1>5, <1>6

\* And what the rest of it does.
LEMMA SampleFinished ==
  ASSUME TypeFlags, TypeEntries, RestOfSample
  PROVE  /\ now' = now /\ cuts' = cuts /\ (haveBase' <=> haveBase) /\ ring' = ring /\ (dropped => dropped')
         /\ \/ logStep = "row" /\ logStep' = "sample" /\ pending' = pending /\ overflow' = overflow
            \/ /\ logStep = "flush" /\ logStep' = "row" /\ pending' = << >>
               /\ \/ pending = << >> /\ overflow' = overflow
                  \/ ~ Full /\ overflow' = overflow \o pending
                  \/ /\ pending # << >> /\ Full
                     /\ overflow' = << >> \o pending /\ dropped'
                  \/ ~ sdPresent' /\ overflow' = overflow /\ dropped'
<1>1. CASE WriteRow
  <2>1. logStep = "row" /\ logStep' = "sample" /\ pending' = pending /\ overflow' = overflow /\ ring' = ring /\ now' = now /\ cuts' = cuts
    BY <1>1 DEF WriteRow, files
  <2>2. haveBase' = haveBase /\ dropped' = dropped
    BY <1>1 DEF WriteRow
  <2> QED
    BY <2>1, <2>2
<1>2. CASE FlushToSd
  <2>1. logStep = "flush" /\ logStep' = "row" /\ pending' = << >> /\ ring' = ring /\ now' = now /\ cuts' = cuts
    BY <1>2 DEF FlushToSd
  <2>2. haveBase' = haveBase
    BY <1>2 DEF FlushToSd
  <2>3. CASE pending = << >> /\ UNCHANGED <<sd, overflow, dropped>>
    <3>1. overflow' = overflow /\ dropped' = dropped
      BY <2>3
    <3> QED
      BY <2>1, <2>2, <2>3, <3>1
  <2>4. CASE pending # << >> /\ card /\ InitSd(TRUE) /\ FlushAppend
    <3>1. overflow' = (IF Full THEN << >> ELSE overflow) \o pending
      BY <2>4 DEF FlushAppend
    <3>2. dropped => dropped'
      BY <2>4, Zenon DEF FlushAppend
    <3>3. CASE Full
      <4>1. overflow' = << >> \o pending
        BY <3>1, <3>3
      <4>2. dropped'
        BY <2>4, <3>3, Zenon DEF FlushAppend
      <4> QED
        BY <2>1, <2>2, <2>4, <3>3, <4>1, <4>2
    <3>4. CASE ~ Full
      <4>1. overflow' = overflow \o pending
        BY <3>1, <3>4
      <4> QED
        BY <2>1, <2>2, <3>2, <3>4, <4>1
    <3> QED
      BY <3>3, <3>4
  <2>5. CASE pending # << >> /\ InitSd(FALSE) /\ dropped' = TRUE /\ UNCHANGED overflow
    <3>1. ~ sdPresent'
      BY <2>5 DEF InitSd
    <3> QED
      BY <2>1, <2>2, <2>5, <3>1
  <2>6. CASE pending # << >> /\ ~ card /\ SdReset /\ dropped' = TRUE /\ UNCHANGED overflow
    BY <2>1, <2>2, <2>6 DEF SdReset
  <2> QED
    BY <1>2, <2>3, <2>4, <2>5, <2>6, Zenon DEF FlushToSd
<1> QED
  BY <1>1, <1>2, Zenon DEF RestOfSample

\* What an append that is cut leaves: the file, unless it was removed, and the beginning of what was
\* pending.
LEMMA AppendCut ==
  ASSUME TypeEntries, NEW n \in 0 .. Len(pending), NEW lost \in BOOLEAN, CutAppend(n, lost)
  PROVE  /\ logStep = "flush" /\ pending # << >> /\ cuts' = cuts + 1 /\ (dropped \/ lost => dropped')
         /\ \E kept, part \in Seq(Entry) :
              /\ overflow' = kept \o part /\ BeginningOf(part, pending)
              /\ \/ kept = overflow /\ (lost \/ (dropped' <=> dropped))
                 \/ kept = << >> /\ Full /\ dropped'
<1>1. PICK torn \in BOOLEAN, kept \in {overflow} \cup (IF Full THEN {<< >>} ELSE {}) :
        overflow' = kept \o Part(n, torn) /\ dropped' = (dropped \/ lost \/ kept # overflow)
  BY Zenon DEF CutAppend
<1> DEFINE p == Part(n, torn)
<1>2. Len(pending) \in Nat /\ n \in Nat /\ n =< Len(pending)
  BY LenProperties DEF TypeEntries
<1>3. \A k \in 1 .. n : pending[k] \in Entry
  BY <1>2, ElementOfSeq DEF TypeEntries
<1>4. ASSUME NEW k \in 1 .. n
      PROVE  [pending[k] EXCEPT !.whole = ~ (torn /\ k = n)] \in Entry
             /\ [pending[k] EXCEPT !.whole = ~ (torn /\ k = n)].at = pending[k].at
             /\ [pending[k] EXCEPT !.whole = ~ (torn /\ k = n)].base = pending[k].base
  BY <1>3, <1>4 DEF Entry
<1>5. p \in [1 .. n -> Entry] /\ \A k \in 1 .. n : p[k].at = pending[k].at /\ p[k].base = pending[k].base
  BY <1>4 DEF Part
<1> HIDE DEF p
<1>6. p \in Seq(Entry) /\ Len(p) = n
  BY <1>2, <1>5, IsASeq, LenProperties
<1>7. BeginningOf(p, pending)
  BY <1>2, <1>5, <1>6 DEF BeginningOf
<1>8. << >> \in Seq(Entry) /\ overflow \in Seq(Entry)
  BY EmptySeq DEF TypeEntries
<1>9. overflow' = kept \o p
  BY <1>1 DEF p
<1>10. logStep = "flush" /\ pending # << >> /\ cuts' = cuts + 1
  BY DEF CutAppend, Appending
<1>11. dropped \/ lost => dropped'
  BY <1>1
<1>12. \/ kept = overflow /\ (lost \/ (dropped' <=> dropped))
       \/ kept = << >> /\ Full /\ dropped'
  <2>1. kept = overflow \/ (kept = << >> /\ Full)
    BY <1>1
  <2>2. CASE kept = overflow
    <3>1. dropped' = (dropped \/ lost)
      BY <1>1, <2>2
    <3> QED
      BY <2>2, <3>1
  <2>3. CASE kept # overflow
    <3>1. dropped'
      BY <1>1, <2>3
    <3> QED
      BY <2>1, <2>3, <3>1
  <2> QED
    BY <2>2, <2>3
<1> QED
  BY <1>6, <1>7, <1>8, <1>9, <1>10, <1>11, <1>12

\* What a fault of the card does.
LEMMA CardFailed ==
  ASSUME TypeFlags, TypeEntries, CardFails
  PROVE  /\ now' = now /\ (haveBase' <=> haveBase) /\ ring' = ring /\ (dropped => dropped')
         /\ pending' \in {pending, << >>} /\ overflow' \in Seq(Entry)
         /\ \/ /\ logStep = "row" /\ logStep' = "sample" /\ pending' = pending
               /\ overflow' = overflow /\ cuts' = cuts /\ (dropped' <=> dropped)
            \/ /\ logStep = "flush" /\ logStep' = "row" /\ pending' = << >> /\ pending # << >>
               /\ dropped' /\ cuts' = cuts + 1
               /\ \E kept, part \in Seq(Entry) :
                     /\ overflow' = kept \o part /\ BeginningOf(part, pending)
                     /\ kept = overflow \/ (kept = << >> /\ Full)
<1>1. CASE RowFails
  <2>1. now' = now /\ ring' = ring /\ pending' = pending /\ overflow' = overflow /\ cuts' = cuts
    BY <1>1 DEF RowFails, files
  <2>2. haveBase' = haveBase /\ dropped' = dropped
    BY <1>1 DEF RowFails
  <2>3. logStep = "row" /\ logStep' = "sample"
    BY <1>1 DEF RowFails
  <2> QED
    BY <2>1, <2>2, <2>3 DEF TypeEntries
<1>2. CASE FlushFails
  <2>1. PICK n \in 0 .. Len(pending) : CutAppend(n, TRUE)
    BY <1>2, Zenon DEF FlushFails
  <2>2. now' = now /\ ring' = ring /\ pending' = << >> /\ logStep' = "row"
    BY <1>2 DEF FlushFails
  <2>3. haveBase' = haveBase
    BY <1>2 DEF FlushFails
  <2>4. logStep = "flush" /\ pending # << >> /\ cuts' = cuts + 1 /\ dropped'
    BY <2>1, AppendCut
  <2>5. PICK kept \in Seq(Entry), part \in Seq(Entry) :
          /\ overflow' = kept \o part /\ BeginningOf(part, pending)
          /\ kept = overflow \/ (kept = << >> /\ Full)
    BY <2>1, AppendCut
  <2>6. overflow' \in Seq(Entry)
    BY <2>5, ConcatProperties
  <2> QED
    BY <2>2, <2>3, <2>4, <2>5, <2>6
<1> QED
  BY <1>1, <1>2, Zenon DEF CardFails

\* And what a reset leaves of the log.
LEMMA ResetLeaves ==
  ASSUME TypeEntries, Reset
  PROVE  \/ overflow' = overflow /\ (dropped' <=> dropped) /\ cuts' = cuts
         \/ /\ logStep = "flush" /\ pending # << >> /\ cuts' = cuts + 1 /\ (dropped => dropped')
            /\ \E kept, part \in Seq(Entry) :
                 /\ overflow' = kept \o part /\ BeginningOf(part, pending)
                 /\ \/ kept = overflow /\ (dropped' <=> dropped)
                    \/ kept = << >> /\ Full /\ dropped'
<1>1. CASE UNCHANGED <<overflow, dropped, cuts>>
  BY <1>1
<1>2. CASE \E n \in 0 .. Len(pending) : CutAppend(n, FALSE)
  BY <1>2, AppendCut
<1> QED
  BY <1>1, <1>2, Zenon DEF Reset, LogReset

LEMMA EntriesTyped ==
  ASSUME TypeFlags, TypeCounts, budget \in Scenario, TypeEntries, [Next]_vars
  PROVE  TypeEntries'
<1>0. /\ \A e \in Entry : /\ Append(ring, e) \in Seq(Entry) /\ Len(Append(ring, e)) = Len(ring) + 1
                         /\ <<e>> \in Seq(Entry) /\ Len(<<e>>) = 1
      /\ ring # << >> => Tail(ring) \in Seq(Entry) /\ Len(Tail(ring)) = Len(ring) - 1
      /\ << >> \in Seq(Entry) /\ Len(ring) \in Nat
      /\ overflow \o pending \in Seq(Entry) /\ << >> \o pending \in Seq(Entry)
  BY SequenceSteps DEF TypeEntries
<1>1. CASE TakeSample
  <2>1. PICK e \in Entry :
          \/ Len(ring) < RingSize /\ ring' = Append(ring, e) /\ pending' = pending
          \/ ring' = <<e>> /\ pending' = ring
          \/ ring' = <<e>> /\ pending' = << >>
    BY <1>1, SampleTaken
  <2>2. overflow' = overflow
    BY <1>1, SampleTaken
  <2>3. CASE Len(ring) < RingSize /\ ring' = Append(ring, e) /\ pending' = pending
    <3>1. ring' \in Seq(Entry) /\ Len(ring') = Len(ring) + 1
      BY <1>0, <2>3
    <3>2. Len(ring) + 1 =< RingSize
      BY <1>0, <2>3, LoggerAssumption
    <3> QED
      BY <2>2, <2>3, <3>1, <3>2 DEF TypeEntries
  <2>4. CASE ring' = <<e>> /\ pending' \in {ring, << >>}
    <3>1. ring' \in Seq(Entry) /\ Len(ring') = 1
      BY <1>0, <2>4
    <3>2. 1 =< RingSize
      BY LoggerAssumption
    <3>3. pending' \in Seq(Entry)
      BY <1>0, <2>4 DEF TypeEntries
    <3> QED
      BY <2>2, <3>1, <3>2, <3>3 DEF TypeEntries
  <2> QED
    BY <2>1, <2>3, <2>4
<1>2. CASE TakeLaterSample
  BY <1>2 DEF TakeLaterSample, logVars, logger, files, TypeEntries
<1>3. CASE RestOfSample
  <2>1. /\ ring' = ring /\ pending' \in {pending, << >>}
        /\ overflow' \in {overflow, overflow \o pending, << >> \o pending}
    BY <1>3, SampleFinished
  <2> QED
    BY <1>0, <2>1 DEF TypeEntries
<1>4. CASE WifiTick
  BY <1>4 DEF WifiTick, logVars, logger, files, TypeEntries
<1>5. CASE TickJoined
  BY <1>5 DEF TickJoined, logVars, logger, files, TypeEntries
<1>6. CASE TickNtp
  BY <1>6 DEF TickNtp, logVars, logger, files, TypeEntries
<1>7. CASE CheckLink
  BY <1>7 DEF CheckLink, logVars, logger, files, TypeEntries
<1>8. CASE KeepMqtt
  BY <1>8 DEF KeepMqtt, logVars, logger, files, TypeEntries
<1>9. CASE BleSetWifi
  BY <1>9 DEF BleSetWifi, logger, files, TypeEntries
<1>10. CASE BleSetMqtt
  BY <1>10 DEF BleSetMqtt, logVars, logger, files, TypeEntries
<1>11. CASE TakeSnapshot
  BY <1>11 DEF TakeSnapshot, logger, files, TypeEntries
<1>12. CASE Drain
  BY <1>12 DEF Drain, logger, TypeEntries
<1>13. CASE Replay
  BY <1>13 DEF Replay, logger, TypeEntries
<1>14. CASE Send
  BY <1>14 DEF Send, logger, TypeEntries
<1>15. CASE LinkUp
  BY <1>15 DEF LinkUp, logger, files, TypeEntries
<1>16. CASE AccessPointGoes
  BY <1>16 DEF AccessPointGoes, logger, files, TypeEntries
<1>17. CASE AccessPointComes
  BY <1>17 DEF AccessPointComes, logVars, logger, files, TypeEntries
<1>18. CASE SessionEnds
  BY <1>18 DEF SessionEnds, logVars, logger, files, TypeEntries
<1>19. CASE TimerPasses
  BY <1>19 DEF TimerPasses, logVars, logger, files, TypeEntries
<1>20. CASE CoolingPasses
  BY <1>20 DEF CoolingPasses, logVars, logger, files, TypeEntries
<1>21. CASE ConsoleSetWifi
  BY <1>21 DEF ConsoleSetWifi, logger, files, TypeEntries
<1>22. CASE ConsoleJoins
  BY <1>22 DEF ConsoleJoins, logVars, logger, files, TypeEntries
<1>23. CASE ConsoleBleOn
  BY <1>23 DEF ConsoleBleOn, logVars, logger, files, TypeEntries
<1>24. CASE ConsoleFlushLog
  <2>1. (ring' = ring \/ (ring # << >> /\ ring' = Tail(ring))) /\ pending' = pending /\ overflow' = overflow
    BY <1>24 DEF ConsoleFlushLog, FlushLog, PopBatch, PopRing, logger, files
  <2>2. ring # << >> => Len(Tail(ring)) =< RingSize
    BY <1>0, LoggerAssumption DEF TypeEntries
  <2>3. ring' \in Seq(Entry) /\ Len(ring') =< RingSize
    BY <1>0, <2>1, <2>2 DEF TypeEntries
  <2> QED
    BY <2>1, <2>3 DEF TypeEntries
<1>25. CASE MoveCard
  BY <1>25 DEF MoveCard, CardOut, CardIn, logger, files, TypeEntries
<1>26. CASE Reset
  <2>1. ring' = << >> /\ pending' = << >>
    BY <1>26 DEF Reset, LogReset
  <2>2. overflow' \in Seq(Entry)
    BY <1>26, ResetLeaves, ConcatProperties DEF TypeEntries
  <2>3. Len(<< >>) =< RingSize
    BY EmptySeq, LoggerAssumption
  <2> QED
    BY <1>0, <2>1, <2>2, <2>3 DEF TypeEntries
<1>27. CASE UNCHANGED vars
  BY <1>27 DEF vars, logVars, logger, sd, files, wifi, session, data, env, TypeEntries
<1>28. CASE CardFails
  <2>1. ring' = ring /\ pending' \in {pending, << >>} /\ overflow' \in Seq(Entry)
    BY <1>28, CardFailed DEF TypeEntries
  <2> QED
    BY <1>0, <2>1 DEF TypeEntries
<1> QED
  BY <1>1, <1>2, <1>3, <1>4, <1>5, <1>6, <1>7, <1>8, <1>9, <1>10, <1>11, <1>12, <1>13, <1>14, <1>15, <1>16, <1>17, <1>18, <1>19, <1>20, <1>21, <1>22, <1>23, <1>24, <1>25, <1>26, <1>27, <1>28 DEF Next

TypeLines ==
  /\ telemetry \in Seq(Line) /\ Len(telemetry) =< TelemetryMax
  /\ reader \in [open : BOOLEAN, rest : Seq(Line)]
  /\ queue \in Seq(Line) /\ Len(queue) =< QueueSize /\ current \in Line
  /\ replay \in Seq(Line) /\ Len(replay) =< 1

LEMMA Fetched ==
  ASSUME TypeLines
  PROVE  ToRead \in Seq(Line) /\ Len(ToRead) \in Nat
BY LenProperties DEF TypeLines, ToRead

\* A line whose publication failed: where the file's reader goes on.
LEMMA LineSaved ==
  ASSUME TypeLines, NEW p \in Line, SaveTelemetry(p)
  PROVE  /\ telemetry' \in Seq(Line) /\ Len(telemetry') =< TelemetryMax
         /\ reader' \in [open : BOOLEAN, rest : Seq(Line)]
         /\ ToRead' \in {ToRead, << >>, Append(ToRead, p), <<p>>}
<1> DEFINE t == IF TelemetryFull THEN << >> ELSE telemetry
           r == [reader EXCEPT !.rest = << >>]
<1>1. t \in Seq(Line) /\ Len(t) < TelemetryMax /\ (t = << >> \/ t = telemetry)
  BY LenProperties, EmptySeq, LoggerAssumption DEF TypeLines, TelemetryFull
<1>2. Append(t, p) \in Seq(Line) /\ Len(Append(t, p)) =< TelemetryMax
  <2>1. Append(t, p) \in Seq(Line) /\ Len(Append(t, p)) = Len(t) + 1 /\ Len(t) \in Nat
    BY <1>1, AppendProperties, LenProperties
  <2> QED
    BY <1>1, <2>1, LoggerAssumption
<1>3. << >> \in Seq(Line) /\ Append(<< >>, p) = <<p>>
  OBVIOUS
<1>4. r \in [open : BOOLEAN, rest : Seq(Line)] /\ r.open = reader.open /\ r.rest = << >>
  BY <1>3 DEF TypeLines
<1>5. CASE telemetry' = Append(t, p) /\ reader' \in {reader, r}
  <2>1. reader' \in [open : BOOLEAN, rest : Seq(Line)] /\ reader'.open = reader.open
        /\ reader'.rest \in {reader.rest, << >>}
    BY <1>4, <1>5 DEF TypeLines
  <2>2. telemetry' \in {Append(telemetry, p), <<p>>}
    BY <1>1, <1>3, <1>5
  <2>3. CASE reader.open
    <3>1. ToRead = reader.rest /\ ToRead' = reader'.rest
      BY <2>1, <2>3 DEF ToRead
    <3> QED
      BY <1>2, <1>5, <2>1, <3>1
  <2>4. CASE ~ reader.open
    <3>1. ToRead = telemetry /\ ToRead' = telemetry'
      BY <2>1, <2>4 DEF ToRead
    <3> QED
      BY <1>2, <1>5, <2>1, <2>2, <3>1
  <2> QED
    BY <2>3, <2>4
<1>6. CASE telemetry' = telemetry /\ reader' = reader
  BY <1>6 DEF TypeLines, ToRead
<1>7. (telemetry' = Append(t, p) /\ reader' \in {reader, r}) \/ (telemetry' = telemetry /\ reader' = reader)
  BY DEF SaveTelemetry
<1> QED
  BY <1>5, <1>6, <1>7

\* A line, or none, that is taken from the file.
LEMMA LineDrained ==
  ASSUME TypeLines, DrainTelemetry(replay')
  PROVE  /\ telemetry' \in Seq(Line) /\ Len(telemetry') =< TelemetryMax
         /\ reader' \in [open : BOOLEAN, rest : Seq(Line)]
         /\ replay' \in Seq(Line) /\ Len(replay') =< 1
         /\ \/ replay' = << >> /\ ToRead' \in {ToRead, << >>}
            \/ ToRead # << >> /\ replay' = <<Head(ToRead)>> /\ ToRead' = Tail(ToRead)
<1>0. ToRead \in Seq(Line) /\ Len(ToRead) \in Nat
  BY Fetched
<1>1. << >> \in Seq(Line) /\ Len(<< >>) = 0 /\ Len(<< >>) =< TelemetryMax
  BY EmptySeq, LoggerAssumption
<1>2. CASE ~ card \/ telemetry = << >>
  <2>1. replay' = << >> /\ telemetry' = telemetry /\ reader' = reader
    BY <1>2 DEF DrainTelemetry
  <2> QED
    BY <1>1, <2>1 DEF TypeLines, ToRead
<1>3. CASE ~ (~ card \/ telemetry = << >>)
  <2>1. /\ replay' = IF ToRead = << >> THEN << >> ELSE <<Head(ToRead)>>
        /\ IF AtEnd THEN CloseFile
           ELSE reader' = [open |-> TRUE, rest |-> Tail(ToRead)] /\ UNCHANGED telemetry
    BY <1>3, Zenon DEF DrainTelemetry
  <2>2. replay' \in Seq(Line) /\ Len(replay') =< 1
    <3>1. CASE ToRead = << >>
      BY <2>1, <3>1, <1>1
    <3>2. CASE ToRead # << >>
      <4>1. Head(ToRead) \in Line
        BY <1>0, <3>2, HeadTailProperties
      <4>2. replay' = <<Head(ToRead)>>
        BY <2>1, <3>2
      <4> QED
        BY <4>1, <4>2
    <3> QED
      BY <3>1, <3>2
  <2>3. CASE AtEnd
    <3>1. reader' = Closed /\ telemetry' = << >> /\ Len(ToRead) =< 1
      BY <2>1, <2>3 DEF CloseFile, AtEnd
    <3>2. ToRead' = << >>
      BY <3>1 DEF ToRead, Closed
    <3>3. ToRead # << >> => Tail(ToRead) = << >>
      <4>1. ToRead # << >> => Tail(ToRead) \in Seq(Line) /\ Len(Tail(ToRead)) = Len(ToRead) - 1 /\ Len(ToRead) # 0
        BY <1>0, HeadTailProperties, EmptySeq
      <4>2. ToRead # << >> => Len(Tail(ToRead)) = 0
        BY <3>1, <4>1, <1>0
      <4> QED
        BY <4>1, <4>2, EmptySeq
    <3>4. reader' \in [open : BOOLEAN, rest : Seq(Line)]
      BY <3>1, <1>1 DEF Closed
    <3>5. replay' = << >> \/ (ToRead # << >> /\ replay' = <<Head(ToRead)>>)
      BY <2>1
    <3> QED
      BY <1>1, <2>2, <3>1, <3>2, <3>3, <3>4, <3>5
  <2>4. CASE ~ AtEnd
    <3>1. ToRead # << >>
      BY <2>4, <1>1 DEF AtEnd
    <3>2. Tail(ToRead) \in Seq(Line)
      BY <1>0, <3>1, HeadTailProperties
    <3>3. reader' = [open |-> TRUE, rest |-> Tail(ToRead)] /\ telemetry' = telemetry
      BY <2>1, <2>4
    <3>4. ToRead' = Tail(ToRead) /\ reader' \in [open : BOOLEAN, rest : Seq(Line)]
      BY <3>2, <3>3 DEF ToRead
    <3>5. replay' = <<Head(ToRead)>>
      BY <2>1, <3>1
    <3> QED
      BY <2>2, <3>1, <3>3, <3>4, <3>5 DEF TypeLines
  <2> QED
    BY <2>3, <2>4
<1> QED
  BY <1>2, <1>3

LEMMA Pushed ==
  ASSUME TypeLines, NEW p \in Line, queue' = queue \/ (Len(queue) < QueueSize /\ queue' = Append(queue, p))
  PROVE  queue' \in Seq(Line) /\ Len(queue') =< QueueSize
<1>1. Append(queue, p) \in Seq(Line) /\ Len(Append(queue, p)) = Len(queue) + 1 /\ Len(queue) \in Nat
  BY SequenceSteps DEF TypeLines
<1>2. Len(queue) < QueueSize => Len(queue) + 1 =< QueueSize
  BY <1>1, UplinkAssumption
<1> QED
  BY <1>1, <1>2 DEF TypeLines

LEMMA LinesTyped ==
  ASSUME TypeCounts, budget \in Scenario, TypeLines, [Next]_vars
  PROVE  TypeLines'
<1>0. /\ \A p \in Line : Append(queue, p) \in Seq(Line) /\ Len(Append(queue, p)) = Len(queue) + 1
      /\ queue # << >> => Head(queue) \in Line /\ Tail(queue) \in Seq(Line) /\ Len(Tail(queue)) = Len(queue) - 1
      /\ << >> \in Seq(Line) /\ Len(<< >>) = 0 /\ Len(queue) \in Nat
  BY SequenceSteps DEF TypeLines
<1>1. CASE TakeSample
  <2>1. queue' = queue \/ (Len(queue) < QueueSize /\ queue' = Append(queue, now'))
    BY <1>1 DEF TakeSample, Push
  <2>2. telemetry' = telemetry /\ reader' = reader /\ current' = current /\ replay' = replay
    BY <1>1 DEF TakeSample, LogSample, CanFit, files
  <2>3. now' \in Line
    <3>1. now' = now + 1 /\ now < budget.samples
      BY <1>1 DEF TakeSample, LogSample
    <3>2. budget.samples \in 0 .. MaxSample
      BY DEF Scenario
    <3> QED
      BY <3>1, <3>2, LoggerAssumption DEF TypeCounts, Line
  <2>4. queue' \in Seq(Line) /\ Len(queue') =< QueueSize
    BY <2>1, <2>3, Pushed
  <2> QED
    BY <2>2, <2>4 DEF TypeLines
<1>2. CASE TakeLaterSample
  <2>1. queue' = queue \/ (Len(queue) < QueueSize /\ queue' = Append(queue, 0))
    BY <1>2 DEF TakeLaterSample, Push
  <2>2. telemetry' = telemetry /\ reader' = reader /\ current' = current /\ replay' = replay
    BY <1>2 DEF TakeLaterSample, logVars, files
  <2>3. 0 \in Line
    BY LoggerAssumption DEF Line
  <2>4. queue' \in Seq(Line) /\ Len(queue') =< QueueSize
    BY <2>1, <2>3, Pushed
  <2> QED
    BY <2>2, <2>4 DEF TypeLines
<1>3. CASE RestOfSample
  BY <1>3 DEF RestOfSample, FlushToSd, WriteRow, files, data, TypeLines, Line, Sample
<1>4. CASE WifiTick
  BY <1>4 DEF WifiTick, logVars, files, data, TypeLines, Line, Sample
<1>5. CASE TickJoined
  BY <1>5 DEF TickJoined, logVars, files, data, TypeLines, Line, Sample
<1>6. CASE TickNtp
  BY <1>6 DEF TickNtp, logVars, files, data, TypeLines, Line, Sample
<1>7. CASE CheckLink
  BY <1>7 DEF CheckLink, logVars, files, data, TypeLines, Line, Sample
<1>8. CASE KeepMqtt
  BY <1>8 DEF KeepMqtt, logVars, files, data, TypeLines, Line, Sample
<1>9. CASE BleSetWifi
  BY <1>9 DEF BleSetWifi, files, data, TypeLines, Line, Sample
<1>10. CASE BleSetMqtt
  BY <1>10 DEF BleSetMqtt, logVars, files, data, TypeLines, Line, Sample
<1>11. CASE TakeSnapshot
  <2>1. \/ queue' = queue /\ current' = current
        \/ queue # << >> /\ queue' = Tail(queue) /\ current' = Head(queue)
    BY <1>11 DEF TakeSnapshot
  <2>2. telemetry' = telemetry /\ reader' = reader /\ replay' = replay
    BY <1>11 DEF TakeSnapshot, files
  <2>3. queue # << >> => Len(Tail(queue)) =< QueueSize
    BY <1>0, UplinkAssumption DEF TypeLines
  <2>4. CASE queue' = queue /\ current' = current
    BY <2>2, <2>4 DEF TypeLines
  <2>5. CASE queue # << >> /\ queue' = Tail(queue) /\ current' = Head(queue)
    <3>1. queue' \in Seq(Line) /\ Len(queue') =< QueueSize /\ current' \in Line
      BY <1>0, <2>3, <2>5
    <3> QED
      BY <2>2, <3>1 DEF TypeLines
  <2> QED
    BY <2>1, <2>4, <2>5
<1>12. CASE Drain
  <2>1. queue' = queue /\ current' = current
    BY <1>12 DEF Drain
  <2>2. DrainTelemetry(replay') \/ (replay' = << >> /\ telemetry' = telemetry /\ reader' = reader)
    BY <1>12, Zenon DEF Drain
  <2>3. CASE DrainTelemetry(replay')
    BY <2>1, <2>3, LineDrained DEF TypeLines
  <2>4. CASE replay' = << >> /\ telemetry' = telemetry /\ reader' = reader
    BY <1>0, <2>1, <2>4 DEF TypeLines
  <2> QED
    BY <2>2, <2>3, <2>4
<1>13. CASE Replay
  <2>1. queue' = queue /\ current' \in {current, 0} /\ replay' \in {replay, << >>}
    BY <1>13 DEF Replay
  <2>2. (telemetry' = telemetry /\ reader' = reader) \/ (replay # << >> /\ SaveTelemetry(replay[1]))
    BY <1>13, Zenon DEF Replay, Publish, PublishFails
  <2>3. 0 \in Line
    BY LoggerAssumption DEF Line
  <2>6. queue' = queue /\ current' \in Line /\ replay' \in Seq(Line) /\ Len(replay') =< 1
    <3>1. << >> \in Seq(Line) /\ Len(<< >>) =< 1
      BY EmptySeq
    <3>2. replay' \in Seq(Line) /\ Len(replay') =< 1
      BY <2>1, <3>1 DEF TypeLines
    <3> QED
      BY <2>1, <2>3, <3>2 DEF TypeLines
  <2>4. CASE telemetry' = telemetry /\ reader' = reader
    BY <2>6, <2>4 DEF TypeLines
  <2>5. CASE replay # << >> /\ SaveTelemetry(replay[1])
    <3>1. replay[1] \in Line
      BY <2>5, ElementOfSeq, EmptySeq, LenProperties DEF TypeLines
    <3>2. telemetry' \in Seq(Line) /\ Len(telemetry') =< TelemetryMax /\ reader' \in [open : BOOLEAN, rest : Seq(Line)]
      BY <2>5, <3>1, LineSaved
    <3> QED
      BY <2>6, <3>2 DEF TypeLines
  <2> QED
    BY <2>2, <2>4, <2>5
<1>14. CASE Send
  <2>1. queue' = queue /\ current' \in {current, 0} /\ replay' \in {replay, << >>}
    BY <1>14 DEF Send
  <2>2. (telemetry' = telemetry /\ reader' = reader) \/ (SaveTelemetry(current))
    BY <1>14, Zenon DEF Send, Publish, PublishFails
  <2>3. 0 \in Line
    BY LoggerAssumption DEF Line
  <2>6. queue' = queue /\ current' \in Line /\ replay' \in Seq(Line) /\ Len(replay') =< 1
    <3>1. << >> \in Seq(Line) /\ Len(<< >>) =< 1
      BY EmptySeq
    <3>2. replay' \in Seq(Line) /\ Len(replay') =< 1
      BY <2>1, <3>1 DEF TypeLines
    <3> QED
      BY <2>1, <2>3, <3>2 DEF TypeLines
  <2>4. CASE telemetry' = telemetry /\ reader' = reader
    BY <2>6, <2>4 DEF TypeLines
  <2>5. CASE SaveTelemetry(current)
    <3>1. current \in Line
      BY <2>5, ElementOfSeq, EmptySeq, LenProperties DEF TypeLines
    <3>2. telemetry' \in Seq(Line) /\ Len(telemetry') =< TelemetryMax /\ reader' \in [open : BOOLEAN, rest : Seq(Line)]
      BY <2>5, <3>1, LineSaved
    <3> QED
      BY <2>6, <3>2 DEF TypeLines
  <2> QED
    BY <2>2, <2>4, <2>5
<1>15. CASE LinkUp
  BY <1>15 DEF LinkUp, files, data, TypeLines, Line, Sample
<1>16. CASE AccessPointGoes
  BY <1>16 DEF AccessPointGoes, files, data, TypeLines, Line, Sample
<1>17. CASE AccessPointComes
  BY <1>17 DEF AccessPointComes, logVars, files, data, TypeLines, Line, Sample
<1>18. CASE SessionEnds
  BY <1>18 DEF SessionEnds, logVars, files, data, TypeLines, Line, Sample
<1>19. CASE TimerPasses
  BY <1>19 DEF TimerPasses, logVars, files, data, TypeLines, Line, Sample
<1>20. CASE CoolingPasses
  BY <1>20 DEF CoolingPasses, logVars, files, data, TypeLines, Line, Sample
<1>21. CASE ConsoleSetWifi
  BY <1>21 DEF ConsoleSetWifi, files, data, TypeLines, Line, Sample
<1>22. CASE ConsoleJoins
  BY <1>22 DEF ConsoleJoins, logVars, files, data, TypeLines, Line, Sample
<1>23. CASE ConsoleBleOn
  BY <1>23 DEF ConsoleBleOn, logVars, files, data, TypeLines, Line, Sample
<1>24. CASE ConsoleFlushLog
  BY <1>24 DEF ConsoleFlushLog, FlushLog, PopBatch, PopRing, files, data, TypeLines, Line, Sample
<1>25. CASE MoveCard
  <2>1. telemetry' = telemetry /\ queue' = queue /\ current' = current /\ replay' = replay
        /\ reader' \in {reader, [reader EXCEPT !.rest = << >>]}
    BY <1>25 DEF MoveCard, CardOut, CardIn, data, files
  <2> QED
    BY <1>0, <2>1 DEF TypeLines
<1>26. CASE Reset
  BY <1>26, SequenceSteps, LoggerAssumption, UplinkAssumption DEF Reset, LogReset, Closed, TypeLines, Line, Sample
<1>27. CASE UNCHANGED vars
  BY <1>27 DEF vars, logVars, logger, sd, files, wifi, session, data, env, TypeLines, Line, Sample
<1>28. CASE CardFails
  BY <1>28 DEF CardFails, FlushFails, RowFails, files, data, TypeLines, Line, Sample
<1> QED
  BY <1>1, <1>2, <1>3, <1>4, <1>5, <1>6, <1>7, <1>8, <1>9, <1>10, <1>11, <1>12, <1>13, <1>14, <1>15, <1>16, <1>17, <1>18, <1>19, <1>20, <1>21, <1>22, <1>23, <1>24, <1>25, <1>26, <1>27, <1>28 DEF Next

LEMMA TypeParts ==
  TypeOK <=> TypeSteps /\ TypeFlags /\ TypeCounts /\ TypeEntries /\ TypeLines /\ (mqtt => server)
BY Zenon DEF TypeOK, LogTypeOK, TypeSteps, TypeFlags, TypeCounts, TypeEntries, TypeLines

LEMMA PrimedTypeParts ==
  TypeOK' <=> TypeSteps' /\ TypeFlags' /\ TypeCounts' /\ TypeEntries' /\ TypeLines' /\ (mqtt => server)'
BY Zenon DEF TypeOK, LogTypeOK, TypeSteps, TypeFlags, TypeCounts, TypeEntries, TypeLines

LEMMA InitTyped == Init => TypeOK /\ budget \in Scenario
<1> SUFFICES ASSUME Init PROVE TypeOK /\ budget \in Scenario
  OBVIOUS
<1>1. budget \in Scenario
  BY UplinkAssumption DEF Init
<1>2. TypeSteps
  BY DEF Init, LogInit, TypeSteps, NetStep, WifiState
<1>3. TypeFlags
  <2>1. budget.hasCard \in BOOLEAN /\ budget.hasCreds \in BOOLEAN
    BY <1>1 DEF Scenario
  <2>2. card \in BOOLEAN /\ creds \in BOOLEAN
    BY <2>1 DEF Init
  <2>3. /\ link = FALSE /\ haveBase = FALSE /\ flushing = FALSE /\ sdTried = TRUE /\ dropped = FALSE
        /\ timer = FALSE /\ skip = FALSE /\ was = FALSE /\ ble = TRUE /\ mqtt = FALSE /\ server = FALSE
        /\ cooling = FALSE /\ begun = FALSE /\ joining = FALSE /\ ap = FALSE
    BY Zenon DEF Init, LogInit
  <2>4. sdPresent \in BOOLEAN
    BY Zenon DEF Init, LogInit, Begins
  <2> QED
    BY <2>2, <2>3, <2>4 DEF TypeFlags
<1>4. TypeCounts
  <2>1. now = 0 /\ csvRows = 0 /\ cuts = 0 /\ resets = 0 /\ sent = [s \in Sample |-> 0]
    BY DEF Init, LogInit
  <2> QED
    BY <2>1, LoggerAssumption DEF TypeCounts
<1>5. TypeEntries
  <2>1. ring = << >> /\ pending = << >> /\ overflow = << >>
    BY DEF Init, LogInit
  <2>2. << >> \in Seq(Entry) /\ Len(<< >>) =< RingSize
    BY EmptySeq, LoggerAssumption
  <2> QED
    BY <2>1, <2>2 DEF TypeEntries
<1>6. TypeLines
  <2>1. telemetry = << >> /\ reader = Closed /\ queue = << >> /\ current = 0 /\ replay = << >>
    BY DEF Init, LogInit
  <2>2. << >> \in Seq(Line) /\ Len(<< >>) =< TelemetryMax /\ Len(<< >>) =< QueueSize /\ Len(<< >>) =< 1 /\ 0 \in Line
    BY EmptySeq, LoggerAssumption, UplinkAssumption DEF Line
  <2>3. Closed \in [open : BOOLEAN, rest : Seq(Line)]
    BY <2>2 DEF Closed
  <2> QED
    BY <2>1, <2>2, <2>3 DEF TypeLines
<1>7. mqtt => server
  BY DEF Init
<1> QED
  BY <1>1, <1>2, <1>3, <1>4, <1>5, <1>6, <1>7, TypeParts

LEMMA NextTyped ==
  ASSUME TypeOK, budget \in Scenario, [Next]_vars
  PROVE  TypeOK' /\ budget' \in Scenario
<1>1. TypeSteps /\ TypeFlags /\ TypeCounts /\ TypeEntries /\ TypeLines /\ (mqtt => server)
  BY TypeParts
<1>2. TypeSteps' /\ TypeFlags' /\ (mqtt => server)' /\ budget' \in Scenario
  BY <1>1, StepsTyped, FlagsTyped, SessionTyped, BudgetTyped
<1>3. TypeCounts' /\ TypeEntries' /\ TypeLines'
  BY <1>1, CountsTyped, EntriesTyped, LinesTyped
<1> QED
  BY <1>2, <1>3, PrimedTypeParts

\* Every variable of the device's way out keeps its range: the ring, the queue and the telemetry
\* file never grow past their limits, and there is no session without a broker that was set.
THEOREM UplinkTypeCorrect == Spec => []TypeOK
<1> DEFINE Typed == TypeOK /\ budget \in Scenario
<1>1. Init => Typed
  BY InitTyped
<1>2. Typed /\ [Next]_vars => Typed'
  BY NextTyped
<1>3. Typed => TypeOK
  OBVIOUS
<1> QED
  BY <1>1, <1>2, <1>3, PTL DEF Spec

-----------------------------------------------------------------------------
(* The entries of the log.                                                  *)

\* The ways in which what is held is put together again.
LEMMA Regrouped ==
  ASSUME NEW a \in Seq(Entry), NEW b \in Seq(Entry), NEW c \in Seq(Entry)
  PROVE  /\ (a \o b) \o c \in Seq(Entry) /\ b \o c \in Seq(Entry) /\ a \o b \in Seq(Entry)
         /\ (a \o b) \o c = a \o (b \o c) /\ << >> \in Seq(Entry)
         /\ a \o << >> = a /\ << >> \o a = a
         /\ \A e \in Entry : (a \o b) \o Append(c, e) = Append((a \o b) \o c, e)
         /\ \A e \in Entry : a \o <<e>> = Append(a, e)
         /\ c # << >> => <<Head(c)>> \o Tail(c) = c /\ <<Head(c)>> \in Seq(Entry) /\ Tail(c) \in Seq(Entry)
<1>1. a \o b \in Seq(Entry) /\ b \o c \in Seq(Entry) /\ (a \o b) \o c \in Seq(Entry)
  BY ConcatProperties
<1>2. (a \o b) \o c = a \o (b \o c) /\ << >> \in Seq(Entry)
  BY ConcatAssociative
<1>3. a \o << >> = a /\ << >> \o a = a
  BY ConcatEmptySeq
<1>4. \A e \in Entry : a \o <<e>> = Append(a, e)
  BY AppendIsConcat
<1>5. ASSUME NEW e \in Entry PROVE (a \o b) \o Append(c, e) = Append((a \o b) \o c, e)
  <2>1. Append(c, e) = c \o <<e>> /\ Append((a \o b) \o c, e) = ((a \o b) \o c) \o <<e>>
    BY <1>1, AppendIsConcat
  <2>2. <<e>> \in Seq(Entry)
    OBVIOUS
  <2>3. ((a \o b) \o c) \o <<e>> = (a \o b) \o (c \o <<e>>)
    BY <1>1, <2>2, ConcatAssociative
  <2> QED
    BY <2>1, <2>3
<1>6. ASSUME c # << >> PROVE <<Head(c)>> \o Tail(c) = c /\ <<Head(c)>> \in Seq(Entry) /\ Tail(c) \in Seq(Entry)
  <2>1. Head(c) \in Entry /\ Tail(c) \in Seq(Entry) /\ Len(Tail(c)) = Len(c) - 1 /\ Len(c) \in Nat \ {0}
        /\ \A i \in 1 .. Len(Tail(c)) : Tail(c)[i] = c[i + 1]
    BY <1>6, HeadTailProperties, EmptySeq, LenProperties
  <2>2. <<Head(c)>> \in Seq(Entry) /\ Len(<<Head(c)>>) = 1 /\ <<Head(c)>>[1] = c[1]
    BY <2>1, <1>6, HeadTailProperties
  <2> DEFINE t == <<Head(c)>> \o Tail(c)
  <2>3. t \in Seq(Entry) /\ Len(t) = Len(c)
        /\ \A i \in 1 .. Len(c) : t[i] = IF i =< 1 THEN <<Head(c)>>[i] ELSE Tail(c)[i - 1]
    BY <2>1, <2>2, ConcatProperties
  <2> HIDE DEF t
  <2>4. ASSUME NEW i \in 1 .. Len(c) PROVE t[i] = c[i]
    <3>1. CASE i = 1
      BY <2>2, <2>3, <3>1
    <3>2. CASE i # 1
      <4>1. i - 1 \in 1 .. Len(Tail(c)) /\ i - 1 + 1 = i /\ ~ (i =< 1)
        BY <2>1, <3>2
      <4> QED
        BY <2>1, <2>3, <4>1
    <3> QED
      BY <3>1, <3>2
  <2>5. t = c
    BY <2>3, <2>4, SeqEqual
  <2> QED
    BY <2>1, <2>2, <2>5 DEF t
<1> QED
  BY <1>1, <1>2, <1>3, <1>4, <1>5, <1>6

LEMMA HeldTyped ==
  ASSUME TypeEntries
  PROVE  Held \in Seq(Entry) /\ Held = (overflow \o pending) \o ring
BY ConcatProperties DEF TypeEntries, Held

\* What the invariant says of the entries held.
InOrder == Ordered(Held) /\ NotAfter(Held, now)
Decodable == dropped \/ (Chained(Held) /\ (haveBase => EndsAt(Held, now)))

LEMMA SampleLogged ==
  ASSUME TypeOK, budget \in Scenario, LogInvariant, TakeSample
  PROVE  InOrder' /\ Decodable'
<1>0. TypeFlags /\ TypeCounts /\ TypeEntries
  BY TypeParts
<1>1. overflow \in Seq(Entry) /\ ring \in Seq(Entry) /\ pending \in Seq(Entry) /\ << >> \in Seq(Entry) /\ now \in Nat
  BY <1>0, EmptySeq, LoggerAssumption DEF TypeEntries, TypeCounts
<1>2. logStep = "sample" /\ now' = now + 1 /\ haveBase' /\ overflow' = overflow
  BY <1>0, SampleTaken
<1>3. pending = << >>
  BY <1>2 DEF LogInvariant
<1>4. Held \in Seq(Entry) /\ Held = overflow \o ring
  BY <1>0, <1>1, <1>3, HeldTyped, Regrouped
<1>5. PICK e \in Entry :
        /\ e.at = now + 1 /\ (haveBase \/ e.base)
        /\ \/ ring' = Append(ring, e) /\ pending' = pending
           \/ ring' = <<e>> /\ pending' = ring
           \/ ring' = <<e>> /\ pending' = << >> /\ dropped'
  BY <1>0, SampleTaken
<1>6. CASE Held' = Append(Held, e)
  <2>1. Ordered(Held') /\ NotAfter(Held', now') /\ EndsAt(Held', now')
    BY <1>1, <1>2, <1>4, <1>5, <1>6, AppendNewer DEF LogInvariant
  <2>2. e.at - 1 = now
    BY <1>1, <1>5
  <2>3. dropped \/ Chained(Held')
    <3>1. CASE dropped
      BY <3>1
    <3>2. CASE ~ dropped
      <4>1. Chained(Held) /\ (haveBase => EndsAt(Held, e.at - 1))
        BY <2>2, <3>2 DEF LogInvariant
      <4>2. e.base \/ EndsAt(Held, e.at - 1)
        BY <1>5, <4>1
      <4> QED
        BY <1>4, <1>6, <4>1, <4>2, AppendChained
    <3> QED
      BY <3>1, <3>2
  <2>4. dropped => dropped'
    BY <1>0, SampleTaken
  <2> QED
    BY <2>1, <2>3, <2>4 DEF InOrder, Decodable
<1>7. CASE ring' = Append(ring, e) /\ pending' = pending
  <2>1. Held' = (overflow \o pending) \o Append(ring, e)
    BY <1>2, <1>7 DEF Held
  <2>2. Held' = Append(Held, e)
    BY <1>1, <2>1, Regrouped DEF Held
  <2> QED
    BY <1>6, <2>2
<1>8. CASE ring' = <<e>> /\ pending' = ring
  <2>1. Held' = (overflow \o ring) \o <<e>>
    BY <1>2, <1>8 DEF Held
  <2>2. Held' = Append(Held, e)
    BY <1>4, <2>1, Regrouped
  <2> QED
    BY <1>6, <2>2
<1>9. CASE ring' = <<e>> /\ pending' = << >> /\ dropped'
  <2>1. Held' = (overflow \o << >>) \o <<e>>
    BY <1>2, <1>9 DEF Held
  <2>2. Held' = Append(overflow, e)
    BY <1>1, <2>1, Regrouped
  <2>3. Ordered(overflow \o << >>) /\ NotAfter(overflow \o << >>, now)
    <3>1. (overflow \o ring) \o << >> = Held
      BY <1>4, Regrouped
    <3> QED
      BY <1>1, <3>1, WithoutMiddle DEF LogInvariant
  <2>4. Ordered(overflow) /\ NotAfter(overflow, now)
    BY <1>1, <2>3, Regrouped
  <2>5. Ordered(Held') /\ NotAfter(Held', now')
    BY <1>1, <1>2, <1>5, <2>2, <2>4, AppendNewer
  <2> QED
    BY <1>9, <2>5 DEF InOrder, Decodable
<1> QED
  BY <1>5, <1>7, <1>8, <1>9

\* Taking a stretch out discards what is in it.
LEMMA StretchDiscarded ==
  ASSUME now \in Nat, InOrder, NEW a \in Seq(Entry), NEW b \in Seq(Entry), NEW c \in Seq(Entry),
         Held = (a \o b) \o c, Held' = a \o c, now' = now, dropped'
  PROVE  InOrder' /\ Decodable'
<1>1. Ordered(a \o c) /\ NotAfter(a \o c, now)
  BY WithoutMiddle DEF InOrder
<1> QED
  BY <1>1 DEF InOrder, Decodable

LEMMA FlushKeepsOrder ==
  ASSUME TypeOK, LogInvariant, RestOfSample
  PROVE  InOrder' /\ Decodable'
<1>0. TypeFlags /\ TypeCounts /\ TypeEntries
  BY TypeParts
<1>1. overflow \in Seq(Entry) /\ ring \in Seq(Entry) /\ pending \in Seq(Entry) /\ << >> \in Seq(Entry) /\ now \in Nat
  BY <1>0, EmptySeq, LoggerAssumption DEF TypeEntries, TypeCounts
<1>2. now' = now /\ ring' = ring
  BY <1>0, SampleFinished
<1>3. (haveBase' <=> haveBase) /\ (dropped => dropped')
  BY <1>0, SampleFinished
<1>4. Held' = (overflow' \o pending') \o ring
  BY <1>2 DEF Held
<1>5. InOrder /\ Decodable
  BY DEF LogInvariant, InOrder, Decodable
<1>6. CASE Held' = Held
  BY <1>2, <1>3, <1>5, <1>6 DEF InOrder, Decodable
<1>7. CASE pending' = pending /\ overflow' = overflow
  BY <1>4, <1>6, <1>7 DEF Held
<1>8. CASE pending' = << >> /\ overflow' = overflow \o pending
  <2>1. (overflow \o pending) \o << >> = overflow \o pending
    BY <1>1, Regrouped
  <2> QED
    BY <1>4, <1>6, <1>8, <2>1 DEF Held
<1>9. CASE pending' = << >> /\ overflow' = << >> \o pending /\ dropped'
  <2>1. pending \o ring \in Seq(Entry) /\ (<< >> \o pending) \o << >> = << >> \o pending
        /\ (<< >> \o pending) \o ring = << >> \o (pending \o ring)
    BY <1>1, Regrouped
  <2>2. Held' = << >> \o (pending \o ring)
    BY <1>4, <1>9, <2>1
  <2>3. Held = (<< >> \o overflow) \o (pending \o ring)
    BY <1>1, Regrouped DEF Held
  <2> QED
    BY <1>1, <1>2, <1>5, <1>9, <2>1, <2>2, <2>3, StretchDiscarded
<1>10. CASE pending' = << >> /\ overflow' = overflow /\ dropped'
  <2>1. Held' = overflow \o ring
    BY <1>1, <1>4, <1>10, Regrouped
  <2> QED
    BY <1>1, <1>2, <1>5, <1>10, <2>1, StretchDiscarded DEF Held
<1> QED
  BY <1>0, <1>7, <1>8, <1>9, <1>10, SampleFinished

\* An append that is cut discards what it does not write, and the file if that was at its limit.
LEMMA CutKeepsOrder ==
  ASSUME TypeOK, LogInvariant, NEW kept \in Seq(Entry), NEW part \in Seq(Entry),
         overflow' = kept \o part, BeginningOf(part, pending), kept = overflow \/ kept = << >>
  PROVE  Ordered((kept \o part) \o ring) /\ NotAfter((kept \o part) \o ring, now)
<1>0. TypeFlags /\ TypeCounts /\ TypeEntries
  BY TypeParts
<1>1. overflow \in Seq(Entry) /\ ring \in Seq(Entry) /\ pending \in Seq(Entry) /\ << >> \in Seq(Entry) /\ now \in Nat
  BY <1>0, EmptySeq, LoggerAssumption DEF TypeEntries, TypeCounts
<1>2. Ordered((overflow \o pending) \o ring) /\ NotAfter((overflow \o pending) \o ring, now)
  BY DEF LogInvariant, Held
<1>3. Ordered((kept \o pending) \o ring) /\ NotAfter((kept \o pending) \o ring, now)
  <2>1. CASE kept = overflow
    BY <1>2, <2>1
  <2>2. CASE kept = << >>
    <3>1. pending \o ring \in Seq(Entry) /\ (overflow \o pending) \o ring = (<< >> \o overflow) \o (pending \o ring)
          /\ (<< >> \o pending) \o ring = << >> \o (pending \o ring)
      BY <1>1, Regrouped
    <3>2. Ordered(<< >> \o (pending \o ring)) /\ NotAfter(<< >> \o (pending \o ring), now)
      BY <1>1, <1>2, <3>1, WithoutMiddle
    <3> QED
      BY <2>2, <3>1, <3>2
  <2> QED
    BY <2>1, <2>2
<1> QED
  BY <1>1, <1>3, MiddleShortened

LEMMA CardKeepsOrder ==
  ASSUME TypeOK, LogInvariant, CardFails
  PROVE  InOrder' /\ Decodable'
<1>0. TypeFlags /\ TypeCounts /\ TypeEntries
  BY TypeParts
<1>1. overflow \in Seq(Entry) /\ ring \in Seq(Entry) /\ pending \in Seq(Entry)
  BY <1>0 DEF TypeEntries
<1>2. now' = now /\ ring' = ring
  BY <1>0, CardFailed
<1>3. (haveBase' <=> haveBase)
  BY <1>0, CardFailed
<1>4. CASE pending' = pending /\ overflow' = overflow /\ (dropped' <=> dropped)
  <2>1. Held' = Held
    BY <1>2, <1>4 DEF Held
  <2> QED
    BY <1>2, <1>3, <1>4, <2>1 DEF LogInvariant, InOrder, Decodable
<1>5. CASE /\ pending' = << >> /\ dropped'
           /\ \E kept, part \in Seq(Entry) :
                 /\ overflow' = kept \o part /\ BeginningOf(part, pending)
                 /\ kept = overflow \/ (kept = << >> /\ Full)
  <2>1. PICK kept \in Seq(Entry), part \in Seq(Entry) :
          /\ overflow' = kept \o part /\ BeginningOf(part, pending)
          /\ kept = overflow \/ kept = << >>
    BY <1>5
  <2>2. kept \o part \in Seq(Entry)
    BY ConcatProperties
  <2>3. (kept \o part) \o << >> = kept \o part
    BY <2>2, ConcatEmptySeq
  <2>4. Held' = (kept \o part) \o ring
    BY <1>2, <1>5, <2>1, <2>3 DEF Held
  <2>5. Ordered(Held') /\ NotAfter(Held', now')
    BY <1>2, <2>1, <2>4, CutKeepsOrder
  <2> QED
    BY <1>5, <2>5 DEF InOrder, Decodable
<1> QED
  BY <1>0, <1>4, <1>5, CardFailed

LEMMA PopKeepsOrder ==
  ASSUME TypeOK, LogInvariant, ConsoleFlushLog
  PROVE  InOrder' /\ Decodable'
<1>0. TypeFlags /\ TypeCounts /\ TypeEntries
  BY TypeParts
<1>1. overflow \in Seq(Entry) /\ ring \in Seq(Entry) /\ pending \in Seq(Entry) /\ now \in Nat
  BY <1>0, LoggerAssumption DEF TypeEntries, TypeCounts
<1>2. overflow' = overflow /\ pending' = pending /\ now' = now
  BY DEF ConsoleFlushLog, FlushLog, PopBatch, PopRing, logger, files
<1>3. haveBase' = haveBase
  BY DEF ConsoleFlushLog, FlushLog, PopBatch, PopRing, logger
<1>4. InOrder /\ Decodable
  BY DEF LogInvariant, InOrder, Decodable
<1>5. CASE ring' = ring /\ dropped' = dropped
  <2>1. Held' = Held
    BY <1>2, <1>5 DEF Held
  <2> QED
    BY <1>2, <1>3, <1>4, <1>5, <2>1 DEF InOrder, Decodable
<1>6. CASE ring # << >> /\ ring' = Tail(ring) /\ dropped' = TRUE
  <2>1. <<Head(ring)>> \o Tail(ring) = ring /\ <<Head(ring)>> \in Seq(Entry) /\ Tail(ring) \in Seq(Entry)
    BY <1>1, <1>6, Regrouped
  <2> DEFINE a == overflow \o pending
  <2>2. a \in Seq(Entry)
    BY <1>1, Regrouped
  <2>3. Held = (a \o <<Head(ring)>>) \o Tail(ring)
    <3>1. (a \o <<Head(ring)>>) \o Tail(ring) = a \o (<<Head(ring)>> \o Tail(ring))
      BY <2>1, <2>2, Regrouped
    <3> QED
      BY <2>1, <3>1 DEF Held
  <2>4. Held' = a \o Tail(ring)
    BY <1>2, <1>6 DEF Held
  <2> HIDE DEF a
  <2> QED
    BY <1>1, <1>2, <1>4, <1>6, <2>1, <2>2, <2>3, <2>4, StretchDiscarded
<1>7. (ring' = ring /\ dropped' = dropped) \/ (ring # << >> /\ ring' = Tail(ring) /\ dropped' = TRUE)
  BY DEF ConsoleFlushLog, FlushLog, PopBatch, PopRing, logger
<1> QED
  BY <1>5, <1>6, <1>7

LEMMA ResetKeepsOrder ==
  ASSUME TypeOK, LogInvariant, Reset
  PROVE  InOrder' /\ Decodable'
<1>0. TypeFlags /\ TypeCounts /\ TypeEntries
  BY TypeParts
<1>1. overflow \in Seq(Entry) /\ ring \in Seq(Entry) /\ pending \in Seq(Entry) /\ << >> \in Seq(Entry) /\ now \in Nat
  BY <1>0, EmptySeq, LoggerAssumption DEF TypeEntries, TypeCounts
<1>2. pending' = << >> /\ ring' = << >> /\ now' = now
  BY DEF Reset, LogReset
<1>3. haveBase' = FALSE
  BY DEF Reset, LogReset
<1>4. pending \o ring \in Seq(Entry) /\ Held = overflow \o (pending \o ring)
  BY <1>1, Regrouped DEF Held
<1>5. PICK kept \in Seq(Entry), part \in Seq(Entry) :
        /\ overflow' = kept \o part /\ BeginningOf(part, pending) /\ (kept = overflow \/ kept = << >>)
        /\ (kept = overflow /\ (dropped' <=> dropped)) \/ dropped'
  <2>1. CASE overflow' = overflow /\ (dropped' <=> dropped)
    <3>1. BeginningOf(<< >>, pending) /\ overflow \o << >> = overflow
      BY <1>1, EmptySeq, LenProperties, ConcatEmptySeq DEF BeginningOf
    <3> QED
      BY <1>1, <2>1, <3>1
  <2>2. CASE \E kept, part \in Seq(Entry) :
               /\ overflow' = kept \o part /\ BeginningOf(part, pending)
               /\ \/ kept = overflow /\ (dropped' <=> dropped)
                  \/ kept = << >> /\ Full /\ dropped'
    BY <2>2
  <2> QED
    BY <1>0, <2>1, <2>2, ResetLeaves
<1> DEFINE file == kept \o part
<1>6. file \in Seq(Entry)
  BY ConcatProperties
<1>7. Held' = file
  <2>1. file \o << >> = file
    BY <1>6, ConcatEmptySeq
  <2>2. Held' = (file \o << >>) \o << >>
    BY <1>2, <1>5 DEF Held
  <2> HIDE DEF file
  <2> QED
    BY <2>1, <2>2
<1>8. Ordered(file) /\ NotAfter(file, now)
  <2>1. Ordered(file \o ring) /\ NotAfter(file \o ring, now)
    BY <1>5, CutKeepsOrder
  <2> HIDE DEF file
  <2>2. (file \o ring) \o << >> = file \o ring /\ file \o << >> = file
    BY <1>1, <1>6, ConcatEmptySeq, ConcatProperties
  <2>3. Ordered((file \o ring) \o << >>) /\ NotAfter((file \o ring) \o << >>, now)
    BY <2>1, <2>2
  <2>4. Ordered(file \o << >>) /\ NotAfter(file \o << >>, now)
    BY <1>1, <1>6, <2>3, WithoutMiddle
  <2> QED
    BY <2>2, <2>4
<1>9. dropped' \/ Chained(file)
  <2>1. CASE dropped'
    BY <2>1
  <2>2. CASE ~ dropped'
    <3>1. kept = overflow /\ ~ dropped
      BY <1>5, <2>2
    <3>2. Chained(Held)
      BY <3>1 DEF LogInvariant
    <3>3. overflow \o pending \in Seq(Entry) /\ Held = (overflow \o pending) \o ring
      BY <1>1, ConcatProperties DEF Held
    <3>4. Chained(overflow \o pending)
      BY <1>1, <3>2, <3>3, PrefixChained
    <3> QED
      BY <1>1, <1>5, <3>1, <3>4, EndShortened
  <2> QED
    BY <2>1, <2>2
<1> QED
  BY <1>2, <1>3, <1>7, <1>8, <1>9 DEF InOrder, Decodable

\* The other steps leave the entries alone.
LEMMA EntriesUntouched ==
  ASSUME \/ UNCHANGED vars
         \/ TakeLaterSample \/ WifiTick \/ TickJoined \/ TickNtp \/ CheckLink
         \/ KeepMqtt \/ BleSetWifi \/ BleSetMqtt \/ TakeSnapshot \/ Drain
         \/ Replay \/ Send \/ LinkUp \/ AccessPointGoes \/ AccessPointComes
         \/ SessionEnds \/ TimerPasses \/ CoolingPasses \/ ConsoleSetWifi \/ ConsoleJoins
         \/ ConsoleBleOn \/ MoveCard
  PROVE  /\ overflow' = overflow /\ pending' = pending /\ ring' = ring /\ now' = now
         /\ (haveBase' <=> haveBase) /\ (dropped' <=> dropped) /\ logStep' = logStep /\ cuts' = cuts
<1>1. CASE TakeLaterSample
  BY <1>1 DEF TakeLaterSample, logVars, logger, files
<1>2. CASE WifiTick
  BY <1>2 DEF WifiTick, logVars, logger, files
<1>3. CASE TickJoined
  BY <1>3 DEF TickJoined, logVars, logger, files
<1>4. CASE TickNtp
  BY <1>4 DEF TickNtp, logVars, logger, files
<1>5. CASE CheckLink
  BY <1>5 DEF CheckLink, logVars, logger, files
<1>6. CASE KeepMqtt
  BY <1>6 DEF KeepMqtt, logVars, logger, files
<1>7. CASE BleSetWifi
  BY <1>7 DEF BleSetWifi, logger, files
<1>8. CASE BleSetMqtt
  BY <1>8 DEF BleSetMqtt, logVars, logger, files
<1>9. CASE TakeSnapshot
  BY <1>9 DEF TakeSnapshot, logger, files
<1>10. CASE Drain
  BY <1>10 DEF Drain, logger
<1>11. CASE Replay
  BY <1>11 DEF Replay, logger
<1>12. CASE Send
  BY <1>12 DEF Send, logger
<1>13. CASE LinkUp
  BY <1>13 DEF LinkUp, logger, files
<1>14. CASE AccessPointGoes
  BY <1>14 DEF AccessPointGoes, logger, files
<1>15. CASE AccessPointComes
  BY <1>15 DEF AccessPointComes, logVars, logger, files
<1>16. CASE SessionEnds
  BY <1>16 DEF SessionEnds, logVars, logger, files
<1>17. CASE TimerPasses
  BY <1>17 DEF TimerPasses, logVars, logger, files
<1>18. CASE CoolingPasses
  BY <1>18 DEF CoolingPasses, logVars, logger, files
<1>19. CASE ConsoleSetWifi
  BY <1>19 DEF ConsoleSetWifi, logger, files
<1>20. CASE ConsoleJoins
  BY <1>20 DEF ConsoleJoins, logVars, logger, files
<1>21. CASE ConsoleBleOn
  BY <1>21 DEF ConsoleBleOn, logVars, logger, files
<1>22. CASE MoveCard
  BY <1>22 DEF MoveCard, CardOut, CardIn, logger, files
<1>23. CASE UNCHANGED vars
  BY <1>23 DEF vars, logVars, logger, files
<1> QED
  BY <1>1, <1>2, <1>3, <1>4, <1>5, <1>6, <1>7, <1>8, <1>9, <1>10, <1>11, <1>12, <1>13, <1>14, <1>15, <1>16, <1>17, <1>18, <1>19, <1>20, <1>21, <1>22, <1>23

LEMMA NextKeepsOrder ==
  ASSUME TypeOK, budget \in Scenario, LogInvariant, [Next]_vars
  PROVE  InOrder' /\ Decodable'
<1>1. CASE TakeSample
  BY <1>1, SampleLogged
<1>2. CASE RestOfSample
  BY <1>2, FlushKeepsOrder
<1>3. CASE ConsoleFlushLog
  BY <1>3, PopKeepsOrder
<1>4. CASE Reset
  BY <1>4, ResetKeepsOrder
<1>5. CASE /\ overflow' = overflow /\ pending' = pending /\ ring' = ring /\ now' = now
           /\ (haveBase' <=> haveBase) /\ (dropped' <=> dropped)
  <2>1. Held' = Held
    BY <1>5 DEF Held
  <2> QED
    BY <1>5, <2>1 DEF LogInvariant, InOrder, Decodable
<1>6. CASE CardFails
  BY <1>6, CardKeepsOrder
<1> QED
  BY <1>1, <1>2, <1>3, <1>4, <1>5, <1>6, EntriesUntouched DEF Next

\* Only the step that fills the buffer of the flush leaves something in it, and the flush comes
\* right after it.
LEMMA NextFlushes ==
  ASSUME TypeOK, budget \in Scenario, LogInvariant, [Next]_vars
  PROVE  (logStep # "flush" => pending = << >>)'
<1>0. TypeFlags /\ TypeCounts /\ TypeEntries
  BY TypeParts
<1>1. CASE TakeSample
  BY <1>1 DEF TakeSample, LogSample
<1>2. CASE RestOfSample
  BY <1>0, <1>2, SampleFinished DEF LogInvariant
<1>3. CASE ConsoleFlushLog
  BY <1>3 DEF ConsoleFlushLog, FlushLog, PopBatch, PopRing, logger, LogInvariant
<1>4. CASE Reset
  BY <1>4 DEF Reset, LogReset
<1>5. CASE pending' = pending /\ logStep' = logStep
  BY <1>5 DEF LogInvariant
<1>6. CASE CardFails
  BY <1>0, <1>6, CardFailed DEF LogInvariant
<1> QED
  BY <1>1, <1>2, <1>3, <1>4, <1>5, <1>6, EntriesUntouched DEF Next

\* What the logger itself writes is whole.
LEMMA NextTearsNone ==
  ASSUME TypeOK, budget \in Scenario, LogInvariant, [Next]_vars
  PROVE  Untorn'
<1>0. TypeFlags /\ TypeCounts /\ TypeEntries
  BY TypeParts
<1>1. Untorn /\ << >> \in Seq(Whole) /\ cuts \in Nat
  BY <1>0, EmptySeq DEF LogInvariant, TypeCounts
<1>2. pending \in Seq(Whole) /\ ring \in Seq(Whole)
  BY <1>1 DEF Untorn
<1>3. CASE TakeSample
  <2>1. PICK e \in Entry :
          /\ e.whole
          /\ \/ ring' = Append(ring, e) /\ pending' = pending
             \/ ring' = <<e>> /\ pending' = ring
             \/ ring' = <<e>> /\ pending' = << >>
    BY <1>0, <1>3, SampleTaken
  <2>2. e \in Whole
    BY <2>1 DEF Whole
  <2>3. Append(ring, e) \in Seq(Whole) /\ <<e>> \in Seq(Whole)
    BY <1>2, <2>2, SequenceSteps
  <2>4. overflow' = overflow /\ cuts' = cuts
    BY <1>0, <1>3, SampleTaken
  <2>5. pending' \in Seq(Whole) /\ ring' \in Seq(Whole)
    BY <1>1, <1>2, <2>1, <2>3
  <2> QED
    BY <1>1, <2>4, <2>5 DEF Untorn
<1>4. CASE RestOfSample
  <2>1. /\ ring' = ring /\ cuts' = cuts /\ pending' \in {pending, << >>}
        /\ overflow' \in {overflow, overflow \o pending, << >> \o pending}
    BY <1>0, <1>4, SampleFinished
  <2>2. cuts = 0 => overflow \o pending \in Seq(Whole)
    BY <1>1, <1>2, ConcatProperties DEF Untorn
  <2>3. << >> \o pending \in Seq(Whole)
    BY <1>1, <1>2, ConcatProperties
  <2> QED
    BY <1>1, <1>2, <2>1, <2>2, <2>3 DEF Untorn
<1>5. CASE CardFails
  <2>1. ring' = ring /\ pending' \in {pending, << >>} /\ (cuts' = cuts + 1 \/ (cuts' = cuts /\ overflow' = overflow))
    BY <1>0, <1>5, CardFailed
  <2>2. cuts' = 0 => cuts' = cuts /\ overflow' = overflow
    BY <1>1, <2>1
  <2> QED
    BY <1>1, <1>2, <2>1, <2>2 DEF Untorn
<1>6. CASE ConsoleFlushLog
  <2>1. overflow' = overflow /\ pending' = pending /\ cuts' = cuts
        /\ (ring' = ring \/ (ring # << >> /\ ring' = Tail(ring)))
    BY <1>6 DEF ConsoleFlushLog, FlushLog, PopBatch, PopRing, logger, files
  <2>2. ring # << >> => Tail(ring) \in Seq(Whole)
    BY <1>2, SequenceSteps
  <2> QED
    BY <1>1, <1>2, <2>1, <2>2 DEF Untorn
<1>7. CASE Reset
  <2>1. pending' = << >> /\ ring' = << >>
    BY <1>7 DEF Reset, LogReset
  <2>2. cuts' = cuts + 1 \/ (cuts' = cuts /\ overflow' = overflow)
    BY <1>0, <1>7, ResetLeaves
  <2>3. cuts' = 0 => cuts' = cuts /\ overflow' = overflow
    BY <1>1, <2>2
  <2> QED
    BY <1>1, <2>1, <2>3 DEF Untorn
<1>8. CASE overflow' = overflow /\ pending' = pending /\ ring' = ring /\ cuts' = cuts
  BY <1>1, <1>8 DEF Untorn
<1> QED
  BY <1>3, <1>4, <1>5, <1>6, <1>7, <1>8, EntriesUntouched DEF Next

LEMMA NextKeepsLog ==
  ASSUME TypeOK, budget \in Scenario, LogInvariant, [Next]_vars
  PROVE  LogInvariant'
BY NextKeepsOrder, NextFlushes, NextTearsNone DEF LogInvariant, InOrder, Decodable

LEMMA InitLogged == Init => LogInvariant
<1> SUFFICES ASSUME Init PROVE LogInvariant
  OBVIOUS
<1>1. overflow = << >> /\ pending = << >> /\ ring = << >> /\ logStep = "sample"
  BY DEF Init, LogInit
<1>2. Held = << >>
  BY <1>1 DEF Held
<1>3. haveBase = FALSE
  BY DEF Init, LogInit
<1>4. Untorn
  BY <1>1, EmptySeq DEF Untorn
<1> QED
  BY <1>1, <1>2, <1>3, <1>4 DEF LogInvariant, Ordered, NotAfter, Chained

\* What the invariant says of the log, as the run states it.
LEMMA LogInvariantImplies == TypeOK /\ LogInvariant => LogDecodes
<1> SUFFICES ASSUME TypeOK, LogInvariant, NEW k \in DOMAIN Held
    PROVE /\ k > 1 => Held[k - 1].at < Held[k].at
          /\ ~ Held[k].whole => cuts > 0
          /\ ~ Held[k].base => dropped \/ (k > 1 /\ Held[k - 1].at = Held[k].at - 1)
  BY Zenon DEF LogDecodes
<1>1. Held \in Seq(Entry)
  BY TypeParts, HeldTyped
<1>2. k \in 1 .. Len(Held) /\ Len(Held) \in Nat /\ DOMAIN Held = 1 .. Len(Held)
  BY <1>1, LenProperties
<1>3. k > 1 => k - 1 \in DOMAIN Held /\ k - 1 < k
  BY <1>2
<1>4. k > 1 => Held[k - 1].at < Held[k].at
  BY <1>3 DEF LogInvariant, Ordered
<1>5. ~ Held[k].base => dropped \/ (k > 1 /\ Held[k - 1].at = Held[k].at - 1)
  BY DEF LogInvariant, Chained
<1>6. ~ Held[k].whole => cuts > 0
  <2>1. cuts \in Nat
    BY TypeParts DEF TypeCounts
  <2>2. cuts = 0 => Held \in Seq(Whole)
    BY ConcatProperties DEF LogInvariant, Untorn, Held
  <2>3. cuts = 0 => Held[k] \in Whole
    BY <1>2, <2>2, ElementOfSeq
  <2> QED
    BY <2>1, <2>3 DEF Whole
<1> QED
  BY <1>4, <1>5, <1>6

\* However samples, flushes, the console, the card and resets interleave, no entry is held twice
\* or out of order, and each delta can be decoded unless entries were discarded.
THEOREM LogIsDecodable == Spec => []LogDecodes
<1> DEFINE Logged == TypeOK /\ budget \in Scenario /\ LogInvariant
<1>1. Init => Logged
  BY InitTyped, InitLogged
<1>2. Logged /\ [Next]_vars => Logged'
  BY NextTyped, NextKeepsLog
<1>3. Logged => LogDecodes
  BY LogInvariantImplies
<1> QED
  BY <1>1, <1>2, <1>3, PTL DEF Spec

-----------------------------------------------------------------------------
(* An entry leaves the logger for a reason only.                            *)

Has(s, e) == \E k \in DOMAIN s : s[k] = e

\* An entry of one of three sequences is in their concatenation, and only they are.
LEMMA HeldEntries ==
  ASSUME NEW a \in Seq(Entry), NEW b \in Seq(Entry), NEW c \in Seq(Entry)
  PROVE  \A e : Has((a \o b) \o c, e) <=> Has(a, e) \/ Has(b, e) \/ Has(c, e)
<1>1. ASSUME NEW s \in Seq(Entry), NEW t \in Seq(Entry), NEW e
      PROVE  Has(s \o t, e) <=> Has(s, e) \/ Has(t, e)
  <2>1. s \o t \in Seq(Entry) /\ Len(s \o t) = Len(s) + Len(t) /\ Len(s) \in Nat /\ Len(t) \in Nat
        /\ \A i \in 1 .. Len(s) + Len(t) : (s \o t)[i] = IF i =< Len(s) THEN s[i] ELSE t[i - Len(s)]
    BY ConcatProperties, LenProperties
  <2>2. DOMAIN (s \o t) = 1 .. Len(s) + Len(t) /\ DOMAIN s = 1 .. Len(s) /\ DOMAIN t = 1 .. Len(t)
    BY <2>1, LenProperties
  <2>3. ASSUME NEW k \in DOMAIN (s \o t) PROVE Has(s, (s \o t)[k]) \/ Has(t, (s \o t)[k])
    <3>1. CASE k =< Len(s)
      <4>1. k \in DOMAIN s /\ (s \o t)[k] = s[k]
        BY <2>1, <2>2, <3>1
      <4> QED
        BY <4>1 DEF Has
    <3>2. CASE ~ (k =< Len(s))
      <4>1. k - Len(s) \in DOMAIN t /\ (s \o t)[k] = t[k - Len(s)]
        BY <2>1, <2>2, <3>2
      <4> QED
        BY <4>1 DEF Has
    <3> QED
      BY <3>1, <3>2
  <2>4. ASSUME NEW k \in DOMAIN s PROVE Has(s \o t, s[k])
    <3>1. k \in DOMAIN (s \o t) /\ (s \o t)[k] = s[k]
      BY <2>1, <2>2
    <3> QED
      BY <3>1 DEF Has
  <2>5. ASSUME NEW k \in DOMAIN t PROVE Has(s \o t, t[k])
    <3>1. k + Len(s) \in DOMAIN (s \o t) /\ (s \o t)[k + Len(s)] = t[k]
      <4>1. k + Len(s) \in 1 .. Len(s) + Len(t) /\ k + Len(s) - Len(s) = k
        BY <2>1, <2>2
      <4>2. k + Len(s) =< Len(s) => FALSE
        BY <2>1, <2>2
      <4> QED
        BY <2>1, <2>2, <4>1, <4>2
    <3> QED
      BY <3>1 DEF Has
  <2> QED
    BY <2>3, <2>4, <2>5 DEF Has
<1>2. a \o b \in Seq(Entry)
  BY ConcatProperties
<1> QED
  BY <1>1, <1>2

\* The reasons, as LogKept lists them, for what is in the file and for what is not.
FileExcused == pending # << >> /\ Full
RestExcused ==
  \/ link /\ Len(ring) = RingSize
  \/ ~ sdPresent' \/ cuts' > cuts
  \/ flushing \/ haveBase' = FALSE

LEMMA FileKeeps ==
  ASSUME TypeOK, budget \in Scenario, [Next]_vars, NEW e, Has(overflow, e), ~ FileExcused
  PROVE  Has(overflow', e)
<1>0. TypeFlags /\ TypeCounts /\ TypeEntries
  BY TypeParts
<1>1. overflow \in Seq(Entry) /\ pending \in Seq(Entry) /\ << >> \in Seq(Entry)
  BY <1>0, EmptySeq DEF TypeEntries
<1>2. ASSUME NEW t \in Seq(Entry) PROVE Has(overflow \o t, e)
  <2>1. (overflow \o t) \o << >> = overflow \o t
    BY <1>1, Regrouped
  <2> QED
    BY <1>1, <2>1, HeldEntries
<1>3. CASE overflow' = overflow
  BY <1>3
<1>4. CASE \E t \in Seq(Entry) : overflow' = overflow \o t
  BY <1>2, <1>4
<1>5. CASE TakeSample
  BY <1>0, <1>3, <1>5, SampleTaken
<1>6. CASE RestOfSample
  <2>1. overflow' = overflow \/ overflow' = overflow \o pending \/ FileExcused
    BY <1>0, <1>6, SampleFinished DEF FileExcused
  <2> QED
    BY <1>1, <1>3, <1>4, <2>1
<1>7. CASE CardFails
  <2>1. \/ overflow' = overflow
        \/ FileExcused
        \/ \E t \in Seq(Entry) : overflow' = overflow \o t
    BY <1>0, <1>7, CardFailed DEF FileExcused
  <2> QED
    BY <1>3, <1>4, <2>1
<1>8. CASE ConsoleFlushLog
  BY <1>3, <1>8 DEF ConsoleFlushLog, FlushLog, PopBatch, PopRing, files
<1>9. CASE Reset
  <2>1. \/ overflow' = overflow
        \/ FileExcused
        \/ \E t \in Seq(Entry) : overflow' = overflow \o t
    BY <1>0, <1>9, ResetLeaves DEF FileExcused
  <2> QED
    BY <1>3, <1>4, <2>1
<1> QED
  BY <1>3, <1>5, <1>6, <1>7, <1>8, <1>9, EntriesUntouched DEF Next

LEMMA RestKeeps ==
  ASSUME TypeOK, budget \in Scenario, LogInvariant, [Next]_vars,
         NEW e, Has(pending, e) \/ Has(ring, e), ~ RestExcused
  PROVE  Has(overflow', e) \/ Has(pending', e) \/ Has(ring', e)
<1>0. TypeFlags /\ TypeCounts /\ TypeEntries
  BY TypeParts
<1> DEFINE In(s) == Has(s, e)
<1>1. ~ In(<< >>)
  BY DEF Has
<1>2. overflow \in Seq(Entry) /\ pending \in Seq(Entry) /\ ring \in Seq(Entry) /\ << >> \in Seq(Entry)
  BY <1>0, EmptySeq DEF TypeEntries
<1>3. CASE TakeSample
  <2>1. pending = << >>
    BY <1>0, <1>3, SampleTaken DEF LogInvariant
  <2>2. PICK new \in Entry :
           \/ ring' = Append(ring, new) /\ pending' = pending
           \/ ring' = <<new>> /\ pending' = ring
           \/ Len(ring) = RingSize /\ (link \/ ~ sdPresent')
    BY <1>0, <1>3, SampleTaken
  <2>3. ~ (Len(ring) = RingSize /\ (link \/ ~ sdPresent'))
    BY DEF RestExcused
  <2>4. In(ring) => In(Append(ring, new))
    <3>1. Append(ring, new) \in Seq(Entry) /\ Len(Append(ring, new)) = Len(ring) + 1 /\ Len(ring) \in Nat
          /\ \A i \in 1 .. Len(ring) : Append(ring, new)[i] = ring[i]
      BY <1>2, AppendProperties, LenProperties
    <3>2. DOMAIN ring = 1 .. Len(ring) /\ DOMAIN Append(ring, new) = 1 .. Len(ring) + 1
      BY <1>2, <3>1, LenProperties
    <3>3. \A i \in DOMAIN ring : i \in DOMAIN Append(ring, new) /\ Append(ring, new)[i] = ring[i]
      BY <3>1, <3>2
    <3> QED
      BY <3>3 DEF Has
  <2> HIDE DEF In
  <2>5. In(ring) \/ In(<< >>)
    BY <2>1 DEF In
  <2>6. In(pending') \/ In(ring')
    BY <1>1, <2>2, <2>3, <2>4, <2>5
  <2> QED
    BY <2>6 DEF In
<1>4. CASE RestOfSample
  <2>1. ring' = ring
    BY <1>0, <1>4, SampleFinished
  <2>2. \/ pending' = pending
        \/ pending = << >>
        \/ overflow' = overflow \o pending
        \/ overflow' = << >> \o pending
        \/ ~ sdPresent'
    BY <1>0, <1>4, SampleFinished
  <2>3. sdPresent'
    BY DEF RestExcused
  <2>4. ASSUME NEW a \in Seq(Entry), In(pending) PROVE In(a \o pending)
    <3>1. (a \o pending) \o << >> = a \o pending
      BY <1>2, Regrouped
    <3> QED
      BY <1>2, <2>4, <3>1, HeldEntries
  <2>5. In(pending) => In(overflow \o pending) /\ In(<< >> \o pending)
    BY <1>2, <2>4
  <2>6. In(pending) \/ In(ring)
    OBVIOUS
  <2> HIDE DEF In
  <2>7. In(overflow') \/ In(pending') \/ In(ring')
    BY <1>1, <2>1, <2>2, <2>3, <2>5, <2>6
  <2> QED
    BY <2>7 DEF In
<1>5. CASE CardFails
  <2>1. ring' = ring /\ (pending' = pending \/ cuts' = cuts + 1)
    BY <1>0, <1>5, CardFailed
  <2>2. ~ (cuts' > cuts)
    BY DEF RestExcused
  <2>3. cuts \in Nat
    BY <1>0 DEF TypeCounts
  <2>4. pending' = pending
    BY <2>1, <2>2, <2>3
  <2> QED
    BY <2>1, <2>4
<1>6. CASE ConsoleFlushLog
  <2>1. ~ flushing
    BY DEF RestExcused
  <2>2. pending' = pending /\ ring' = ring
    BY <1>6, <2>1 DEF ConsoleFlushLog, FlushLog, PopBatch, PopRing, logger, files
  <2> QED
    BY <2>2
<1>7. CASE Reset
  BY <1>7 DEF Reset, LogReset, RestExcused
<1>8. CASE pending' = pending /\ ring' = ring
  BY <1>8
<1> QED
  BY <1>3, <1>4, <1>5, <1>6, <1>7, <1>8, EntriesUntouched DEF Next

LEMMA StepKeeps ==
  ASSUME TypeOK, budget \in Scenario, LogInvariant, [Next]_vars, NEW k \in DOMAIN Held,
         ~ (k =< Len(overflow) /\ FileExcused), ~ (k > Len(overflow) /\ RestExcused)
  PROVE  \E j \in DOMAIN Held' : Held'[j] = Held[k]
<1>1. overflow' \in Seq(Entry) /\ pending' \in Seq(Entry) /\ ring' \in Seq(Entry)
  BY NextTyped, PrimedTypeParts DEF TypeEntries
<1>2. overflow \in Seq(Entry) /\ pending \in Seq(Entry) /\ ring \in Seq(Entry) /\ << >> \in Seq(Entry)
  BY TypeParts, EmptySeq DEF TypeEntries
<1> DEFINE e == Held[k]
           rest == pending \o ring
<1>3. Held = overflow \o rest /\ rest \in Seq(Entry)
  BY <1>2, Regrouped DEF Held
<1>4. Len(overflow) \in Nat /\ Len(rest) \in Nat
      /\ DOMAIN overflow = 1 .. Len(overflow) /\ DOMAIN rest = 1 .. Len(rest)
      /\ DOMAIN Held = 1 .. Len(overflow) + Len(rest)
      /\ \A i \in 1 .. Len(overflow) + Len(rest) :
            Held[i] = IF i =< Len(overflow) THEN overflow[i] ELSE rest[i - Len(overflow)]
  <2> HIDE DEF rest
  <2> QED
    BY <1>2, <1>3, ConcatProperties, LenProperties
<1>5. Has(overflow', e) \/ Has(pending', e) \/ Has(ring', e)
  <2>1. CASE k =< Len(overflow)
    <3>1. k \in DOMAIN overflow /\ overflow[k] = e
      BY <1>4, <2>1
    <3>2. Has(overflow, e)
      BY <3>1 DEF Has
    <3> HIDE DEF e
    <3> QED
      BY <2>1, <3>2, FileKeeps
  <2>2. CASE k > Len(overflow)
    <3>1. k - Len(overflow) \in DOMAIN rest /\ rest[k - Len(overflow)] = e
      BY <1>4, <2>2
    <3>2. Has(rest, e)
      BY <3>1 DEF Has
    <3> HIDE DEF e
    <3>3. Has(pending, e) \/ Has(ring, e)
      <4>1. (<< >> \o pending) \o ring = rest /\ ~ Has(<< >>, e)
        BY <1>2, Regrouped DEF Has
      <4> QED
        BY <1>2, <3>2, <4>1, HeldEntries
    <3> QED
      BY <2>2, <3>3, RestKeeps
  <2> QED
    BY <1>4, <2>1, <2>2
<1>6. Has(Held', e)
  <2>1. Held' = (overflow' \o pending') \o ring'
    BY DEF Held
  <2> HIDE DEF e
  <2> QED
    BY <1>1, <1>5, <2>1, HeldEntries
<1> QED
  BY <1>6 DEF Has, e

\* No step of any task, of the console, of the card or of a reset makes the logger lose an entry
\* but for the reasons listed; what is once in the file goes only with the whole file.
THEOREM EntriesAreKept == Spec => LogKept
<1> DEFINE Logged == TypeOK /\ budget \in Scenario /\ LogInvariant
           Kept == \A k \in DOMAIN Held :
                      \/ \E j \in DOMAIN Held' : Held'[j] = Held[k]
                      \/ k =< Len(overflow) /\ pending # << >> /\ Full
                      \/ k > Len(overflow) /\ \/ link /\ Len(ring) = RingSize
                                              \/ ~ sdPresent' \/ cuts' > cuts
                                              \/ flushing \/ haveBase' = FALSE
<1>1. Init => Logged
  BY InitTyped, InitLogged
<1>2. Logged /\ [Next]_vars => Logged'
  BY NextTyped, NextKeepsLog
<1>3. Logged /\ [Next]_vars => [Kept]_logVars
  BY StepKeeps, Zenon DEF FileExcused, RestExcused
<1> QED
  BY <1>1, <1>2, <1>3, PTL DEF Spec, LogKept

-----------------------------------------------------------------------------
(* The lines on their way.                                                  *)

LEMMA LinesOf ==
  ASSUME NEW s \in Seq(Line)
  PROVE  /\ Lines(s) \subseteq Sample
         /\ Lines(<< >>) = {} /\ OneEach(<< >>)
         /\ \A p \in Line : Lines(<<p>>) = {p} \ {0} /\ OneEach(<<p>>)
<1>1. Lines(s) \subseteq Sample
  <2>1. \A k \in DOMAIN s : s[k] \in Line
    BY ElementOfSeq, LenProperties
  <2>2. \A p \in Line : p # 0 => p \in Sample
    BY LoggerAssumption DEF Line, Sample
  <2> QED
    BY <2>1, <2>2 DEF Lines
<1>2. Lines(<< >>) = {} /\ OneEach(<< >>)
  BY DEF Lines, OneEach
<1>3. ASSUME NEW p \in Line PROVE Lines(<<p>>) = {p} \ {0} /\ OneEach(<<p>>)
  <2>1. DOMAIN <<p>> = {1} /\ <<p>>[1] = p
    OBVIOUS
  <2> QED
    BY <2>1 DEF Lines, OneEach
<1> QED
  BY <1>1, <1>2, <1>3

LEMMA LinesAppended ==
  ASSUME NEW s \in Seq(Line), NEW p \in Line
  PROVE  /\ Lines(Append(s, p)) = Lines(s) \cup ({p} \ {0})
         /\ OneEach(s) /\ p \notin Lines(s) => OneEach(Append(s, p))
<1> DEFINE t == Append(s, p)
<1>1. t \in Seq(Line) /\ Len(t) = Len(s) + 1 /\ Len(s) \in Nat /\ (\A i \in 1 .. Len(s) : t[i] = s[i]) /\ t[Len(s) + 1] = p
  BY AppendProperties, LenProperties
<1>2. DOMAIN s = 1 .. Len(s) /\ DOMAIN t = DOMAIN s \cup {Len(s) + 1} /\ Len(s) + 1 \notin DOMAIN s
  BY <1>1, LenProperties
<1>3. \A i \in DOMAIN s : t[i] = s[i]
  BY <1>1, <1>2
<1> HIDE DEF t
<1>4. Lines(t) = Lines(s) \cup ({p} \ {0})
  BY <1>1, <1>2, <1>3 DEF Lines
<1>5. ASSUME OneEach(s), p \notin Lines(s) PROVE OneEach(t)
  <2> SUFFICES ASSUME NEW j \in DOMAIN t, NEW k \in DOMAIN t, t[j] = t[k], t[j] # 0 PROVE j = k
    BY DEF OneEach
  <2>1. CASE j \in DOMAIN s /\ k \in DOMAIN s
    BY <1>3, <1>5, <2>1 DEF OneEach
  <2>2. \A i \in DOMAIN s : t[i] # 0 => t[i] # p
    BY <1>3, <1>5 DEF Lines
  <2> QED
    BY <1>1, <1>2, <2>1, <2>2
<1> QED
  BY <1>4, <1>5 DEF t

LEMMA LinesTaken ==
  ASSUME NEW s \in Seq(Line), s # << >>
  PROVE  /\ Lines(Tail(s)) \subseteq Lines(s) /\ Head(s) \in Lines(s) \cup {0}
         /\ OneEach(s) => OneEach(Tail(s)) /\ Head(s) \notin Lines(Tail(s))
<1> DEFINE t == Tail(s)
<1>1. t \in Seq(Line) /\ Len(t) = Len(s) - 1 /\ Head(s) = s[1] /\ \A i \in 1 .. Len(t) : t[i] = s[i + 1]
  BY HeadTailProperties
<1>2. Len(s) \in Nat \ {0} /\ DOMAIN s = 1 .. Len(s) /\ DOMAIN t = 1 .. Len(t)
  BY <1>1, LenProperties, EmptySeq
<1>3. \A i \in DOMAIN t : i + 1 \in DOMAIN s /\ t[i] = s[i + 1] /\ i + 1 # 1 /\ i \in Int
  BY <1>1, <1>2
<1>4. 1 \in DOMAIN s
  BY <1>2
<1> HIDE DEF t
<1>5. Lines(t) \subseteq Lines(s) /\ Head(s) \in Lines(s) \cup {0}
  BY <1>1, <1>3, <1>4 DEF Lines
<1>6. ASSUME OneEach(s) PROVE OneEach(t) /\ Head(s) \notin Lines(t)
  <2>1. ASSUME NEW j \in DOMAIN t, NEW k \in DOMAIN t, t[j] = t[k], t[j] # 0 PROVE j = k
    <3>1. j + 1 = k + 1
      BY <1>3, <1>6, <2>1 DEF OneEach
    <3> QED
      BY <1>3, <3>1
  <2>2. ASSUME NEW j \in DOMAIN t, t[j] # 0, t[j] = Head(s) PROVE FALSE
    <3>1. j + 1 = 1
      BY <1>1, <1>3, <1>4, <1>6, <2>2 DEF OneEach
    <3> QED
      BY <1>3, <3>1
  <2> QED
    BY <2>1, <2>2 DEF OneEach, Lines
<1> QED
  BY <1>5, <1>6 DEF t

\* Lines that are given up leave the others apart.
LEMMA LessOnTheWay ==
  ASSUME NEW f \in SUBSET Sample, NEW h \in SUBSET Sample, NEW r \in SUBSET Sample, NEW w \in SUBSET Sample,
         NEW f2 \in SUBSET f, NEW h2 \in SUBSET h, NEW r2 \in SUBSET r, NEW w2 \in SUBSET w,
         NEW c, NEW n \in Nat, Apart(f, h, r, w, c, n)
  PROVE  Apart(f2, h2, r2, w2, c, n)
BY DEF Apart

LEMMA PlacesTyped ==
  ASSUME TypeOK
  PROVE  /\ ToRead \in Seq(Line) /\ queue \in Seq(Line) /\ replay \in Seq(Line) /\ Len(replay) =< 1
         /\ current \in Line /\ now \in Nat /\ sent \in [Sample -> Nat]
         /\ InFile \in SUBSET Sample /\ InHand \in SUBSET Sample /\ InFront \in SUBSET Sample
         /\ InQueue \in SUBSET Sample
<1>1. TypeLines /\ TypeCounts
  BY TypeParts
<1>2. ToRead \in Seq(Line) /\ queue \in Seq(Line) /\ replay \in Seq(Line) /\ current \in Line /\ Len(replay) =< 1
  BY <1>1, Fetched DEF TypeLines
<1>3. now \in Nat /\ sent \in [Sample -> Nat]
  BY <1>1, LoggerAssumption DEF TypeCounts
<1>4. InFile \in SUBSET Sample /\ InHand \in SUBSET Sample /\ InQueue \in SUBSET Sample
  BY <1>2, LinesOf DEF InFile, InHand, InQueue
<1>5. InFront \in SUBSET Sample
  BY <1>2, LoggerAssumption DEF InFront, Line, Sample
<1> QED
  BY <1>2, <1>3, <1>4, <1>5

\* A step that leaves every line where it is; a card that is taken out ends the open file.
LEMMA LinesUntouched ==
  ASSUME TypeOK, LinesApart, ToRead' \in {ToRead, << >>}, replay' = replay, current' = current,
         queue' = queue, sent' = sent, now' = now
  PROVE  LinesApart'
<1>1. OneEach(ToRead') /\ Lines(ToRead') \subseteq InFile
  BY PlacesTyped, LinesOf DEF LinesApart, InFile
<1>2. Apart(Lines(ToRead'), InHand, InFront, InQueue, sent, now)
  BY <1>1, PlacesTyped, LessOnTheWay DEF LinesApart
<1> QED
  BY <1>1, <1>2 DEF LinesApart, InFile, InHand, InFront, InQueue

\* A new snapshot, or one that is not followed, enters the queue.
LEMMA SnapshotPushed ==
  ASSUME TypeOK, LinesApart, ToRead' = ToRead, replay' = replay, current' = current, sent' = sent,
         NEW p \in Line, queue' = queue \/ queue' = Append(queue, p),
         (p = 0 /\ now' = now) \/ (p = now + 1 /\ now' = now + 1)
  PROVE  LinesApart'
<1>0. now \in Nat /\ InQueue \in SUBSET Sample
  BY PlacesTyped
<1>1. p \notin InFile \cup InHand \cup InFront \cup InQueue
  <2>1. \A s \in InFile \cup InHand \cup InFront \cup InQueue : s =< now /\ s # 0
    BY DEF LinesApart, Apart, InFile, InHand, InFront, InQueue, Lines
  <2> QED
    BY <1>0, <2>1
<1>2. OneEach(queue') /\ Lines(queue') \subseteq InQueue \cup ({p} \ {0})
  <2>1. queue \in Seq(Line) /\ OneEach(queue) /\ p \notin Lines(queue) /\ InQueue = Lines(queue)
    BY <1>1, PlacesTyped DEF LinesApart, InQueue
  <2>2. Lines(Append(queue, p)) = Lines(queue) \cup ({p} \ {0}) /\ OneEach(Append(queue, p))
    BY <2>1, LinesAppended
  <2> QED
    BY <2>1, <2>2
<1>3. Counted(sent, now')
  BY PlacesTyped DEF LinesApart, Counted, Sample
<1>4. p # 0 => sent[p] = 0 /\ p =< now'
  <2>1. ASSUME p # 0 PROVE p \in Sample /\ p = now + 1 /\ p =< now'
    BY <1>0, <2>1, LoggerAssumption DEF Line, Sample
  <2>2. ASSUME p # 0 PROVE sent[p] = 0
    <3>1. sent[p] \in Nat /\ sent[p] =< 1 /\ (sent[p] = 1 => p =< now)
      BY <2>1, <2>2, PlacesTyped DEF LinesApart, Counted
    <3> QED
      BY <2>1, <2>2, <3>1, <1>0
  <2> QED
    BY <2>1, <2>2
<1>5. Apart(InFile, InHand, InFront, Lines(queue'), sent, now')
  <2>1. \A s \in InFile \cup InHand \cup InFront \cup Lines(queue') : s =< now' /\ sent[s] = 0
    <3>1. ASSUME NEW s \in InFile \cup InHand \cup InFront \cup InQueue PROVE s =< now' /\ sent[s] = 0
      <4>1. s =< now /\ sent[s] = 0 /\ s \in Int
        BY PlacesTyped DEF LinesApart, Apart, Sample
      <4> QED
        BY <1>0, <4>1
    <3> QED
      BY <1>2, <1>4, <3>1
  <2> QED
    BY <1>1, <1>2, <2>1 DEF LinesApart, Apart
<1> QED
  BY <1>2, <1>3, <1>5 DEF LinesApart, InFile, InHand, InFront, InQueue

\* The head of the queue becomes the snapshot of the pass; the one before it is given up.
LEMMA SnapshotTaken ==
  ASSUME TypeOK, LinesApart, ToRead' = ToRead, replay' = replay, sent' = sent, now' = now,
         queue # << >>, queue' = Tail(queue), current' = Head(queue)
  PROVE  LinesApart'
<1>1. Lines(queue') \subseteq InQueue /\ current' \in InQueue \cup {0} /\ OneEach(queue') /\ current' \notin Lines(queue')
  BY PlacesTyped, LinesTaken DEF LinesApart, InQueue
<1>2. Apart(InFile, InHand, {current'} \ {0}, Lines(queue'), sent, now)
  BY <1>1 DEF LinesApart, Apart
<1> QED
  BY <1>1, <1>2 DEF LinesApart, InFile, InHand, InFront, InQueue

\* A line of the file is taken in hand.
LEMMA LineInHand ==
  ASSUME TypeOK, LinesApart, current' = current, queue' = queue, sent' = sent, now' = now,
         \/ replay' = << >> /\ ToRead' \in {ToRead, << >>}
         \/ ToRead # << >> /\ replay' = <<Head(ToRead)>> /\ ToRead' = Tail(ToRead)
  PROVE  LinesApart'
<1>1. CASE replay' = << >> /\ ToRead' \in {ToRead, << >>}
  <2>1. OneEach(ToRead') /\ Lines(ToRead') \subseteq InFile /\ Lines(replay') = {}
    BY <1>1, PlacesTyped, LinesOf DEF LinesApart, InFile
  <2>2. Apart(Lines(ToRead'), Lines(replay'), InFront, InQueue, sent, now)
    BY <2>1 DEF LinesApart, Apart
  <2> QED
    BY <2>1, <2>2 DEF LinesApart, InFile, InHand, InFront, InQueue
<1>2. CASE ToRead # << >> /\ replay' = <<Head(ToRead)>> /\ ToRead' = Tail(ToRead)
  <2>1. /\ Lines(ToRead') \subseteq InFile /\ Head(ToRead) \in InFile \cup {0} /\ OneEach(ToRead')
        /\ Head(ToRead) \notin Lines(ToRead')
    BY <1>2, PlacesTyped, LinesTaken DEF LinesApart, InFile
  <2>2. Lines(replay') = {Head(ToRead)} \ {0}
    BY <1>2, PlacesTyped, LinesOf, HeadTailProperties
  <2>3. Apart(Lines(ToRead'), Lines(replay'), InFront, InQueue, sent, now)
    BY <2>1, <2>2 DEF LinesApart, Apart
  <2> QED
    BY <2>1, <2>3 DEF LinesApart, InFile, InHand, InFront, InQueue
<1> QED
  BY <1>1, <1>2

\* What publishing a line, or saving it for later, does to the other lines.
LEMMA OneGone ==
  ASSUME TypeOK, LinesApart, NEW p \in Line,
         NEW hand \in SUBSET InHand, NEW front \in SUBSET InFront,
         p = 0 \/ p \in InHand \cup InFront, p \notin hand \cup front,
         \/ sent' = sent /\ ToRead' = ToRead
         \/ ToRead' = ToRead /\ sent' = IF p \in Sample THEN [sent EXCEPT ![p] = @ + 1] ELSE sent
         \/ sent' = sent /\ ToRead' \in {ToRead, << >>, Append(ToRead, p), <<p>>}
  PROVE  OneEach(ToRead') /\ Apart(Lines(ToRead'), hand, front, InQueue, sent', now) /\ Counted(sent', now)
<1>0. /\ ToRead \in Seq(Line) /\ now \in Nat /\ sent \in [Sample -> Nat] /\ InFile \in SUBSET Sample
      /\ InHand \in SUBSET Sample /\ InFront \in SUBSET Sample /\ InQueue \in SUBSET Sample
  BY PlacesTyped
<1>1. /\ OneEach(ToRead) /\ Apart(InFile, InHand, InFront, InQueue, sent, now) /\ Counted(sent, now)
      /\ InFile = Lines(ToRead)
  BY DEF LinesApart, InFile
<1>2. hand \in SUBSET Sample /\ front \in SUBSET Sample
  BY <1>0
<1>3. p = 0 \/ (p =< now /\ sent[p] = 0)
  BY <1>1 DEF Apart
<1>4. p \notin InFile \cup hand \cup front \cup InQueue
  <2>1. 0 \notin InFile \cup InQueue
    BY DEF InFile, InQueue, Lines
  <2> QED
    BY <1>1, <2>1 DEF Apart
<1>5. Apart(InFile, hand, front, InQueue, sent, now)
  BY <1>0, <1>1, LessOnTheWay
<1>6. CASE sent' = sent /\ ToRead' = ToRead
  BY <1>1, <1>5, <1>6
<1>7. CASE ToRead' = ToRead /\ sent' = IF p \in Sample THEN [sent EXCEPT ![p] = @ + 1] ELSE sent
  <2>1. CASE p \notin Sample
    BY <1>1, <1>5, <1>7, <2>1
  <2>2. CASE p \in Sample
    <3>1. sent'[p] = sent[p] + 1 /\ \A s \in Sample : s # p => sent'[s] = sent[s]
      BY <1>0, <1>7, <2>2
    <3>2. p =< now /\ sent[p] = 0
      BY <1>3, <2>2 DEF Sample
    <3>3. \A s \in InFile \cup hand \cup front \cup InQueue : s # p /\ s \in Sample
      BY <1>0, <1>2, <1>4
    <3>4. Apart(InFile, hand, front, InQueue, sent', now)
      BY <1>5, <3>1, <3>3 DEF Apart
    <3>5. Counted(sent', now)
      BY <1>1, <3>1, <3>2 DEF Counted
    <3> QED
      BY <1>1, <1>7, <3>4, <3>5
  <2> QED
    BY <2>1, <2>2
<1>8. CASE sent' = sent /\ ToRead' \in {ToRead, << >>, Append(ToRead, p), <<p>>}
  <2>1. OneEach(ToRead') /\ Lines(ToRead') \subseteq InFile \cup ({p} \ {0})
    <3>1. Lines(<< >>) = {} /\ OneEach(<< >>) /\ Lines(<<p>>) = {p} \ {0} /\ OneEach(<<p>>)
      BY <1>0, LinesOf
    <3>2. Lines(Append(ToRead, p)) = Lines(ToRead) \cup ({p} \ {0}) /\ OneEach(Append(ToRead, p))
      BY <1>0, <1>1, <1>4, LinesAppended
    <3> QED
      BY <1>1, <1>8, <3>1, <3>2
  <2>2. Apart(InFile \cup ({p} \ {0}), hand, front, InQueue, sent, now)
    <3>1. p = 0 \/ (p \notin InQueue /\ p \notin hand /\ p \notin front /\ p =< now /\ sent[p] = 0)
      BY <1>3, <1>4
    <3> QED
      BY <1>5, <3>1 DEF Apart
  <2>3. Apart(Lines(ToRead'), hand, front, InQueue, sent, now)
    <3> DEFINE f == InFile \cup ({p} \ {0})
    <3>1. f \in SUBSET Sample
      BY <1>0, LoggerAssumption DEF Line, Sample
    <3>2. Apart(f, hand, front, InQueue, sent, now)
      BY <2>2
    <3>3. Lines(ToRead') \in SUBSET f
      BY <2>1
    <3> HIDE DEF f
    <3> QED
      BY <1>0, <1>2, <3>1, <3>2, <3>3, LessOnTheWay
  <2> QED
    BY <1>1, <1>8, <2>1, <2>3
<1> QED
  BY <1>6, <1>7, <1>8

\* Where Replay and Send put the line they have, if it is not given up.
LEMMA LinePublished ==
  ASSUME TypeOK, NEW p \in Line,
         \/ UNCHANGED <<sent, budget, sd, telemetry, reader>>
         \/ mqtt /\ Publish(p)
         \/ PublishFails(p)
  PROVE  \/ sent' = sent /\ ToRead' = ToRead
         \/ ToRead' = ToRead /\ sent' = IF p \in Sample THEN [sent EXCEPT ![p] = @ + 1] ELSE sent
         \/ sent' = sent /\ ToRead' \in {ToRead, << >>, Append(ToRead, p), <<p>>}
<1>0. TypeLines
  BY TypeParts
<1>1. CASE UNCHANGED <<sent, budget, sd, telemetry, reader>>
  BY <1>1 DEF ToRead
<1>2. CASE mqtt /\ Publish(p)
  BY <1>2 DEF ToRead, Publish
<1>3. CASE PublishFails(p)
  <2>1. sent' = sent /\ SaveTelemetry(p)
    BY <1>3 DEF PublishFails
  <2> QED
    BY <1>0, <2>1, LineSaved
<1> QED
  BY <1>1, <1>2, <1>3

LEMMA ReplayKeepsLines ==
  ASSUME TypeOK, LinesApart, Replay
  PROVE  LinesApart'
<1>0. replay \in Seq(Line) /\ Len(replay) =< 1
  BY PlacesTyped
<1>1. replay' = << >> /\ current' = current /\ queue' = queue /\ now' = now
  BY DEF Replay, logger
<1>2. Lines(replay') = {} /\ InFront' = InFront /\ InQueue' = InQueue
  BY <1>0, <1>1, LinesOf DEF InFront, InQueue
<1> DEFINE p == IF replay = << >> THEN 0 ELSE replay[1]
<1>3. p \in Line /\ (p = 0 \/ p \in InHand)
  <2>1. CASE replay = << >>
    BY <2>1, LoggerAssumption DEF Line
  <2>2. CASE replay # << >>
    <3>1. 1 \in DOMAIN replay /\ replay[1] \in Line
      BY <1>0, <2>2, LenProperties, EmptySeq, ElementOfSeq
    <3> QED
      BY <2>2, <3>1 DEF InHand, Lines
  <2> QED
    BY <2>1, <2>2
<1>4. \/ UNCHANGED <<sent, budget, sd, telemetry, reader>>
      \/ mqtt /\ Publish(p)
      \/ PublishFails(p)
  BY DEF Replay
<1>5. p \notin InFront
  <2>1. 0 \notin InFront /\ InHand \cap InFront = {}
    BY DEF LinesApart, Apart, InFront
  <2> QED
    BY <1>3, <2>1
<1> HIDE DEF p
<1>6. \/ sent' = sent /\ ToRead' = ToRead
      \/ ToRead' = ToRead /\ sent' = IF p \in Sample THEN [sent EXCEPT ![p] = @ + 1] ELSE sent
      \/ sent' = sent /\ ToRead' \in {ToRead, << >>, Append(ToRead, p), <<p>>}
  BY <1>3, <1>4, LinePublished
<1>7. p \notin {} \cup InFront /\ (p = 0 \/ p \in InHand \cup InFront) /\ {} \in SUBSET InHand /\ InFront \in SUBSET InFront
  BY <1>3, <1>5
<1>8. OneEach(ToRead') /\ Apart(Lines(ToRead'), {}, InFront, InQueue, sent', now) /\ Counted(sent', now)
  BY <1>3, <1>6, <1>7, OneGone
<1> QED
  BY <1>1, <1>2, <1>8 DEF LinesApart, InFile, InHand

LEMMA SendKeepsLines ==
  ASSUME TypeOK, LinesApart, Send
  PROVE  LinesApart'
<1>1. current' = 0 /\ replay' = replay /\ queue' = queue /\ now' = now
  BY DEF Send, logger
<1>2. InHand' = InHand /\ InFront' = {} /\ InQueue' = InQueue
  BY <1>1 DEF InHand, InFront, InQueue
<1>3. current \in Line /\ (current = 0 \/ current \in InFront)
  BY PlacesTyped DEF InFront
<1>4. \/ UNCHANGED <<sent, budget, sd, telemetry, reader>>
      \/ mqtt /\ Publish(current)
      \/ PublishFails(current)
  BY Zenon DEF Send
<1>5. current \notin InHand
  <2>1. 0 \notin InHand /\ InHand \cap InFront = {}
    BY DEF LinesApart, Apart, InHand, Lines
  <2> QED
    BY <1>3, <2>1
<1>6. OneEach(ToRead') /\ Apart(Lines(ToRead'), InHand, {}, InQueue, sent', now) /\ Counted(sent', now)
  BY <1>3, <1>4, <1>5, LinePublished, OneGone
<1> QED
  BY <1>1, <1>2, <1>6 DEF LinesApart, InFile

\* The steps that move no line.
LEMMA LinesAtRest ==
  ASSUME TypeOK,
         \/ UNCHANGED vars
         \/ RestOfSample \/ CardFails \/ WifiTick \/ TickJoined \/ TickNtp \/ CheckLink
         \/ KeepMqtt \/ BleSetWifi \/ BleSetMqtt \/ LinkUp \/ AccessPointGoes
         \/ AccessPointComes \/ SessionEnds \/ TimerPasses \/ CoolingPasses \/ ConsoleSetWifi
         \/ ConsoleJoins \/ ConsoleBleOn \/ ConsoleFlushLog \/ MoveCard
  PROVE  /\ ToRead' \in {ToRead, << >>} /\ replay' = replay /\ current' = current /\ queue' = queue
         /\ sent' = sent /\ now' = now /\ resets' = resets
<1>0. telemetry' = telemetry /\ reader' \in {reader, [reader EXCEPT !.rest = << >>]}
      => ToRead' \in {ToRead, << >>}
  <2>1. reader \in [open : BOOLEAN, rest : Seq(Line)]
    BY TypeParts DEF TypeLines
  <2> QED
    BY <2>1 DEF ToRead
<1> DEFINE Rest == /\ telemetry' = telemetry /\ reader' \in {reader, [reader EXCEPT !.rest = << >>]}
                   /\ replay' = replay /\ current' = current /\ queue' = queue
                   /\ sent' = sent /\ now' = now /\ resets' = resets
<1>1. ASSUME RestOfSample PROVE Rest
  BY <1>1 DEF RestOfSample, FlushToSd, WriteRow, files, data, env
<1>2. ASSUME WifiTick PROVE Rest
  BY <1>2 DEF WifiTick, logVars, logger, files, data
<1>3. ASSUME TickJoined PROVE Rest
  BY <1>3 DEF TickJoined, logVars, logger, files, data, env
<1>4. ASSUME TickNtp PROVE Rest
  BY <1>4 DEF TickNtp, logVars, logger, files, data, env
<1>5. ASSUME CheckLink PROVE Rest
  BY <1>5 DEF CheckLink, logVars, logger, files, data, env
<1>6. ASSUME KeepMqtt PROVE Rest
  BY <1>6 DEF KeepMqtt, logVars, logger, files, data
<1>7. ASSUME BleSetWifi PROVE Rest
  BY <1>7 DEF BleSetWifi, logger, files, data
<1>8. ASSUME BleSetMqtt PROVE Rest
  BY <1>8 DEF BleSetMqtt, logVars, logger, files, data
<1>9. ASSUME LinkUp PROVE Rest
  BY <1>9 DEF LinkUp, logger, files, data, env
<1>10. ASSUME AccessPointGoes PROVE Rest
  BY <1>10 DEF AccessPointGoes, logger, files, data
<1>11. ASSUME AccessPointComes PROVE Rest
  BY <1>11 DEF AccessPointComes, logVars, logger, files, data
<1>12. ASSUME SessionEnds PROVE Rest
  BY <1>12 DEF SessionEnds, logVars, logger, files, data
<1>13. ASSUME TimerPasses PROVE Rest
  BY <1>13 DEF TimerPasses, logVars, logger, files, data, env
<1>14. ASSUME CoolingPasses PROVE Rest
  BY <1>14 DEF CoolingPasses, logVars, logger, files, data, env
<1>15. ASSUME ConsoleSetWifi PROVE Rest
  BY <1>15 DEF ConsoleSetWifi, logger, files, data
<1>16. ASSUME ConsoleJoins PROVE Rest
  BY <1>16 DEF ConsoleJoins, logVars, logger, files, data, env
<1>17. ASSUME ConsoleBleOn PROVE Rest
  BY <1>17 DEF ConsoleBleOn, logVars, logger, files, data
<1>18. ASSUME ConsoleFlushLog PROVE Rest
  BY <1>18 DEF ConsoleFlushLog, FlushLog, PopBatch, PopRing, logger, files, data, env
<1>19. ASSUME MoveCard PROVE Rest
  BY <1>19 DEF MoveCard, CardIn, CardOut, logger, files, data
<1>20. ASSUME UNCHANGED vars PROVE Rest
  BY <1>20 DEF vars, logVars, logger, files, data, env
<1>21. ASSUME CardFails PROVE Rest
  BY <1>21 DEF CardFails, FlushFails, RowFails, files, data
<1>22. Rest
  BY <1>21, <1>1, <1>2, <1>3, <1>4, <1>5, <1>6, <1>7, <1>8, <1>9, <1>10, <1>11, <1>12, <1>13, <1>14, <1>15, <1>16, <1>17, <1>18, <1>19, <1>20
<1> QED
  BY <1>0, <1>22

LEMMA NextKeepsLines ==
  ASSUME TypeOK, budget \in Scenario, LinesInvariant, [Next]_vars
  PROVE  LinesInvariant'
<1>1. CASE Reset
  <2>1. resets' = resets + 1 /\ resets \in Nat
    BY <1>1, TypeParts DEF Reset, TypeCounts
  <2>2. resets' # 0
    BY <2>1
  <2> QED
    BY <2>2 DEF LinesInvariant
<1>2. CASE resets' = resets /\ (LinesApart => LinesApart')
  BY <1>2 DEF LinesInvariant
<1>3. CASE TakeSample
  <2>1. resets' = resets /\ telemetry' = telemetry /\ reader' = reader /\ replay' = replay /\ current' = current
        /\ sent' = sent /\ now' = now + 1 /\ now < budget.samples /\ queue' \in {queue, Append(queue, now')}
    BY <1>3 DEF TakeSample, LogSample, CanFit, Push, files
  <2>2. now + 1 \in Line
    <3>1. budget.samples \in 0 .. MaxSample /\ now \in Nat
      BY PlacesTyped DEF Scenario
    <3> QED
      BY <2>1, <3>1, LoggerAssumption DEF Line
  <2>3. ToRead' = ToRead
    BY <2>1 DEF ToRead
  <2>4. queue' = queue \/ queue' = Append(queue, now + 1)
    BY <2>1
  <2> QED
    BY <1>2, <2>1, <2>2, <2>3, <2>4, SnapshotPushed
<1>4. CASE TakeLaterSample
  <2>1. resets' = resets /\ telemetry' = telemetry /\ reader' = reader /\ replay' = replay /\ current' = current
        /\ sent' = sent /\ now' = now /\ (queue' = queue \/ queue' = Append(queue, 0))
    BY <1>4 DEF TakeLaterSample, logVars, logger, files, Push, env
  <2>2. 0 \in Line
    BY LoggerAssumption DEF Line
  <2>3. ToRead' = ToRead
    BY <2>1 DEF ToRead
  <2> QED
    BY <1>2, <2>1, <2>2, <2>3, SnapshotPushed
<1>5. CASE TakeSnapshot
  <2>1. resets' = resets /\ telemetry' = telemetry /\ reader' = reader /\ replay' = replay /\ sent' = sent /\ now' = now
        /\ ((queue' = queue /\ current' = current) \/ (queue # << >> /\ queue' = Tail(queue) /\ current' = Head(queue)))
    BY <1>5 DEF TakeSnapshot, logger, files, env
  <2>2. ToRead' = ToRead
    BY <2>1 DEF ToRead
  <2> QED
    BY <1>2, <2>1, <2>2, SnapshotTaken, LinesUntouched
<1>6. CASE Drain
  <2>1. resets' = resets /\ current' = current /\ queue' = queue /\ sent' = sent /\ now' = now
    BY <1>6 DEF Drain, logger, env
  <2>2. DrainTelemetry(replay') \/ (replay' = << >> /\ telemetry' = telemetry /\ reader' = reader)
    BY <1>6, Zenon DEF Drain
  <2>3. \/ replay' = << >> /\ ToRead' \in {ToRead, << >>}
        \/ ToRead # << >> /\ replay' = <<Head(ToRead)>> /\ ToRead' = Tail(ToRead)
    <3>1. CASE DrainTelemetry(replay')
      BY <3>1, TypeParts, LineDrained
    <3>2. CASE replay' = << >> /\ telemetry' = telemetry /\ reader' = reader
      BY <3>2 DEF ToRead
    <3> QED
      BY <2>2, <3>1, <3>2
  <2> QED
    BY <1>2, <2>1, <2>3, LineInHand
<1>7. CASE Replay
  <2>1. resets' = resets
    BY <1>7 DEF Replay
  <2> QED
    BY <1>2, <1>7, <2>1, ReplayKeepsLines
<1>8. CASE Send
  <2>1. resets' = resets
    BY <1>8 DEF Send
  <2> QED
    BY <1>2, <1>8, <2>1, SendKeepsLines
<1>9. CASE /\ ToRead' \in {ToRead, << >>} /\ replay' = replay /\ current' = current /\ queue' = queue
           /\ sent' = sent /\ now' = now /\ resets' = resets
  BY <1>2, <1>9, LinesUntouched
<1> QED
  BY <1>1, <1>3, <1>4, <1>5, <1>6, <1>7, <1>8, <1>9, LinesAtRest DEF Next

LEMMA InitLines == Init => LinesInvariant
<1> SUFFICES ASSUME Init PROVE LinesApart
  BY DEF LinesInvariant
<1>1. /\ telemetry = << >> /\ reader = Closed /\ queue = << >> /\ replay = << >> /\ current = 0
      /\ sent = [s \in Sample |-> 0]
  BY DEF Init, LogInit
<1>2. ToRead = << >>
  BY <1>1 DEF ToRead, Closed
<1>3. InFile = {} /\ InHand = {} /\ InQueue = {} /\ InFront = {}
  BY <1>1, <1>2 DEF InFile, InHand, InFront, InQueue, Lines
<1>4. Apart(InFile, InHand, InFront, InQueue, sent, now)
  BY <1>3 DEF Apart
<1>5. Counted(sent, now)
  BY <1>1 DEF Counted
<1> QED
  BY <1>1, <1>2, <1>4, <1>5 DEF LinesApart, OneEach

\* The types, the order of the log and the places of the lines, together, are kept by every step.
THEOREM UplinkInvariantHolds == Spec => []UplinkInvariant
<1>1. Init => UplinkInvariant
  BY InitTyped, InitLogged, InitLines DEF UplinkInvariant
<1>2. UplinkInvariant /\ [Next]_vars => UplinkInvariant'
  BY NextTyped, NextKeepsLog, NextKeepsLines DEF UplinkInvariant
<1> QED
  BY <1>1, <1>2, PTL DEF Spec

\* However publications fail, are saved, put back and read again, and whenever the file is wiped
\* under an open reader: without a reset no reading is published twice.
THEOREM ReplayedOnce == Spec => []ReplayOnce
<1>1. UplinkInvariant => ReplayOnce
  BY Zenon DEF UplinkInvariant, LinesInvariant, LinesApart, Counted, ReplayOnce
<1> QED
  BY <1>1, UplinkInvariantHolds, PTL
=============================================================================
