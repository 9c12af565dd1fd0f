---------------------------- MODULE HomingProofs ----------------------------
(***************************************************************************)
(* No carriage is driven past its switch, and a cycle that ends leaves     *)
(* every motor at its own pull-off from its switch: for every machine of   *)
(* axes with one motor or two, every order of events, resets, doors, sleeps*)
(* and failures.                                                           *)
(*                                                                         *)
(* The argument of the first: a pin that is not watched has been seen      *)
(* closed, and in an approach its motor stands still; a pin that is watched*)
(* closes in an approach only, and its report is handled, or the motion    *)
(* stopped, in time.  The argument of the second: the slow approach goes   *)
(* down further than it can have started above the switches, so it ends    *)
(* with every motor on its switch and with no cycleStop of its own on the  *)
(* way; a pull-off starts from there, and is over when it has made its     *)
(* steps, or an alarm has come before.                                     *)
(***************************************************************************)
EXTENDS Homing, FiniteSetTheorems, TLAPS

-----------------------------------------------------------------------------
(* The event queue.                                                          *)

Pins == {"pinActive", "pinInactive"}
Reports == [kind : Pins \cup {"limit"}, of : Motors]
Causes == {"reset", "door", "approach", "pulloff"}
Others == {Event(k) : k \in {"cycleStart", "cycleStop", "reset", "restart", "sleep"}}
Entry == Reports \cup Others \cup {Alarm(c) : c \in Causes}

(* An event of this kind is queued; one about this motor.                    *)
Queued(q, k) == \E i \in DOMAIN q : q[i].kind = k
Has(q, k, m) == \E i \in DOMAIN q : q[i].kind = k /\ q[i].of = m

(* The report that a switch has closed, with another report of it behind.    *)
Doubled(q, m) == \E i, j \in DOMAIN q :
    /\ i < j
    /\ q[i].kind = "pinActive" /\ q[i].of = m
    /\ q[j].kind \in Pins /\ q[j].of = m

(* The report that a switch has closed, behind the start of a motion.        *)
Behind(q, m) == \E i, j \in DOMAIN q :
    /\ i < j
    /\ q[i].kind = "cycleStart"
    /\ q[j].kind = "pinActive" /\ q[j].of = m

(* An event of kind b with none of kind a before it.                         *)
Unled(q, a, b) == \E j \in DOMAIN q :
    /\ q[j].kind = b
    /\ \A i \in DOMAIN q : i < j => q[i].kind # a

(* A queue without its first event.                                          *)
LEMMA TailIs ==
    ASSUME NEW S, NEW q \in Seq(S), q # <<>>
    PROVE  /\ Head(q) \in S /\ Tail(q) \in Seq(S) /\ Head(q) = q[1]
           /\ 1 \in DOMAIN q
           /\ \A i \in DOMAIN Tail(q) : i \in Nat /\ i + 1 \in DOMAIN q /\ Tail(q)[i] = q[i + 1]
           /\ \A i \in DOMAIN q : i # 1 => i - 1 \in DOMAIN Tail(q) /\ Tail(q)[i - 1] = q[i]
OBVIOUS

LEMMA TailHas ==
    ASSUME NEW S, NEW q \in Seq(S), q # <<>>, NEW k, NEW m
    PROVE  /\ Queued(q, k) <=> Head(q).kind = k \/ Queued(Tail(q), k)
           /\ Has(q, k, m) <=> (Head(q).kind = k /\ Head(q).of = m) \/ Has(Tail(q), k, m)
<1>1. ASSUME NEW i \in DOMAIN q, q[i].kind = k
      PROVE  Head(q).kind = k \/ Queued(Tail(q), k)
  <2>1. i = 1 \/ (i - 1 \in DOMAIN Tail(q) /\ Tail(q)[i - 1] = q[i])
    BY TailIs
  <2> QED BY <1>1, <2>1, TailIs DEF Queued
<1>2. ASSUME NEW i \in DOMAIN Tail(q), Tail(q)[i].kind = k
      PROVE  Queued(q, k)
  <2>1. i + 1 \in DOMAIN q /\ Tail(q)[i] = q[i + 1]
    BY TailIs
  <2> QED BY <1>2, <2>1 DEF Queued
<1>3. ASSUME NEW i \in DOMAIN q, q[i].kind = k, q[i].of = m
      PROVE  (Head(q).kind = k /\ Head(q).of = m) \/ Has(Tail(q), k, m)
  <2>1. i = 1 \/ (i - 1 \in DOMAIN Tail(q) /\ Tail(q)[i - 1] = q[i])
    BY TailIs
  <2> QED BY <1>3, <2>1, TailIs DEF Has
<1>4. ASSUME NEW i \in DOMAIN Tail(q), Tail(q)[i].kind = k, Tail(q)[i].of = m
      PROVE  Has(q, k, m)
  <2>1. i + 1 \in DOMAIN q /\ Tail(q)[i] = q[i + 1]
    BY TailIs
  <2> QED BY <1>4, <2>1 DEF Has
<1>5. 1 \in DOMAIN q /\ Head(q) = q[1]
  BY TailIs
<1> QED BY <1>1, <1>2, <1>3, <1>4, <1>5 DEF Queued, Has

LEMMA TailOrder ==
    ASSUME NEW S, NEW q \in Seq(S), q # <<>>, NEW m
    PROVE  /\ Doubled(Tail(q), m) => Doubled(q, m)
           /\ Behind(Tail(q), m) => Behind(q, m)
           /\ \A k \in Pins : Head(q).kind = "pinActive" /\ Head(q).of = m /\ Has(Tail(q), k, m)
                => Doubled(q, m)
           /\ Head(q).kind = "cycleStart" /\ Has(Tail(q), "pinActive", m) => Behind(q, m)
<1>1. 1 \in DOMAIN q /\ Head(q) = q[1]
  BY TailIs
<1>2. ASSUME Doubled(Tail(q), m) PROVE Doubled(q, m)
  <2>1. PICK i \in DOMAIN Tail(q), j \in DOMAIN Tail(q) :
           /\ i < j
           /\ Tail(q)[i].kind = "pinActive" /\ Tail(q)[i].of = m
           /\ Tail(q)[j].kind \in Pins /\ Tail(q)[j].of = m
    BY <1>2 DEF Doubled
  <2>2. i \in Nat /\ i + 1 \in DOMAIN q /\ Tail(q)[i] = q[i + 1]
    BY TailIs
  <2>3. j \in Nat /\ j + 1 \in DOMAIN q /\ Tail(q)[j] = q[j + 1]
    BY TailIs
  <2>4. i + 1 < j + 1
    BY <2>1, <2>2, <2>3
  <2> QED BY <2>1, <2>2, <2>3, <2>4 DEF Doubled
<1>3. ASSUME Behind(Tail(q), m) PROVE Behind(q, m)
  <2>1. PICK i \in DOMAIN Tail(q), j \in DOMAIN Tail(q) :
           /\ i < j
           /\ Tail(q)[i].kind = "cycleStart"
           /\ Tail(q)[j].kind = "pinActive" /\ Tail(q)[j].of = m
    BY <1>3 DEF Behind
  <2>2. i \in Nat /\ i + 1 \in DOMAIN q /\ Tail(q)[i] = q[i + 1]
    BY TailIs
  <2>3. j \in Nat /\ j + 1 \in DOMAIN q /\ Tail(q)[j] = q[j + 1]
    BY TailIs
  <2>4. i + 1 < j + 1
    BY <2>1, <2>2, <2>3
  <2> QED BY <2>1, <2>2, <2>3, <2>4 DEF Behind
<1>4. ASSUME NEW k \in Pins, Head(q).kind = "pinActive", Head(q).of = m, Has(Tail(q), k, m)
      PROVE  Doubled(q, m)
  <2>1. PICK j \in DOMAIN Tail(q) : Tail(q)[j].kind = k /\ Tail(q)[j].of = m
    BY <1>4 DEF Has
  <2>2. j \in Nat /\ j # 0 /\ j + 1 \in DOMAIN q /\ Tail(q)[j] = q[j + 1]
    BY TailIs
  <2>3. 1 < j + 1
    BY <2>2
  <2> QED BY <1>1, <1>4, <2>1, <2>2, <2>3 DEF Doubled
<1>5. ASSUME Head(q).kind = "cycleStart", Has(Tail(q), "pinActive", m)
      PROVE  Behind(q, m)
  <2>1. PICK j \in DOMAIN Tail(q) : Tail(q)[j].kind = "pinActive" /\ Tail(q)[j].of = m
    BY <1>5 DEF Has
  <2>2. j \in Nat /\ j # 0 /\ j + 1 \in DOMAIN q /\ Tail(q)[j] = q[j + 1]
    BY TailIs
  <2>3. 1 < j + 1
    BY <2>2
  <2> QED BY <1>1, <1>5, <2>1, <2>2, <2>3 DEF Behind
<1> QED BY <1>2, <1>3, <1>4, <1>5

LEMMA TailUnled ==
    ASSUME NEW S, NEW q \in Seq(S), q # <<>>, NEW a, NEW b, Head(q).kind # a
    PROVE  Unled(Tail(q), a, b) => Unled(q, a, b)
<1> SUFFICES ASSUME Unled(Tail(q), a, b) PROVE Unled(q, a, b)
  OBVIOUS
<1>1. PICK j \in DOMAIN Tail(q) : Tail(q)[j].kind = b
                                  /\ \A i \in DOMAIN Tail(q) : i < j => Tail(q)[i].kind # a
  BY DEF Unled
<1>2. j \in Nat /\ j + 1 \in DOMAIN q /\ Tail(q)[j] = q[j + 1]
  BY TailIs
<1>3. ASSUME NEW i \in DOMAIN q, i < j + 1 PROVE q[i].kind # a
  <2>1. i = 1 \/ (i - 1 \in DOMAIN Tail(q) /\ Tail(q)[i - 1] = q[i] /\ i \in Int)
    BY TailIs
  <2>2. i \in Int /\ (i = 1 \/ i - 1 < j)
    BY <1>2, <1>3, <2>1
  <2> QED BY <1>1, <2>1, <2>2, TailIs
<1> QED BY <1>1, <1>2, <1>3 DEF Unled

(* A queue with an event sent.                                               *)
LEMMA AppendIs ==
    ASSUME NEW S, NEW q \in Seq(S), NEW e \in S
    PROVE  /\ Append(q, e) \in Seq(S) /\ Len(q) \in Nat
           /\ DOMAIN Append(q, e) = DOMAIN q \cup {Len(q) + 1}
           /\ \A i \in DOMAIN q : i \in Nat /\ i < Len(q) + 1 /\ Append(q, e)[i] = q[i]
           /\ Append(q, e)[Len(q) + 1] = e
OBVIOUS

LEMMA AppendHas ==
    ASSUME NEW S, NEW q \in Seq(S), NEW e \in S, NEW k, NEW m
    PROVE  /\ Queued(Append(q, e), k) <=> Queued(q, k) \/ e.kind = k
           /\ Has(Append(q, e), k, m) <=> Has(q, k, m) \/ (e.kind = k /\ e.of = m)
BY AppendIs DEF Queued, Has

LEMMA AppendOrder ==
    ASSUME NEW S, NEW q \in Seq(S), NEW e \in S, NEW m
    PROVE  /\ Doubled(Append(q, e), m) => \/ Doubled(q, m)
                                          \/ e.kind \in Pins /\ e.of = m /\ Has(q, "pinActive", m)
           /\ Behind(Append(q, e), m) => \/ Behind(q, m)
                                         \/ e.kind = "pinActive" /\ e.of = m /\ Queued(q, "cycleStart")
<1> DEFINE r == Append(q, e)
           n == Len(q) + 1
<1>1. /\ n \in Nat /\ DOMAIN r = DOMAIN q \cup {n}
      /\ \A i \in DOMAIN q : i \in Nat /\ i < n /\ r[i] = q[i]
      /\ r[n] = e
  BY AppendIs
<1> HIDE DEF r, n
<1>2. ASSUME Doubled(r, m) PROVE Doubled(q, m) \/ (e.kind \in Pins /\ e.of = m /\ Has(q, "pinActive", m))
  <2>1. PICK i \in DOMAIN r, j \in DOMAIN r :
           /\ i < j
           /\ r[i].kind = "pinActive" /\ r[i].of = m
           /\ r[j].kind \in Pins /\ r[j].of = m
    BY <1>2 DEF Doubled
  <2>2. i \in DOMAIN q
    BY <1>1, <2>1
  <2> QED BY <1>1, <2>1, <2>2 DEF Doubled, Has
<1>3. ASSUME Behind(r, m) PROVE Behind(q, m) \/ (e.kind = "pinActive" /\ e.of = m /\ Queued(q, "cycleStart"))
  <2>1. PICK i \in DOMAIN r, j \in DOMAIN r :
           /\ i < j
           /\ r[i].kind = "cycleStart"
           /\ r[j].kind = "pinActive" /\ r[j].of = m
    BY <1>3 DEF Behind
  <2>2. i \in DOMAIN q
    BY <1>1, <2>1
  <2> QED BY <1>1, <2>1, <2>2 DEF Behind, Queued
<1> QED BY <1>2, <1>3 DEF r

LEMMA AppendUnled ==
    ASSUME NEW S, NEW q \in Seq(S), NEW e \in S, NEW a, NEW b
    PROVE  Unled(Append(q, e), a, b) => Unled(q, a, b) \/ (e.kind = b /\ ~Queued(q, a))
<1> DEFINE r == Append(q, e)
           n == Len(q) + 1
<1>1. /\ n \in Nat /\ DOMAIN r = DOMAIN q \cup {n}
      /\ \A i \in DOMAIN q : i \in Nat /\ i < n /\ r[i] = q[i]
      /\ r[n] = e
  BY AppendIs
<1> HIDE DEF r, n
<1> SUFFICES ASSUME Unled(r, a, b) PROVE Unled(q, a, b) \/ (e.kind = b /\ ~Queued(q, a))
  BY DEF r
<1>2. PICK j \in DOMAIN r : r[j].kind = b /\ \A i \in DOMAIN r : i < j => r[i].kind # a
  BY DEF Unled
<1>3. CASE j = n
  BY <1>1, <1>2, <1>3 DEF Queued
<1>4. CASE j \in DOMAIN q
  BY <1>1, <1>2, <1>4 DEF Unled
<1> QED BY <1>1, <1>3, <1>4

(* The pins that CycleStop finds open report it behind the other events.     *)
LEMMA OpenReports ==
    ASSUME NEW O \in SUBSET Motors
    PROVE  LET r == SetToSeq([kind : {"pinInactive"}, of : O]) IN
           /\ r \in Seq(Entry)
           /\ \A i \in DOMAIN r : r[i].kind = "pinInactive" /\ r[i].of \in O
<1> DEFINE E == [kind : {"pinInactive"}, of : O]
           g == [m \in O |-> [kind |-> "pinInactive", of |-> m]]
<1>1. g \in Surjection(O, E)
  <2>1. g \in [O -> E]
    OBVIOUS
  <2>2. ASSUME NEW e \in E PROVE \E m \in O : g[m] = e
    OBVIOUS
  <2> QED BY <2>1, <2>2 DEF Surjection
<1>2. IsFiniteSet(E)
  <2>1. IsFiniteSet(Motors)
    BY HomingAssumption
  <2>2. IsFiniteSet(O)
    BY <2>1, FS_Subset
  <2> HIDE DEF E, g
  <2> QED BY <1>1, <2>2, FS_Surjection
<1>3. E \subseteq Entry /\ \A e \in E : e.kind = "pinInactive" /\ e.of \in O
  BY DEF Entry, Reports, Pins
<1> HIDE DEF E, g
<1>4. Cardinality(E) \in Nat /\ ExistsBijection(1..Cardinality(E), E)
  BY <1>2, FS_CardinalityType
<1>5. \E f \in [1..Cardinality(E) -> E] : IsInjective(f)
  BY <1>4 DEF ExistsBijection, Bijection, Injection
<1>6. SetToSeq(E) \in [1..Cardinality(E) -> E]
  BY <1>5 DEF SetToSeq
<1>7. SetToSeq(E) \in Seq(E)
  BY <1>4, <1>6
<1>8. SetToSeq(E) \in Seq(Entry)
  BY <1>3, <1>4, <1>6
<1> QED BY <1>3, <1>6, <1>8 DEF E

LEMMA ConcatIs ==
    ASSUME NEW S, NEW q \in Seq(S), NEW r \in Seq(S)
    PROVE  /\ q \o r \in Seq(S) /\ Len(q) \in Nat
           /\ \A i \in DOMAIN (q \o r) : i \in Nat
           /\ \A i \in DOMAIN q : i <= Len(q) /\ i \in DOMAIN (q \o r) /\ (q \o r)[i] = q[i]
           /\ \A i \in DOMAIN (q \o r) : i \notin DOMAIN q =>
                i > Len(q) /\ i - Len(q) \in DOMAIN r /\ (q \o r)[i] = r[i - Len(q)]
           /\ \A i \in DOMAIN r : Len(q) + i \in DOMAIN (q \o r) /\ (q \o r)[Len(q) + i] = r[i]
OBVIOUS

LEMMA ConcatHas ==
    ASSUME NEW S, NEW q \in Seq(S), NEW r \in Seq(S), NEW k, NEW m
    PROVE  /\ Queued(q \o r, k) <=> Queued(q, k) \/ Queued(r, k)
           /\ Has(q \o r, k, m) <=> Has(q, k, m) \/ Has(r, k, m)
<1>1. Queued(q \o r, k) => Queued(q, k) \/ Queued(r, k)
  BY ConcatIs DEF Queued
<1>2. Queued(q, k) => Queued(q \o r, k)
  BY ConcatIs DEF Queued
<1>3. ASSUME NEW i \in DOMAIN r PROVE \E j \in DOMAIN (q \o r) : (q \o r)[j] = r[i]
  <2>1. Len(q) + i \in DOMAIN (q \o r) /\ (q \o r)[Len(q) + i] = r[i]
    BY ConcatIs
  <2> QED BY <2>1
<1>4. Queued(r, k) => Queued(q \o r, k)
  BY <1>3 DEF Queued
<1>5. Has(q \o r, k, m) => Has(q, k, m) \/ Has(r, k, m)
  BY ConcatIs DEF Has
<1>6. Has(q, k, m) => Has(q \o r, k, m)
  BY ConcatIs DEF Has
<1>7. Has(r, k, m) => Has(q \o r, k, m)
  BY <1>3 DEF Has
<1> QED BY <1>1, <1>2, <1>4, <1>5, <1>6, <1>7

(* Reports of open pins are put behind no report of the same pin.            *)
LEMMA ConcatOrder ==
    ASSUME NEW S, NEW q \in Seq(S), NEW r \in Seq(S), NEW m,
           \A i \in DOMAIN r : r[i].kind = "pinInactive" /\ (r[i].of = m => ~Has(q, "pinActive", m))
    PROVE  /\ Doubled(q \o r, m) => Doubled(q, m)
           /\ Behind(q \o r, m) => Behind(q, m)
<1> DEFINE c == q \o r
           n == Len(q)
<1>1. /\ n \in Nat
      /\ \A i \in DOMAIN c : i \in Nat
      /\ \A i \in DOMAIN q : i <= n /\ i \in DOMAIN c /\ c[i] = q[i]
      /\ \A i \in DOMAIN c : i \notin DOMAIN q =>
           i > n /\ \E j \in DOMAIN r : c[i] = r[j]
  BY ConcatIs
<1> HIDE DEF c, n
<1>2. ASSUME Doubled(c, m) PROVE Doubled(q, m)
  <2>1. PICK i \in DOMAIN c, j \in DOMAIN c :
           /\ i < j
           /\ c[i].kind = "pinActive" /\ c[i].of = m
           /\ c[j].kind \in Pins /\ c[j].of = m
    BY <1>2 DEF Doubled
  <2>2. i \in DOMAIN q
    BY <1>1, <2>1
  <2>3. j \in DOMAIN q
    BY <1>1, <2>1, <2>2 DEF Has
  <2> QED BY <1>1, <2>1, <2>2, <2>3 DEF Doubled
<1>3. ASSUME Behind(c, m) PROVE Behind(q, m)
  <2>1. PICK i \in DOMAIN c, j \in DOMAIN c :
           /\ i < j
           /\ c[i].kind = "cycleStart"
           /\ c[j].kind = "pinActive" /\ c[j].of = m
    BY <1>3 DEF Behind
  <2>2. i \in DOMAIN q /\ j \in DOMAIN q
    BY <1>1, <2>1
  <2> QED BY <1>1, <2>1, <2>2 DEF Behind
<1> QED BY <1>2, <1>3 DEF c

(* r holds no report of a pin that q does not hold, in no worse a place.     *)
Fewer(q, r) == \A m \in Motors :
    /\ Has(r, "pinActive", m) => Has(q, "pinActive", m)
    /\ Has(r, "pinInactive", m) => Has(q, "pinInactive", m)
    /\ Doubled(r, m) => Doubled(q, m)
    /\ Behind(r, m) => Behind(q, m)

LEMMA FewerTail ==
    ASSUME NEW q \in Seq(Entry), q # <<>> PROVE Fewer(q, Tail(q)) /\ Tail(q) \in Seq(Entry)
BY TailHas, TailOrder, TailIs DEF Fewer

LEMMA FewerAppend ==
    ASSUME NEW q \in Seq(Entry), NEW e \in Entry, e.kind \notin Pins
    PROVE  Fewer(q, Append(q, e)) /\ Append(q, e) \in Seq(Entry)
BY AppendHas, AppendOrder, AppendIs DEF Fewer, Pins

LEMMA FewerBoth ==
    ASSUME NEW q \in Seq(Entry), q # <<>>, NEW e \in Entry, e.kind \notin Pins
    PROVE  Fewer(q, Append(Tail(q), e)) /\ Append(Tail(q), e) \in Seq(Entry)
<1>1. Fewer(q, Tail(q)) /\ Tail(q) \in Seq(Entry)
  BY FewerTail
<1>2. Fewer(Tail(q), Append(Tail(q), e)) /\ Append(Tail(q), e) \in Seq(Entry)
  BY <1>1, FewerAppend
<1> QED BY <1>1, <1>2 DEF Fewer

(* The events that the code makes.                                           *)
LEMMA Entries ==
    /\ \A k \in {"cycleStart", "cycleStop", "reset", "restart", "sleep"} :
         Event(k) \in Entry /\ Event(k).kind = k
    /\ \A c \in Causes : Alarm(c) \in Entry /\ Alarm(c).kind = "alarm"
    /\ \A m \in Motors, k \in Pins \cup {"limit"} :
         /\ [kind |-> k, of |-> m] \in Entry
         /\ [kind |-> k, of |-> m].kind = k /\ [kind |-> k, of |-> m].of = m
BY DEF Event, Alarm, Entry, Reports, Others

(* A report is about a motor, and there is one event that starts a motion.   *)
LEMMA EntryOf ==
    ASSUME NEW e \in Entry
    PROVE  /\ e.kind \in Pins \cup {"limit"} => e.of \in Motors
           /\ e.kind = "cycleStart" => e = Event("cycleStart")
<1>1. CASE e \in Reports
  BY <1>1 DEF Reports, Pins
<1>2. ASSUME NEW k \in {"cycleStart", "cycleStop", "reset", "restart", "sleep"}, e = Event(k)
      PROVE  e.kind = k
  BY <1>2 DEF Event
<1>3. CASE e \in Others
  BY <1>2, <1>3 DEF Others, Pins
<1>4. CASE \E c \in Causes : e = Alarm(c)
  <2>1. e.kind = "alarm"
    BY <1>4 DEF Alarm
  <2> QED BY <2>1 DEF Pins
<1> QED BY <1>1, <1>3, <1>4 DEF Entry

-----------------------------------------------------------------------------
(* The invariant of the switches.                                            *)

(* The motors of the cycle.                                                  *)
Mine == MotorsOf(cycleAxes)

TypesProtocol ==
    /\ state \in {"Idle", "Alarm", "Homing", "SafetyDoor", "Sleep"}
    /\ task \in {"loop", "dwell", "settle"}
    /\ door \in BOOLEAN /\ abort \in BOOLEAN /\ suspended \in BOOLEAN
    /\ moving \in BOOLEAN /\ sysMotion \in BOOLEAN
TypesCycle ==
    /\ phase \in None .. CycleDone /\ runs \in Int
    /\ remaining \in Seq((SUBSET Axes) \ {{}})
    /\ cycleAxes \subseteq Axes /\ phaseAxes \subseteq Axes /\ unhomed \subseteq Axes
    /\ phaseMotors \subseteq Motors
TypesPins ==
    /\ mask \subseteq Motors /\ armed \subseteq Motors /\ seen \subseteq Motors
    /\ limited \subseteq Motors /\ blocked \subseteq Motors
TypesMotion == pos \in [Motors -> Int] /\ plan \in [Axes -> Int] /\ left \in [Axes -> Int]
TypesQueue == queue \in Seq(Entry)

(* An approach goes down, and only for the axes of the cycle; other phases   *)
(* go up.                                                                    *)
Points(d) == IF Approaching THEN \A a \in Axes : d[a] <= 0 /\ (d[a] # 0 => a \in cycleAxes)
             ELSE \A a \in Axes : d[a] >= 0
Directed == moving => Points(left)
Planned == Points(plan)

Phases ==
    /\ task = "settle" => ~moving /\ phase \in PrePulloff .. Pulloff2
    /\ task = "dwell" => phase \in {PrePulloff, Pulloff0, Pulloff1, Pulloff2}
    /\ state = "Homing" => phase \in PrePulloff .. Pulloff2
    /\ task = "settle" /\ Approaching => state = "Homing"

(* A pin that is not watched has been seen closed and put in the mask, and   *)
(* no report of it is on the way.                                            *)
Watched == \A m \in Motors \ armed :
    m \in mask /\ m \in seen /\ ~Has(queue, "pinActive", m) /\ ~Has(queue, "pinInactive", m)

(* In an approach the motors of the cycle that have met their switches stand *)
(* still on them.                                                            *)
Closed == Approaching =>
    /\ phaseMotors \subseteq Mine /\ Mine \ phaseMotors \subseteq mask
    /\ \A m \in Mine \cap mask : m \notin armed /\ m \in limited /\ Active(m)
    /\ limited \cap Mine \subseteq mask
AllClosed == task = "settle" /\ Approaching => Mine \subseteq mask

(* The other phases move all motors of the cycle, and end with none in the   *)
(* mask.                                                                     *)
Whole == ~Approaching /\ ((state = "Homing" /\ task = "loop") \/ task = "dwell") => phaseMotors = Mine
Opened == task = "settle" /\ ~Approaching => mask \cap Mine = {}

(* A switch reported closed is closed.                                       *)
Noticed == \A m \in Motors :
    /\ Has(queue, "pinActive", m) => Active(m) /\ m \in seen
    /\ ~Doubled(queue, m)

(* A switch closes unseen, with a report behind the start of a motion or in  *)
(* a motion, only in an approach of its axis.                                *)
Unnoticed == \A m \in armed : Active(m) /\ m \notin seen => Approaching /\ m \in Mine
Late == \A m \in Motors :
    Behind(queue, m) \/ (moving /\ Has(queue, "pinActive", m)) => Approaching /\ m \in Mine

Interrupted == state = "Homing" /\ abort => Queued(queue, "alarm")
Quiet == task = "settle" /\ ~Approaching =>
    \A k \in {"limit", "cycleStart", "cycleStop", "alarm", "restart"} : ~Queued(queue, k)

Types == TypesProtocol /\ TypesCycle /\ TypesPins /\ TypesMotion /\ TypesQueue
NeverInv ==
    /\ Types
    /\ Directed /\ Planned /\ Phases /\ Watched /\ Closed /\ AllClosed /\ Whole /\ Opened
    /\ Noticed /\ Unnoticed /\ Late /\ Interrupted /\ Quiet /\ NeverPastSwitch

-----------------------------------------------------------------------------
(* Pull-offs and motions.                                                    *)

(* An axis has one or two motors, and every motor of it has the common       *)
(* pull-off or the extra one.                                                *)
LEMMA Pulloffs ==
    ASSUME NEW a \in Axes
    PROVE  /\ CommonPulloff(a) \in Nat /\ Extra(a) \in Nat
           /\ \A m \in MotorsOf({a}) : Pulloff[m] \in {CommonPulloff(a), CommonPulloff(a) + Extra(a)}
<1> DEFINE M == MotorsOf({a})
           S == {Pulloff[m] : m \in M}
<1>1. PICK x \in M, y \in M : M = {x, y}
  <2>1. PICK x \in M : TRUE
    BY HomingAssumption
  <2>2. CASE \E y \in M : y # x
    <3>1. PICK y \in M : y # x
      BY <2>2
    <3>2. ASSUME NEW z \in M PROVE z \in {x, y}
      BY <2>1, <3>1, HomingAssumption DEF MotorsOf
    <3> QED BY <2>1, <3>1, <3>2
  <2>3. CASE \A y \in M : y = x
    BY <2>1, <2>3
  <2> QED BY <2>2, <2>3
<1>2. S = {Pulloff[x], Pulloff[y]}
  BY <1>1
<1>3. Pulloff[x] \in Nat /\ Pulloff[y] \in Nat
  BY HomingAssumption DEF MotorsOf
<1>4. CommonPulloff(a) = Min(S) /\ Extra(a) = Max(S) - Min(S)
  BY DEF CommonPulloff, Extra
<1>5. ASSUME NEW m \in M PROVE Pulloff[m] \in S
  OBVIOUS
<1> HIDE DEF S, M
<1>6. Min(S) \in S /\ \A s \in S : Min(S) <= s
  <2>1. \E s \in S : \A t \in S : s <= t
    <3>1. CASE Pulloff[x] <= Pulloff[y]
      BY <1>2, <1>3, <3>1
    <3>2. CASE Pulloff[y] <= Pulloff[x]
      BY <1>2, <1>3, <3>2
    <3>3. Pulloff[x] <= Pulloff[y] \/ Pulloff[y] <= Pulloff[x]
      BY <1>3
    <3> QED BY <3>1, <3>2, <3>3
  <2> QED BY <2>1 DEF Min
<1>7. Max(S) \in S /\ \A s \in S : Max(S) >= s
  <2>1. \E s \in S : \A t \in S : s >= t
    <3>1. CASE Pulloff[x] <= Pulloff[y]
      BY <1>2, <1>3, <3>1
    <3>2. CASE Pulloff[y] <= Pulloff[x]
      BY <1>2, <1>3, <3>2
    <3>3. Pulloff[x] <= Pulloff[y] \/ Pulloff[y] <= Pulloff[x]
      BY <1>3
    <3> QED BY <3>1, <3>2, <3>3
  <2> QED BY <2>1 DEF Max
<1>8. ASSUME NEW m \in M PROVE Pulloff[m] \in {CommonPulloff(a), CommonPulloff(a) + Extra(a)}
  BY <1>2, <1>3, <1>4, <1>5, <1>6, <1>7
<1>9. CommonPulloff(a) \in Nat /\ Extra(a) \in Nat
  BY <1>2, <1>3, <1>4, <1>6, <1>7
<1> QED BY <1>8, <1>9 DEF M

(* Pull-offs go up and approaches down.                                      *)
LEMMA Travels ==
    ASSUME NEW ph \in PrePulloff .. Pulloff2, NEW a \in Axes
    PROVE  /\ Travel(ph, a) \in Int
           /\ ph \in {FastApproach, SlowApproach} => Travel(ph, a) <= 0
           /\ ph \notin {FastApproach, SlowApproach} => Travel(ph, a) >= 0
<1> USE DEF None, PrePulloff, FastApproach, Pulloff0, SlowApproach, Pulloff1, Pulloff2
<1>1. CommonPulloff(a) \in Nat /\ Extra(a) \in Nat
  BY Pulloffs
<1>2. SeekTravel[a] \in Nat /\ FeedMargin \in Nat
  BY HomingAssumption
<1>3. CASE ph = 1
  BY <1>1, <1>3 DEF Travel
<1>4. CASE ph = 2
  BY <1>2, <1>4 DEF Travel
<1>5. CASE ph \in {3, 5}
  BY <1>1, <1>5 DEF Travel
<1>6. CASE ph = 4
  BY <1>1, <1>2, <1>6 DEF Travel
<1>7. CASE ph = 6
  BY <1>1, <1>7 DEF Travel
<1> QED BY <1>3, <1>4, <1>5, <1>6, <1>7

LEMMA MovePlans ==
    ASSUME NEW axes, NEW motors, NEW ph \in PrePulloff .. Pulloff2, NEW q,
           HomingMove(axes, motors, ph, q), phase' = ph, axes \subseteq cycleAxes'
    PROVE  plan' \in [Axes -> Int] /\ Planned'
<1>1. plan' = [a \in Axes |-> IF a \in axes THEN Travel(ph, a) ELSE 0]
  BY DEF HomingMove
<1>2. \A a \in Axes : /\ Travel(ph, a) \in Int
                      /\ ph \in {FastApproach, SlowApproach} => Travel(ph, a) <= 0
                      /\ ph \notin {FastApproach, SlowApproach} => Travel(ph, a) >= 0
  BY Travels
<1> QED BY <1>1, <1>2 DEF Planned, Points, Approaching

LEMMA Motors1 == \A axes : MotorsOf(axes) \subseteq Motors
BY DEF MotorsOf

-----------------------------------------------------------------------------
(* Steps and the invariant of the switches.                                  *)

LEMMA NeverInit == Init => NeverInv
<1> SUFFICES ASSUME Init PROVE NeverInv
  OBVIOUS
<1> USE DEF None, PrePulloff, FastApproach, Pulloff0, SlowApproach, Pulloff1, Pulloff2, CycleDone
<1>1. Types
  <2>1. TypesProtocol
    BY DEF Init, TypesProtocol
  <2>2. TypesCycle /\ TypesPins
    BY DEF Init, TypesCycle, TypesPins
  <2>3. TypesMotion
    BY HomingAssumption DEF Init, TypesMotion, Still
  <2>4. TypesQueue
    BY DEF Init, TypesQueue
  <2> QED BY <2>1, <2>2, <2>3, <2>4 DEF Types
<1>2. Planned /\ Directed /\ Phases /\ Closed /\ AllClosed /\ Whole /\ Opened /\ Interrupted /\ Quiet
  BY DEF Init, Planned, Directed, Points, Phases, Closed, AllClosed, Whole, Opened, Interrupted, Quiet,
         Approaching, Still
<1>3. \A k, m : ~Has(queue, k, m) /\ ~Doubled(queue, m) /\ ~Behind(queue, m)
  BY DEF Init, Has, Doubled, Behind
<1>4. Watched /\ Noticed /\ Late
  BY <1>3 DEF Init, Watched, Noticed, Late
<1>5. Unnoticed
  BY DEF Init, Unnoticed
<1>6. NeverPastSwitch
  BY HomingAssumption DEF Init, NeverPastSwitch
<1> QED BY <1>1, <1>2, <1>4, <1>5, <1>6 DEF NeverInv

(* A step that touches neither the cycle nor the switches, reports nothing   *)
(* and starts no motion.                                                     *)
LEMMA AsideNever ==
    ASSUME NeverInv, TypesProtocol', left' \in [Axes -> Int], blocked' \subseteq Motors,
           unhomed' \subseteq Axes, queue' \in Seq(Entry),
           Interrupted', Quiet', Fewer(queue, queue'),
           UNCHANGED <<task, phase, runs, remaining, cycleAxes, phaseAxes, phaseMotors>>,
           UNCHANGED <<pins, limited, pos, plan>>,
           moving' => moving /\ left' = left,
           state' # state => state' # "Homing" /\ task # "settle"
    PROVE  NeverInv'
<1> USE DEF NeverInv, pins
<1>1. Types'
  BY DEF Types, TypesCycle, TypesPins, TypesMotion, TypesQueue
<1>2. Directed' /\ Planned'
  BY DEF Directed, Planned, Points, Approaching
<1>3. Phases' /\ AllClosed' /\ Whole' /\ Opened'
  BY DEF Phases, AllClosed, Whole, Opened, Approaching, Mine
<1>4. Closed'
  BY DEF Closed, Approaching, Mine, Active
<1>5. Watched'
  BY DEF Watched, Fewer
<1>6. Noticed' /\ Late'
  BY DEF Noticed, Late, Fewer, Active, Approaching, Mine
<1>7. Unnoticed' /\ NeverPastSwitch'
  BY DEF Unnoticed, NeverPastSwitch, Active, Approaching, Mine
<1> QED BY <1>1, <1>2, <1>3, <1>4, <1>5, <1>6, <1>7

(* The queue while an event is handled.                                      *)
LEMMA Handled ==
    ASSUME NeverInv, Handling
    PROVE  /\ queue \in Seq(Entry) /\ queue # <<>> /\ Head(queue) \in Entry
           /\ Rest \in Seq(Entry) /\ Fewer(queue, Rest)
           /\ \A k : Queued(queue, k) <=> Head(queue).kind = k \/ Queued(Rest, k)
           /\ task # "settle"
BY FewerTail, TailHas, TailIs DEF NeverInv, Types, TypesQueue, Handling, Rest

LEMMA NoFewer == \A q : Fewer(q, q)
BY DEF Fewer

LEMMA Stopped == Still \in [Axes -> Int] /\ \A a \in Axes : Still[a] = 0
BY DEF Still

LEMMA AlarmEventNever == ASSUME NeverInv, AlarmEvent PROVE NeverInv'
<1> USE DEF AlarmEvent, Takes, protocol, cycle, pins, engine, motion, counts
<1>1. Rest \in Seq(Entry) /\ Fewer(queue, Rest) /\ task # "settle"
  BY Handled
<1>2. TypesProtocol' /\ left' \in [Axes -> Int] /\ blocked' \subseteq Motors /\ unhomed' \subseteq Axes
  BY DEF NeverInv, Types, TypesProtocol, TypesMotion, TypesPins, TypesCycle
<1>3. Interrupted' /\ Quiet'
  BY <1>1 DEF Interrupted, Quiet
<1> QED BY <1>1, <1>2, <1>3, AsideNever

LEMMA ResetNever == ASSUME NeverInv, Reset PROVE NeverInv'
<1> USE DEF Reset, Takes, cycle, pins, counts
<1>1. Rest \in Seq(Entry) /\ Fewer(queue, Rest) /\ task # "settle"
  BY Handled
<1>2. TypesProtocol' /\ left' \in [Axes -> Int] /\ blocked' \subseteq Motors /\ unhomed' \subseteq Axes
  BY Stopped DEF NeverInv, Types, TypesProtocol, TypesMotion, TypesPins, TypesCycle
<1>3. /\ Alarm("reset") \in Entry /\ Alarm("reset").kind = "alarm"
      /\ Event("restart") \in Entry /\ Event("restart").kind = "restart"
  BY Entries DEF Causes
<1>4. CASE state = "Homing"
  <2>1. queue' = Append(Append(Rest, Alarm("reset")), Event("restart"))
    BY <1>4
  <2>2. Fewer(Rest, Append(Rest, Alarm("reset"))) /\ Append(Rest, Alarm("reset")) \in Seq(Entry)
    BY <1>1, <1>3, FewerAppend DEF Pins
  <2>3. /\ Fewer(Append(Rest, Alarm("reset")), queue') /\ queue' \in Seq(Entry)
    BY <2>1, <2>2, <1>3, FewerAppend DEF Pins
  <2>4. Fewer(queue, queue')
    BY <1>1, <2>2, <2>3 DEF Fewer
  <2>5. Queued(queue', "alarm")
    BY <1>1, <1>3, <2>1, <2>2, AppendHas
  <2>6. Interrupted' /\ Quiet'
    BY <1>1, <2>5 DEF Interrupted, Quiet
  <2> QED BY <1>1, <1>2, <1>4, <2>3, <2>4, <2>6, AsideNever
<1>5. CASE state # "Homing"
  <2>1. queue' = Append(Rest, Event("restart"))
    BY <1>5
  <2>2. Fewer(queue, queue') /\ queue' \in Seq(Entry)
    BY <1>1, <1>3, <2>1, FewerAppend DEF Pins, Fewer
  <2>3. state' # "Homing"
    BY <1>5
  <2>4. Interrupted' /\ Quiet'
    BY <1>1, <2>3 DEF Interrupted, Quiet
  <2> QED BY <1>1, <1>2, <1>5, <2>2, <2>3, <2>4, AsideNever
<1> QED BY <1>4, <1>5

LEMMA RestartNever == ASSUME NeverInv, Restart PROVE NeverInv'
<1> USE DEF Restart, Takes, StopMotion, cycle, pins, engine, counts
<1>1. /\ Rest \in Seq(Entry) /\ Fewer(queue, Rest) /\ task # "settle"
      /\ Queued(queue, "alarm") <=> Queued(Rest, "alarm")
  BY Handled
<1>2. TypesProtocol' /\ left' \in [Axes -> Int] /\ blocked' \subseteq Motors /\ unhomed' \subseteq Axes
  BY Stopped DEF NeverInv, Types, TypesProtocol, TypesMotion, TypesPins, TypesCycle
<1>3. Interrupted' /\ Quiet'
  BY <1>1 DEF NeverInv, Interrupted, Quiet
<1> QED BY <1>1, <1>2, <1>3, AsideNever

LEMMA SleepNever == ASSUME NeverInv, Sleep PROVE NeverInv'
<1> USE DEF Sleep, Takes, cycle, pins, engine, motion, counts
<1>1. Rest \in Seq(Entry) /\ Fewer(queue, Rest) /\ task # "settle"
  BY Handled
<1>2. TypesProtocol' /\ left' \in [Axes -> Int] /\ blocked' \subseteq Motors /\ unhomed' \subseteq Axes
  BY DEF NeverInv, Types, TypesProtocol, TypesMotion, TypesPins, TypesCycle
<1>3. Interrupted' /\ Quiet'
  BY <1>1 DEF Interrupted, Quiet
<1> QED BY <1>1, <1>2, <1>3, AsideNever

LEMMA SafetyDoorNever == ASSUME NeverInv, SafetyDoor PROVE NeverInv'
<1> USE DEF SafetyDoor, Fail, StopMotion, cycle, pins, counts
<1>1. queue \in Seq(Entry) /\ task # "settle"
  BY DEF NeverInv, Types, TypesQueue
<1>2. TypesProtocol' /\ left' \in [Axes -> Int] /\ blocked' \subseteq Motors /\ unhomed' \subseteq Axes
  BY Stopped DEF NeverInv, Types, TypesProtocol, TypesMotion, TypesPins, TypesCycle
<1>3. Alarm("door") \in Entry /\ Alarm("door").kind = "alarm"
  BY Entries DEF Causes
<1>4. Fewer(queue, queue') /\ queue' \in Seq(Entry)
  BY <1>1, <1>3, FewerAppend, NoFewer DEF Pins
<1>5. state' # "Homing"
  OBVIOUS
<1>6. Interrupted' /\ Quiet'
  BY <1>1, <1>5 DEF Interrupted, Quiet
<1> QED BY <1>1, <1>2, <1>4, <1>5, <1>6, AsideNever

LEMMA LineEndsNever == ASSUME NeverInv, LineEnds PROVE NeverInv'
<1> USE DEF LineEnds, cycle, pins, engine, motion, counts
<1>1. queue \in Seq(Entry) /\ task # "settle" /\ Fewer(queue, queue')
  BY NoFewer DEF NeverInv, Types, TypesQueue
<1>2. TypesProtocol' /\ left' \in [Axes -> Int] /\ blocked' \subseteq Motors /\ unhomed' \subseteq Axes
  BY DEF NeverInv, Types, TypesProtocol, TypesMotion, TypesPins, TypesCycle
<1>3. Interrupted' /\ Quiet'
  BY <1>1 DEF Interrupted, Quiet
<1> QED BY <1>1, <1>2, <1>3, AsideNever

LEMMA UnlockNever == ASSUME NeverInv, Unlock PROVE NeverInv'
<1> USE DEF Unlock, AcceptsLine, pins, engine, motion, counts
<1>1. queue \in Seq(Entry) /\ task # "settle" /\ Fewer(queue, queue')
  BY NoFewer DEF NeverInv, Types, TypesQueue
<1>2. TypesProtocol' /\ left' \in [Axes -> Int] /\ blocked' \subseteq Motors /\ unhomed' \subseteq Axes
  BY DEF NeverInv, Types, TypesProtocol, TypesMotion, TypesPins, TypesCycle
<1>3. Interrupted' /\ Quiet'
  BY <1>1 DEF Interrupted, Quiet
<1> QED BY <1>1, <1>2, <1>3, AsideNever

LEMMA CommandNever == ASSUME NeverInv, NEW c \in Commands, Command(c) PROVE NeverInv'
<1> USE DEF Command, cycle, pins, engine, motion
<1>1. queue \in Seq(Entry)
  BY DEF NeverInv, Types, TypesQueue
<1>2. TypesProtocol' /\ left' \in [Axes -> Int] /\ blocked' \subseteq Motors /\ unhomed' \subseteq Axes
  BY HomingAssumption DEF NeverInv, Types, TypesProtocol, TypesMotion, TypesPins, TypesCycle
<1>3. CASE queue' = queue
  <2>1. Interrupted' /\ Quiet'
    BY <1>3 DEF NeverInv, Interrupted, Quiet, Approaching
  <2> QED BY <1>1, <1>2, <1>3, <2>1, NoFewer, AsideNever
<1>4. CASE c \in {"reset", "sleep"} /\ queue' = Append(queue, Event(c))
  <2>1. Event(c) \in Entry /\ Event(c).kind = c
    BY <1>4, Entries
  <2>2. Fewer(queue, queue') /\ queue' \in Seq(Entry)
    BY <1>1, <1>4, <2>1, FewerAppend DEF Pins
  <2>3. \A k : Queued(queue', k) <=> Queued(queue, k) \/ c = k
    BY <1>1, <1>4, <2>1, AppendHas
  <2>4. Interrupted'
    BY <2>3 DEF NeverInv, Interrupted
  <2>5. Quiet'
    BY <1>4, <2>3 DEF NeverInv, Quiet, Approaching
  <2> QED BY <1>2, <2>2, <2>4, <2>5, AsideNever
<1> QED BY <1>3, <1>4, HomingAssumption

LEMMA RunDryNever == ASSUME NeverInv, RunDry PROVE NeverInv'
<1> USE DEF RunDry, protocol, cycle, pins, engine, counts
<1>1. queue \in Seq(Entry) /\ task # "settle"
  BY DEF NeverInv, Types, TypesQueue, Phases
<1>2. TypesProtocol' /\ left' \in [Axes -> Int] /\ blocked' \subseteq Motors /\ unhomed' \subseteq Axes
  BY DEF NeverInv, Types, TypesProtocol, TypesMotion, TypesPins, TypesCycle
<1>3. Event("cycleStop") \in Entry /\ Event("cycleStop").kind = "cycleStop"
  BY Entries
<1>4. Fewer(queue, queue') /\ queue' \in Seq(Entry)
  BY <1>1, <1>3, FewerAppend DEF Pins
<1>5. Queued(queue, "alarm") => Queued(queue', "alarm")
  BY <1>1, <1>3, AppendHas
<1>6. Interrupted' /\ Quiet'
  BY <1>1, <1>5 DEF NeverInv, Interrupted, Quiet
<1> QED BY <1>1, <1>2, <1>4, <1>6, AsideNever

LEMMA BehindHas == \A q, m : Behind(q, m) => Has(q, "pinActive", m) /\ Queued(q, "cycleStart")
BY DEF Behind, Has, Queued

LEMMA PinActiveNever == ASSUME NeverInv, PinActive PROVE NeverInv'
<1> DEFINE m == Head(queue).of
<1> USE DEF NeverInv
<1>1. /\ queue \in Seq(Entry) /\ queue # <<>> /\ Head(queue) \in Entry
      /\ Rest \in Seq(Entry) /\ task # "settle" /\ Head(queue).kind = "pinActive"
      /\ Queued(queue, "alarm") => Queued(Rest, "alarm")
  BY Handled DEF PinActive, Takes
<1>2. /\ mask' = mask \cup {m}
      /\ armed' = IF Approaching THEN armed \ {m} ELSE armed
      /\ limited' = IF Approaching THEN limited \cup {m} ELSE limited
      /\ queue' = Append(Rest, [kind |-> "limit", of |-> m])
      /\ UNCHANGED <<state, task, door, abort, suspended, moving, sysMotion>>
      /\ UNCHANGED <<phase, runs, remaining, cycleAxes, phaseAxes, phaseMotors, unhomed>>
      /\ UNCHANGED <<seen, blocked, pos, plan, left>>
  BY DEF PinActive, protocol, cycle, motion
<1>3. m \in Motors
  BY <1>1, EntryOf DEF Pins
<1>4. Has(queue, "pinActive", m) /\ ~Has(Rest, "pinActive", m) /\ ~Has(Rest, "pinInactive", m)
  BY <1>1, <1>3, TailHas, TailOrder DEF Noticed, Pins, Rest
<1> HIDE DEF m
<1>5. m \in armed /\ m \in seen /\ Active(m)
  BY <1>3, <1>4 DEF Watched, Noticed
<1>6. [kind |-> "limit", of |-> m] \in Entry
  BY <1>3, Entries
<1>7. Fewer(queue, queue') /\ queue' \in Seq(Entry)
  BY <1>1, <1>2, <1>6, FewerBoth DEF Pins, Rest
<1>8. ~Has(queue', "pinActive", m) /\ ~Has(queue', "pinInactive", m)
  BY <1>1, <1>2, <1>4, <1>6, AppendHas
<1>9. Types'
  BY <1>2, <1>3, <1>7 DEF Types, TypesProtocol, TypesCycle, TypesPins, TypesMotion, TypesQueue
<1>10. Directed' /\ Planned' /\ Phases'
  BY <1>2 DEF Directed, Planned, Points, Phases, Approaching
<1>11. Watched'
  BY <1>2, <1>5, <1>7, <1>8 DEF Watched, Fewer
<1>12. Closed'
  BY <1>2, <1>5 DEF Closed, Approaching, Mine, Active
<1>13. AllClosed' /\ Whole' /\ Opened' /\ Quiet'
  BY <1>1, <1>2 DEF AllClosed, Whole, Opened, Quiet, Approaching, Mine
<1>14. Noticed' /\ Late'
  BY <1>2, <1>7 DEF Noticed, Late, Fewer, Active, Approaching, Mine
<1>15. Unnoticed' /\ NeverPastSwitch'
  <2>1. armed' \subseteq armed
    BY <1>2
  <2>2. UNCHANGED <<pos, seen, phase, cycleAxes>>
    BY <1>2
  <2> QED BY <2>1, <2>2 DEF Unnoticed, NeverPastSwitch, Active, Approaching, Mine
<1>16. Interrupted'
  <2> DEFINE e == [kind |-> "limit", of |-> m]
  <2> HIDE DEF e
  <2>1. e \in Entry /\ queue' = Append(Rest, e)
    BY <1>2, <1>6 DEF e
  <2>2. Queued(Append(Rest, e), "alarm") <=> Queued(Rest, "alarm") \/ e.kind = "alarm"
    BY <1>1, <2>1, AppendHas
  <2> QED BY <1>1, <1>2, <2>1, <2>2 DEF Interrupted
<1> QED BY <1>9, <1>10, <1>11, <1>12, <1>13, <1>14, <1>15, <1>16

LEMMA PinInactiveNever == ASSUME NeverInv, PinInactive PROVE NeverInv'
<1> DEFINE m == Head(queue).of
<1> USE DEF NeverInv
<1>1. /\ queue \in Seq(Entry) /\ queue # <<>> /\ Head(queue).kind = "pinInactive"
      /\ Rest \in Seq(Entry) /\ Fewer(queue, Rest) /\ task # "settle"
      /\ Queued(queue, "alarm") => Queued(Rest, "alarm")
  BY Handled DEF PinInactive, Takes
<1>2. /\ mask' = mask \ {m} /\ limited' = limited \ {m} /\ queue' = Rest
      /\ UNCHANGED <<state, task, door, abort, suspended, moving, sysMotion>>
      /\ UNCHANGED <<phase, runs, remaining, cycleAxes, phaseAxes, phaseMotors, unhomed>>
      /\ UNCHANGED <<armed, seen, blocked, pos, plan, left>>
  BY DEF PinInactive, protocol, cycle, motion
<1>3. Has(queue, "pinInactive", m)
  BY <1>1, TailHas
<1> HIDE DEF m
<1>4. \A x \in Motors \ armed : x # m
  BY <1>3 DEF Watched
<1>5. Types'
  BY <1>1, <1>2 DEF Types, TypesProtocol, TypesCycle, TypesPins, TypesMotion, TypesQueue
<1>6. Directed' /\ Planned' /\ Phases'
  BY <1>2 DEF Directed, Planned, Points, Phases, Approaching
<1>7. Watched'
  BY <1>1, <1>2, <1>4 DEF Watched, Fewer
<1>8. Closed'
  BY <1>2, <1>4, Motors1 DEF Closed, Approaching, Mine, Active
<1>9. AllClosed' /\ Whole' /\ Opened' /\ Quiet'
  BY <1>1, <1>2 DEF AllClosed, Whole, Opened, Quiet, Approaching, Mine
<1>10. Noticed' /\ Late'
  BY <1>1, <1>2 DEF Noticed, Late, Fewer, Active, Approaching, Mine
<1>11. Unnoticed' /\ NeverPastSwitch' /\ Interrupted'
  BY <1>1, <1>2 DEF Unnoticed, NeverPastSwitch, Interrupted, Active, Approaching, Mine
<1> QED BY <1>5, <1>6, <1>7, <1>8, <1>9, <1>10, <1>11

LEMMA LimitReachedNever == ASSUME NeverInv, LimitReached PROVE NeverInv'
<1> USE DEF NeverInv
<1>1. /\ Rest \in Seq(Entry) /\ Fewer(queue, Rest) /\ task # "settle"
      /\ Queued(queue, "alarm") => Queued(Rest, "alarm")
  BY Handled DEF LimitReached, Takes
<1>2. /\ UNCHANGED <<state, door, abort, suspended, mask, armed, seen, blocked, pos, sysMotion>>
      /\ UNCHANGED <<phase, runs, remaining, cycleAxes, unhomed>>
  BY DEF LimitReached, pins, cycle, motion
<1>3. CASE state # "Homing" \/ ~Approaching
  <2>1. queue' = Rest /\ UNCHANGED <<task, phaseAxes, phaseMotors, limited, plan, left, moving>>
    BY <1>3 DEF LimitReached, cycle, motion
  <2>2. TypesProtocol' /\ left' \in [Axes -> Int] /\ blocked' \subseteq Motors /\ unhomed' \subseteq Axes
    BY <1>2, <2>1 DEF Types, TypesProtocol, TypesMotion, TypesPins, TypesCycle
  <2>3. Interrupted' /\ Quiet'
    BY <1>1, <1>2, <2>1 DEF Interrupted, Quiet
  <2> QED BY <1>1, <1>2, <2>1, <2>2, <2>3, AsideNever DEF pins
<1>4. CASE state = "Homing" /\ Approaching
  <2>1. phaseMotors' = StillMotors /\ phaseAxes' = StillAxes
    BY <1>4 DEF LimitReached
  <2>2. StillMotors \subseteq Mine /\ StillAxes \subseteq cycleAxes /\ Mine \ StillMotors \subseteq mask
        /\ StillMotors \cap mask = {}
    BY <1>4 DEF Closed, StillMotors, StillAxes, Mine, MotorsOf
  <2>3. \/ UNCHANGED <<moving, left>>
        \/ moving' = FALSE /\ left' = Still
    BY <1>4 DEF LimitReached, StopMotion, motion
  <2>4. \/ UNCHANGED task
        \/ task' = "settle" /\ moving' = FALSE /\ StillAxes = {}
    BY <1>4 DEF LimitReached, StopMotion
  <2>5. \/ queue' = Rest /\ UNCHANGED <<limited, plan>>
        \/ HomingMove(StillAxes, StillMotors, phase, Rest)
    BY <1>4 DEF LimitReached, motion
  <2>6. phase \in PrePulloff .. Pulloff2
    BY <1>4 DEF Phases
  <2>7. plan' \in [Axes -> Int] /\ Planned'
    <3>1. CASE UNCHANGED plan
      BY <1>2, <3>1 DEF Types, TypesMotion, Planned, Points, Approaching
    <3>2. CASE HomingMove(StillAxes, StillMotors, phase, Rest)
      BY <1>2, <2>2, <2>6, <3>2, MovePlans
    <3> QED BY <2>5, <3>1, <3>2
  <2>8. limited' \subseteq limited /\ limited \ StillMotors \subseteq limited'
    BY <2>5 DEF HomingMove, Released
  <2>9. /\ Fewer(queue, queue') /\ queue' \in Seq(Entry)
        /\ Queued(Rest, "alarm") => Queued(queue', "alarm")
    <3>1. CASE queue' = Rest
      BY <1>1, <3>1
    <3>2. CASE queue' = Append(Rest, Event("cycleStart"))
      <4>1. Event("cycleStart") \in Entry /\ Event("cycleStart").kind = "cycleStart"
        BY Entries
      <4>2. Fewer(Rest, queue') /\ queue' \in Seq(Entry)
        BY <1>1, <3>2, <4>1, FewerAppend DEF Pins
      <4>3. Queued(Rest, "alarm") => Queued(queue', "alarm")
        BY <1>1, <3>2, <4>1, AppendHas
      <4> QED BY <1>1, <4>2, <4>3 DEF Fewer
    <3> QED BY <2>5, <3>1, <3>2 DEF HomingMove
  <2>10. Types'
    <3>1. TypesProtocol'
      BY <1>2, <2>3, <2>4 DEF Types, TypesProtocol
    <3>2. TypesCycle' /\ TypesPins'
      BY <1>2, <2>1, <2>2, <2>8, Motors1 DEF Types, TypesCycle, TypesPins, Mine
    <3>3. TypesMotion' /\ TypesQueue'
      BY <1>2, <2>3, <2>7, <2>9, Stopped DEF Types, TypesMotion, TypesQueue
    <3> QED BY <3>1, <3>2, <3>3 DEF Types
  <2>11. Directed' /\ Phases'
    BY <1>1, <1>2, <1>4, <2>3, <2>4, <2>6 DEF Directed, Points, Phases, Approaching
  <2>12. Watched' /\ Noticed' /\ Unnoticed'
    BY <1>2, <2>9 DEF Watched, Noticed, Unnoticed, Fewer, Approaching, Mine, Active
  <2>13. Closed'
    BY <1>2, <1>4, <2>1, <2>2, <2>8 DEF Closed, Approaching, Mine, Active
  <2>14. AllClosed'
    <3>1. StillAxes = {} => Mine \subseteq mask
      BY <2>2 DEF StillAxes
    <3> QED BY <1>1, <1>2, <2>4, <3>1 DEF AllClosed, Mine
  <2>15. Whole' /\ Opened' /\ Quiet'
    BY <1>2, <1>4 DEF Whole, Opened, Quiet, Approaching
  <2>16. Late'
    BY <1>2, <2>3, <2>9 DEF Late, Fewer, Approaching, Mine
  <2>17. Interrupted' /\ NeverPastSwitch'
    BY <1>1, <1>2, <2>9 DEF Interrupted, NeverPastSwitch
  <2> QED BY <2>7, <2>10, <2>11, <2>12, <2>13, <2>14, <2>15, <2>16, <2>17
<1> QED BY <1>3, <1>4

LEMMA CycleStartNever == ASSUME NeverInv, CycleStart PROVE NeverInv'
<1> USE DEF NeverInv
<1>1. /\ queue \in Seq(Entry) /\ queue # <<>> /\ Head(queue).kind = "cycleStart"
      /\ Rest \in Seq(Entry) /\ Fewer(queue, Rest) /\ task # "settle"
      /\ Queued(queue, "alarm") => Queued(Rest, "alarm")
  BY Handled DEF CycleStart, Takes
<1>2. /\ queue' = Rest
      /\ UNCHANGED <<state, task, door, abort, mask, armed, seen, limited, blocked, pos, plan>>
      /\ UNCHANGED <<phase, runs, remaining, cycleAxes, phaseAxes, phaseMotors, unhomed>>
      /\ suspended' \in BOOLEAN /\ sysMotion' \in BOOLEAN
  BY DEF CycleStart, cycle, pins, engine, Types, TypesProtocol
<1>3. \/ UNCHANGED <<moving, left>>
      \/ moving' = TRUE /\ ~moving /\ left' = plan
      \/ moving' = TRUE /\ moving /\ left' = left
  BY DEF CycleStart, Types, TypesProtocol
<1>4. Types'
  BY <1>1, <1>2, <1>3 DEF Types, TypesProtocol, TypesCycle, TypesPins, TypesMotion, TypesQueue
<1>5. Directed' /\ Planned'
  BY <1>2, <1>3 DEF Directed, Planned, Points, Approaching
<1>6. Phases' /\ AllClosed' /\ Whole' /\ Opened' /\ Quiet'
  BY <1>1, <1>2 DEF Phases, AllClosed, Whole, Opened, Quiet, Approaching, Mine
<1>7. Watched' /\ Noticed' /\ Unnoticed'
  BY <1>1, <1>2 DEF Watched, Noticed, Unnoticed, Fewer, Approaching, Mine, Active
<1>8. Closed' /\ Interrupted' /\ NeverPastSwitch'
  BY <1>1, <1>2 DEF Closed, Interrupted, NeverPastSwitch, Approaching, Mine, Active
<1>9. ASSUME NEW m \in Motors, Behind(queue', m) \/ Has(queue', "pinActive", m)
      PROVE  Approaching /\ m \in Mine
  <2>1. Has(Rest, "pinActive", m)
    BY <1>2, <1>9, BehindHas
  <2>2. Behind(queue, m)
    BY <1>1, <2>1, TailOrder DEF Rest
  <2> QED BY <2>2 DEF Late
<1>10. Late'
  BY <1>2, <1>9 DEF Late, Approaching, Mine
<1> QED BY <1>4, <1>5, <1>6, <1>7, <1>8, <1>10

LEMMA CycleStopNever == ASSUME NeverInv, CycleStop PROVE NeverInv'
<1> USE DEF NeverInv
<1>1. /\ Rest \in Seq(Entry) /\ Fewer(queue, Rest) /\ task # "settle"
      /\ Queued(queue, "alarm") => Queued(Rest, "alarm")
  BY Handled DEF CycleStop, Takes
<1>2. /\ UNCHANGED <<state, door, abort, mask, seen, limited, pos, plan>>
      /\ UNCHANGED <<phase, runs, remaining, cycleAxes, phaseAxes, phaseMotors, unhomed>>
  BY DEF CycleStop, cycle
<1>3. CASE /\ state = "Homing" /\ Approaching
           /\ Fail("approach", Rest)
           /\ UNCHANGED <<task, suspended, armed, sysMotion>>
  <2>1. Alarm("approach") \in Entry /\ Alarm("approach").kind = "alarm"
    BY Entries DEF Causes
  <2>2. queue' = Append(Rest, Alarm("approach")) /\ moving' = FALSE /\ left' = Still /\ blocked' \subseteq blocked
    BY <1>3 DEF Fail, StopMotion
  <2>3. Fewer(queue, queue') /\ queue' \in Seq(Entry)
    BY <1>1, <2>1, <2>2, FewerAppend DEF Pins, Fewer
  <2>4. TypesProtocol' /\ left' \in [Axes -> Int] /\ blocked' \subseteq Motors /\ unhomed' \subseteq Axes
    BY <1>2, <1>3, <2>2, Stopped DEF Types, TypesProtocol, TypesPins, TypesCycle
  <2>5. Queued(queue', "alarm")
    BY <1>1, <2>1, <2>2, AppendHas
  <2>6. Interrupted' /\ Quiet'
    BY <1>1, <1>3, <2>5 DEF Interrupted, Quiet
  <2> QED BY <1>2, <1>3, <2>2, <2>3, <2>4, <2>6, AsideNever DEF pins
<1>4. CASE /\ state = "Homing" /\ ~Approaching
           /\ task' = "dwell"
           /\ armed' = Rearmed.armed
           /\ queue' = Rest \o SetToSeq([kind : {"pinInactive"}, of : Rearmed.opened])
           /\ UNCHANGED <<suspended, blocked, left, moving, sysMotion>>
  <2> DEFINE O == Rearmed.opened
             r == SetToSeq([kind : {"pinInactive"}, of : O])
  <2>1. /\ O \subseteq Motors \ armed /\ O \subseteq armed'
        /\ armed \subseteq armed' /\ armed' \subseteq Motors
        /\ armed' \subseteq armed \cup phaseMotors
    BY <1>4 DEF Rearmed, Types, TypesPins, TypesCycle
  <2>2. r \in Seq(Entry) /\ \A i \in DOMAIN r : r[i].kind = "pinInactive" /\ r[i].of \in O
    BY <2>1, OpenReports
  <2>3. queue' = Rest \o r
    BY <1>4
  <2> HIDE DEF O, r
  <2>4. queue' \in Seq(Entry)
    BY <1>1, <2>2, <2>3, ConcatIs
  <2>5. \A m : /\ Has(queue', "pinActive", m) => Has(Rest, "pinActive", m)
               /\ Has(queue', "pinInactive", m) => Has(Rest, "pinInactive", m) \/ m \in O
    <3>1. \A m : /\ ~Has(r, "pinActive", m)
                 /\ Has(r, "pinInactive", m) => m \in O
      BY <2>2 DEF Has
    <3> QED BY <1>1, <2>2, <2>3, <3>1, ConcatHas
  <2>6. \A m \in Motors \ armed : ~Has(Rest, "pinActive", m) /\ ~Has(Rest, "pinInactive", m)
    BY <1>1 DEF Watched, Fewer
  <2>7. ASSUME NEW m \in Motors
        PROVE  /\ Doubled(queue', m) => Doubled(Rest, m)
               /\ Behind(queue', m) => Behind(Rest, m)
    <3>1. \A i \in DOMAIN r : r[i].kind = "pinInactive" /\ (r[i].of = m => ~Has(Rest, "pinActive", m))
      BY <2>1, <2>2, <2>6
    <3> QED BY <1>1, <2>2, <2>3, <3>1, ConcatOrder
  <2>8. Types'
    <3>1. TypesProtocol' /\ TypesCycle'
      BY <1>2, <1>4 DEF Types, TypesProtocol, TypesCycle
    <3>2. TypesPins' /\ TypesMotion' /\ TypesQueue'
      BY <1>2, <1>4, <2>1, <2>4 DEF Types, TypesPins, TypesMotion, TypesQueue
    <3> QED BY <3>1, <3>2 DEF Types
  <2>9. Directed' /\ Planned'
    BY <1>2, <1>4 DEF Directed, Planned, Points, Approaching
  <2>10. Phases'
    BY <1>2, <1>4 DEF Phases, Approaching, PrePulloff, FastApproach, Pulloff0, SlowApproach, Pulloff1, Pulloff2
  <2>11. Watched'
    BY <1>2, <2>1, <2>5, <2>6 DEF Watched
  <2>12. Closed' /\ AllClosed'
    BY <1>2, <1>4 DEF Closed, AllClosed, Approaching
  <2>13. Whole' /\ Opened' /\ Quiet'
    BY <1>1, <1>2, <1>4 DEF Whole, Opened, Quiet, Mine, Approaching, Types, TypesProtocol
  <2>14. Noticed'
    BY <1>1, <1>2, <2>5, <2>7 DEF Noticed, Fewer, Active
  <2>15. Unnoticed'
    BY <1>2, <2>1 DEF Unnoticed, Watched, Active, Approaching, Mine
  <2>16. Late'
    BY <1>1, <1>2, <1>4, <2>5, <2>7 DEF Late, Fewer, Approaching, Mine
  <2>17. Queued(Rest, "alarm") => Queued(queue', "alarm")
    BY <1>1, <2>2, <2>3, ConcatHas
  <2>18. Interrupted' /\ NeverPastSwitch'
    BY <1>1, <1>2, <2>17 DEF Interrupted, NeverPastSwitch
  <2> QED BY <2>8, <2>9, <2>10, <2>11, <2>12, <2>13, <2>14, <2>15, <2>16, <2>18
<1>5. CASE /\ queue' = Rest
           /\ sysMotion' = (sysMotion /\ state \in {"Idle", "Alarm"})
           /\ suspended' = (suspended /\ state # "Idle")
           /\ UNCHANGED <<task, armed, blocked, left, moving>>
  <2>1. TypesProtocol' /\ left' \in [Axes -> Int] /\ blocked' \subseteq Motors /\ unhomed' \subseteq Axes
    BY <1>2, <1>5 DEF Types, TypesProtocol, TypesPins, TypesMotion, TypesCycle
  <2>2. Interrupted' /\ Quiet'
    BY <1>1, <1>2, <1>5 DEF Interrupted, Quiet
  <2> QED BY <1>1, <1>2, <1>5, <2>1, <2>2, AsideNever DEF pins
<1> QED BY <1>3, <1>4, <1>5 DEF CycleStop

LEMMA DwellEndNever == ASSUME NeverInv, DwellEnd PROVE NeverInv'
<1> USE DEF NeverInv
<1>1. /\ task = "dwell" /\ queue = <<>> /\ queue \in Seq(Entry)
      /\ moving' = FALSE /\ left' = Still /\ blocked' \subseteq blocked
      /\ UNCHANGED <<state, door, abort, suspended, phase, runs, remaining, cycleAxes, phaseAxes, unhomed>>
      /\ UNCHANGED <<mask, armed, seen, limited, pos, plan, sysMotion>>
  BY DEF DwellEnd, Fail, StopMotion, pins, Types, TypesQueue
<1>2. phase \in {PrePulloff, Pulloff0, Pulloff1, Pulloff2} /\ ~Approaching /\ phaseMotors = Mine
  BY <1>1 DEF Phases, Whole, Approaching, PrePulloff, FastApproach, Pulloff0, SlowApproach, Pulloff1, Pulloff2
<1>3. \/ task' = "loop" /\ phaseMotors' = phaseMotors /\ queue' = Append(queue, Alarm("pulloff"))
      \/ task' = "settle" /\ phaseMotors' = {} /\ queue' = queue /\ mask \cap phaseMotors = {}
  BY DEF DwellEnd, Fail
<1>4. /\ Fewer(queue, queue') /\ queue' \in Seq(Entry)
      /\ Queued(queue, "alarm") => Queued(queue', "alarm")
  <2>1. Alarm("pulloff") \in Entry /\ Alarm("pulloff").kind = "alarm"
    BY Entries DEF Causes
  <2> QED BY <1>1, <1>3, <2>1, FewerAppend, NoFewer, AppendHas DEF Pins
<1>5. Types'
  <2>1. TypesProtocol' /\ TypesCycle'
    BY <1>1, <1>3 DEF Types, TypesProtocol, TypesCycle
  <2>2. TypesPins' /\ TypesMotion' /\ TypesQueue'
    BY <1>1, <1>4, Stopped DEF Types, TypesPins, TypesMotion, TypesQueue
  <2> QED BY <2>1, <2>2 DEF Types
<1>6. Directed' /\ Planned'
  BY <1>1 DEF Directed, Planned, Points, Approaching
<1>7. Phases'
  BY <1>1, <1>2, <1>3 DEF Phases, Approaching, PrePulloff, FastApproach, Pulloff0, SlowApproach, Pulloff1, Pulloff2
<1>8. Watched' /\ Noticed' /\ Unnoticed' /\ Late'
  BY <1>1, <1>4 DEF Watched, Noticed, Unnoticed, Late, Fewer, Active, Approaching, Mine
<1>9. Closed' /\ AllClosed' /\ Whole' /\ Opened'
  BY <1>1, <1>2, <1>3 DEF Closed, AllClosed, Whole, Opened, Approaching, Mine
<1>10. Quiet'
  <2>1. \A k : ~Queued(queue, k)
    BY <1>1 DEF Queued
  <2> QED BY <1>3, <2>1 DEF Quiet
<1>11. Interrupted' /\ NeverPastSwitch'
  BY <1>1, <1>4 DEF Interrupted, NeverPastSwitch
<1> QED BY <1>5, <1>6, <1>7, <1>8, <1>9, <1>10, <1>11

(* A phase is entered by a planned motion, with no switch unnoticed.         *)
LEMMA RunPhaseNever ==
    ASSUME NeverInv, NEW axes, axes \subseteq Axes, NEW ph \in PrePulloff .. Pulloff2,
           RunPhase(axes, ph, queue), cycleAxes' = axes,
           ph \in {FastApproach, SlowApproach} => mask \cap MotorsOf(axes) = {},
           \A m \in armed : Active(m) => m \in seen,
           \A m \in Motors : ~Behind(queue, m),
           task' = "loop", ~moving, UNCHANGED <<moving, left, abort, pins, pos>>,
           TypesProtocol', blocked' \subseteq Motors, unhomed' \subseteq Axes, runs' \in Int,
           remaining' \in Seq((SUBSET Axes) \ {{}}),
           state' = "Homing" /\ abort => Queued(queue, "alarm")
    PROVE  NeverInv'
<1> USE DEF NeverInv, pins
<1>1. /\ phase' = ph /\ phaseAxes' = axes /\ phaseMotors' = MotorsOf(axes) /\ MotorsOf(axes) = Mine'
      /\ HomingMove(axes, MotorsOf(axes), ph, queue)
  BY DEF RunPhase, Mine
<1>2. queue' = Append(queue, Event("cycleStart")) /\ limited' = limited \ MotorsOf(axes)
  BY <1>1 DEF HomingMove, Released
<1>3. queue \in Seq(Entry) /\ Event("cycleStart") \in Entry /\ Event("cycleStart").kind = "cycleStart"
  BY Entries DEF Types, TypesQueue
<1>4. Fewer(queue, queue') /\ queue' \in Seq(Entry) /\ (Queued(queue, "alarm") => Queued(queue', "alarm"))
  BY <1>2, <1>3, FewerAppend, AppendHas DEF Pins
<1>5. plan' \in [Axes -> Int] /\ Planned'
  BY <1>1, MovePlans
<1>6. Types'
  <2>1. TypesCycle'
    BY <1>1, Motors1 DEF Types, TypesCycle, None, PrePulloff, Pulloff2, CycleDone
  <2>2. TypesPins' /\ TypesMotion' /\ TypesQueue'
    BY <1>2, <1>4, <1>5 DEF Types, TypesPins, TypesMotion, TypesQueue
  <2> QED BY <2>1, <2>2 DEF Types
<1>7. Directed' /\ Phases' /\ AllClosed' /\ Opened' /\ Quiet'
  BY <1>1 DEF Directed, Phases, AllClosed, Opened, Quiet
<1>8. Watched' /\ Noticed'
  BY <1>4 DEF Watched, Noticed, Fewer, Active
<1>9. Closed'
  BY <1>1, <1>2 DEF Closed, Approaching
<1>10. Whole'
  BY <1>1 DEF Whole
<1>11. Unnoticed' /\ Late'
  BY <1>4 DEF Unnoticed, Late, Fewer, Active
<1>12. Interrupted' /\ NeverPastSwitch'
  BY <1>4 DEF Interrupted, NeverPastSwitch
<1> QED BY <1>5, <1>6, <1>7, <1>8, <1>9, <1>10, <1>11, <1>12

(* The phase that follows.                                                   *)
LEMMA FollowingIs ==
    ASSUME phase \in PrePulloff .. Pulloff2, runs \in Int
    PROVE  /\ Following.phase \in PrePulloff .. CycleDone /\ Following.runs \in Int
           /\ EndsCycle(Following.phase) \/ Following.phase \in PrePulloff .. Pulloff2
           /\ Approaching => Following.phase \notin {FastApproach, SlowApproach}
           /\ EndsCycle(Following.phase) => ~Approaching /\ Following.phase \in {Pulloff2, CycleDone}
<1> USE DEF PrePulloff, FastApproach, Pulloff0, SlowApproach, Pulloff1, Pulloff2, CycleDone
<1>1. CASE phase + 1 = 4 /\ runs = 1
  BY <1>1 DEF Following, EndsCycle, Approaching
<1>2. CASE ~(phase + 1 = 4 /\ runs = 1) /\ phase + 1 # 6
  <2>1. Following = [phase |-> phase + 1, runs |-> runs]
    BY <1>2 DEF Following
  <2> QED BY <1>2, <2>1 DEF EndsCycle, Approaching
<1>3. CASE phase + 1 = 6
  BY <1>3 DEF Following, EndsCycle, Approaching
<1> QED BY <1>1, <1>2, <1>3

(* No report is late when a phase ends.                                      *)
LEMMA SettledClear ==
    ASSUME NeverInv, task = "settle"
    PROVE  /\ ~moving /\ phase \in PrePulloff .. Pulloff2 /\ runs \in Int
           /\ \A m \in armed : Active(m) => m \in seen
           /\ \A m \in Motors : ~Behind(queue, m)
<1> USE DEF NeverInv
<1>1. ~moving /\ phase \in PrePulloff .. Pulloff2 /\ runs \in Int
  BY DEF Phases, Types, TypesCycle
<1>2. Approaching => \A m \in Mine : m \notin armed /\ ~Has(queue, "pinActive", m)
  BY Motors1 DEF AllClosed, Closed, Watched, Mine
<1>3. ASSUME NEW m \in armed, Active(m) PROVE m \in seen
  BY <1>2, <1>3 DEF Unnoticed
<1>4. ASSUME NEW m \in Motors PROVE ~Behind(queue, m)
  BY <1>2, BehindHas DEF Late
<1> QED BY <1>1, <1>3, <1>4

LEMMA SettledNever == ASSUME NeverInv, Settled PROVE NeverInv'
<1> USE DEF NeverInv
<1>1. /\ task = "settle" /\ task' = "loop" /\ NextPhase
      /\ UNCHANGED <<door, abort, suspended, pins, pos, counts>>
  BY DEF Settled
<1>2. /\ ~moving /\ phase \in PrePulloff .. Pulloff2 /\ runs \in Int
      /\ \A m \in armed : Active(m) => m \in seen
      /\ \A m \in Motors : ~Behind(queue, m)
  BY <1>1, SettledClear
<1> DEFINE f == Following
<1>3. /\ f.phase \in PrePulloff .. CycleDone /\ f.runs \in Int
      /\ EndsCycle(f.phase) \/ f.phase \in PrePulloff .. Pulloff2
      /\ Approaching => f.phase \notin {FastApproach, SlowApproach}
      /\ EndsCycle(f.phase) => ~Approaching /\ f.phase \in {Pulloff2, CycleDone}
  BY <1>2, FollowingIs
<1>4. \/ EndsCycle(f.phase) /\ EndCycle(f.phase)
      \/ /\ ~EndsCycle(f.phase)
         /\ RunPhase(cycleAxes, f.phase, queue)
         /\ runs' = f.runs
         /\ blocked' = blocked \cup Blocking(f.phase, cycleAxes)
         /\ UNCHANGED <<state, remaining, cycleAxes, unhomed, left, moving, sysMotion>>
  BY <1>1 DEF NextPhase
<1> HIDE DEF f
<1>5. CASE ~EndsCycle(f.phase)
  <2>1. /\ RunPhase(cycleAxes, f.phase, queue) /\ runs' = f.runs
        /\ blocked' = blocked \cup Blocking(f.phase, cycleAxes)
        /\ UNCHANGED <<state, remaining, cycleAxes, unhomed, left, moving, sysMotion>>
    BY <1>4, <1>5
  <2>2. blocked' \subseteq Motors
    BY <2>1 DEF Types, TypesPins, Blocking, MotorsOf
  <2>3. cycleAxes \subseteq Axes /\ unhomed' \subseteq Axes /\ remaining' \in Seq((SUBSET Axes) \ {{}})
    BY <2>1 DEF Types, TypesCycle
  <2>4. TypesProtocol'
    BY <1>1, <2>1 DEF Types, TypesProtocol
  <2>5. f.phase \in {FastApproach, SlowApproach} => mask \cap MotorsOf(cycleAxes) = {}
    BY <1>1, <1>3 DEF Opened, Mine
  <2>6. state' = "Homing" /\ abort => Queued(queue, "alarm")
    BY <2>1 DEF Interrupted
  <2> QED BY <1>1, <1>2, <1>3, <1>5, <2>1, <2>2, <2>3, <2>4, <2>5, <2>6, RunPhaseNever
<1>6. CASE EndsCycle(f.phase)
  <2>1. EndCycle(f.phase) /\ ~Approaching /\ f.phase \in {Pulloff2, CycleDone}
    BY <1>3, <1>4, <1>6
  <2>2. /\ unhomed' \subseteq Axes /\ sysMotion' = FALSE
    BY <2>1 DEF EndCycle, Types, TypesCycle
  <2>3. CASE state # "Alarm" /\ remaining # <<>>
    <3>1. /\ BeginCycle(Head(remaining), Tail(remaining), queue)
          /\ blocked' \subseteq blocked
          /\ UNCHANGED <<state, left, moving>>
      BY <2>1, <2>3 DEF EndCycle
    <3> DEFINE axes == Head(remaining)
               ph == FirstPhase(MotorsOf(axes))
    <3>2. axes \subseteq Axes /\ Tail(remaining) \in Seq((SUBSET Axes) \ {{}})
      <4>1. remaining \in Seq((SUBSET Axes) \ {{}})
        BY DEF Types, TypesCycle
      <4> QED BY <2>3, <4>1, TailIs
    <3>3. /\ cycleAxes' = axes /\ remaining' = Tail(remaining) /\ runs' = HomingRuns
          /\ RunPhase(axes, ph, queue)
      BY <3>1 DEF BeginCycle
    <3>4. ph \in PrePulloff .. Pulloff2 /\ (ph \in {FastApproach, SlowApproach} => mask \cap MotorsOf(axes) = {})
      BY DEF FirstPhase, PrePulloff, FastApproach, SlowApproach, Pulloff2
    <3>5. TypesProtocol'
      BY <1>1, <2>2, <3>1 DEF Types, TypesProtocol
    <3>6. HomingRuns \in Int /\ blocked' \subseteq Motors
      BY <3>1, HomingAssumption DEF Types, TypesPins
    <3>7. state' = "Homing" /\ abort => Queued(queue, "alarm")
      BY <3>1 DEF Interrupted
    <3>8. UNCHANGED <<moving, left, abort, pins, pos>>
      BY <1>1, <3>1
    <3> HIDE DEF axes, ph
    <3> QED BY <1>1, <1>2, <2>2, <3>2, <3>3, <3>4, <3>5, <3>6, <3>7, <3>8, RunPhaseNever
  <2>4. CASE ~(state # "Alarm" /\ remaining # <<>>)
    <3> DEFINE done == state # "Alarm" /\ ~abort
    <3>1. /\ remaining' = <<>> /\ phase' = f.phase
          /\ blocked' = blocked \ MotorsOf(cycleAxes)
          /\ state' = IF ~done THEN state ELSE IF unhomed' = {} THEN "Idle" ELSE "Alarm"
          /\ moving' = (moving /\ ~done)
          /\ runs' = Following.runs
          /\ UNCHANGED <<cycleAxes, phaseAxes, phaseMotors, limited, plan, left, queue>>
      BY <2>1, <2>4 DEF EndCycle
    <3>2. ~Queued(queue, "alarm")
      BY <1>1, <2>1 DEF Quiet
    <3>3. state' # "Homing" /\ state' \in {"Idle", "Alarm", "Homing", "SafetyDoor", "Sleep"}
      BY <2>4, <3>1, <3>2 DEF Interrupted, Types, TypesProtocol
    <3>4. moving' = FALSE /\ UNCHANGED <<armed, mask, seen>>
      BY <1>1, <1>2, <3>1 DEF pins
    <3>5. Types'
      <4>1. TypesProtocol'
        BY <1>1, <2>2, <3>3, <3>4 DEF Types, TypesProtocol
      <4>2. TypesCycle'
        BY <1>3, <2>2, <3>1 DEF Types, TypesCycle, f, None, PrePulloff, CycleDone
      <4>3. TypesPins' /\ TypesMotion' /\ TypesQueue'
        BY <1>1, <3>1, <3>4 DEF Types, TypesPins, TypesMotion, TypesQueue
      <4> QED BY <4>1, <4>2, <4>3 DEF Types
    <3>6. ~Approaching'
      BY <2>1, <3>1 DEF Approaching, Pulloff2, CycleDone, FastApproach, SlowApproach
    <3>7. Directed' /\ Planned' /\ Phases'
      BY <1>1, <2>1, <3>1, <3>3, <3>4, <3>6 DEF Directed, Planned, Points, Phases
    <3>8. Watched' /\ Noticed'
      BY <1>1, <3>1, <3>4 DEF Watched, Noticed, Active
    <3>9. Closed' /\ AllClosed' /\ Whole' /\ Opened' /\ Quiet' /\ Interrupted'
      BY <1>1, <3>3, <3>6 DEF Closed, AllClosed, Whole, Opened, Quiet, Interrupted
    <3>10. Unnoticed' /\ Late' /\ NeverPastSwitch'
      BY <1>1, <1>2, <3>1, <3>4 DEF Unnoticed, Late, NeverPastSwitch, Active
    <3> QED BY <3>5, <3>7, <3>8, <3>9, <3>10
  <2> QED BY <2>3, <2>4
<1> QED BY <1>5, <1>6

LEMMA HomeNever == ASSUME NeverInv, Home PROVE NeverInv'
<1> USE DEF NeverInv
<1>1. /\ AcceptsLine /\ state' = "Homing"
      /\ UNCHANGED <<task, door, abort, suspended, unhomed, pins, pos, left, moving, sysMotion>>
  BY DEF Home
<1>2. /\ task = "loop" /\ ~abort /\ ~moving /\ Drained /\ Polled
  BY <1>1 DEF AcceptsLine
<1>3. \A m \in armed : Active(m) => m \in seen
  BY <1>2 DEF Polled
<1>4. \A m \in Motors : ~Behind(queue, m)
  BY <1>2, BehindHas DEF Drained, Queued
<1>5. PICK cycles \in Requests :
         /\ BeginCycle(Head(cycles), Tail(cycles), queue)
         /\ blocked' = blocked \ MotorsOf(Head(cycles))
  BY DEF Home
<1>6. cycles \in Seq((SUBSET Axes) \ {{}}) /\ cycles # <<>>
  BY HomingAssumption
<1> DEFINE axes == Head(cycles)
           ph == FirstPhase(MotorsOf(axes))
<1>7. axes \subseteq Axes /\ Tail(cycles) \in Seq((SUBSET Axes) \ {{}})
  BY <1>6, TailIs
<1>8. /\ cycleAxes' = axes /\ remaining' = Tail(cycles) /\ runs' = HomingRuns
      /\ RunPhase(axes, ph, queue)
  BY <1>5 DEF BeginCycle
<1>9. ph \in PrePulloff .. Pulloff2 /\ (ph \in {FastApproach, SlowApproach} => mask \cap MotorsOf(axes) = {})
  BY DEF FirstPhase, PrePulloff, FastApproach, SlowApproach, Pulloff2
<1>10. TypesProtocol' /\ unhomed' \subseteq Axes
  BY <1>1 DEF Types, TypesProtocol, TypesCycle
<1>11. HomingRuns \in Int /\ blocked' \subseteq Motors
  BY <1>5, HomingAssumption DEF Types, TypesPins
<1>12. UNCHANGED <<moving, left, abort, pins, pos>> /\ task' = "loop"
  BY <1>1, <1>2
<1> HIDE DEF axes, ph
<1> QED BY <1>2, <1>3, <1>4, <1>7, <1>8, <1>9, <1>10, <1>11, <1>12, RunPhaseNever

LEMMA PollNever == ASSUME NeverInv, NEW m \in Motors, Poll(m) PROVE NeverInv'
<1> USE DEF NeverInv
<1> DEFINE e == [kind |-> IF Active(m) THEN "pinActive" ELSE "pinInactive", of |-> m]
<1>1. /\ m \in armed /\ Active(m) # (m \in seen)
      /\ seen' = IF Active(m) THEN seen \cup {m} ELSE seen \ {m}
      /\ queue' = Append(queue, e)
      /\ UNCHANGED <<state, task, door, abort, suspended, moving, sysMotion>>
      /\ UNCHANGED <<phase, runs, remaining, cycleAxes, phaseAxes, phaseMotors, unhomed>>
      /\ UNCHANGED <<mask, armed, limited, blocked, pos, plan, left>>
  BY DEF Poll, protocol, cycle, engine, motion
<1>2. /\ e \in Entry /\ e.of = m /\ e.kind \in Pins
      /\ e.kind = "pinActive" => Active(m) /\ m \notin seen /\ m \in seen'
      /\ e.kind # "pinActive" => ~Active(m)
  <2>1. \A k \in Pins : [kind |-> k, of |-> m] \in Entry
    BY Entries
  <2>2. CASE Active(m)
    <3>1. e = [kind |-> "pinActive", of |-> m]
      BY <2>2
    <3>2. m \notin seen /\ seen' = seen \cup {m}
      BY <1>1, <2>2
    <3> QED BY <2>1, <2>2, <3>1, <3>2 DEF Pins
  <2>3. CASE ~Active(m)
    <3>1. e = [kind |-> "pinInactive", of |-> m]
      BY <2>3
    <3> QED BY <2>1, <2>3, <3>1 DEF Pins
  <2> QED BY <2>2, <2>3
<1> HIDE DEF e
<1>3. queue \in Seq(Entry) /\ queue' \in Seq(Entry)
  BY <1>1, <1>2, AppendIs DEF Types, TypesQueue
<1>4. \A k, x : /\ Queued(queue', k) <=> Queued(queue, k) \/ e.kind = k
                /\ Has(queue', k, x) <=> Has(queue, k, x) \/ (e.kind = k /\ m = x)
  BY <1>1, <1>2, <1>3, AppendHas
<1>5. \A x : /\ Doubled(queue', x) => Doubled(queue, x) \/ (m = x /\ Has(queue, "pinActive", m))
             /\ Behind(queue', x) => Behind(queue, x) \/ (m = x /\ e.kind = "pinActive")
  BY <1>1, <1>2, <1>3, AppendOrder
<1>6. ~Has(queue, "pinActive", m)
  BY <1>1, <1>2 DEF Noticed
<1>7. \A x : x # m => (x \in seen' <=> x \in seen)
  BY <1>1
<1>8. Types'
  BY <1>1, <1>3 DEF Types, TypesProtocol, TypesCycle, TypesPins, TypesMotion, TypesQueue
<1>9. Directed' /\ Planned' /\ Phases'
  BY <1>1 DEF Directed, Planned, Points, Phases, Approaching
<1>10. Watched'
  BY <1>1, <1>4, <1>7 DEF Watched
<1>11. Closed' /\ AllClosed' /\ Whole' /\ Opened'
  BY <1>1 DEF Closed, AllClosed, Whole, Opened, Approaching, Mine, Active
<1>12. Noticed'
  <2>1. ASSUME NEW x \in Motors, Has(queue', "pinActive", x) PROVE Active(x) /\ x \in seen'
    BY <1>2, <1>4, <1>7, <2>1, <1>6 DEF Noticed
  <2>2. ASSUME NEW x \in Motors PROVE ~Doubled(queue', x)
    BY <1>5, <1>6 DEF Noticed
  <2> QED BY <1>1, <2>1, <2>2 DEF Noticed, Active
<1>13. Unnoticed'
  <2>1. Active(m) => m \in seen'
    BY <1>1
  <2> QED BY <1>1, <1>7, <2>1 DEF Unnoticed, Active, Approaching, Mine
<1>14. Late'
  <2>1. e.kind = "pinActive" => Approaching /\ m \in Mine
    BY <1>1, <1>2 DEF Unnoticed
  <2> QED BY <1>1, <1>4, <1>5, <2>1 DEF Late, Approaching, Mine
<1>15. Interrupted' /\ NeverPastSwitch'
  BY <1>1, <1>4 DEF Interrupted, NeverPastSwitch
<1>16. Quiet'
  BY <1>1, <1>2, <1>4 DEF Quiet, Approaching, Pins
<1> QED BY <1>8, <1>9, <1>10, <1>11, <1>12, <1>13, <1>14, <1>15, <1>16

LEMMA TickNever == ASSUME NeverInv, NEW a \in Axes, Tick(a) PROVE NeverInv'
<1> USE DEF NeverInv
<1> DEFINE d == IF left[a] > 0 THEN 1 ELSE -1
<1>1. /\ moving /\ left[a] # 0 /\ InTime(a)
      /\ left' = [left EXCEPT ![a] = @ - d]
      /\ pos' = [m \in Motors |-> IF m \in Free(a) THEN pos[m] + d ELSE pos[m]]
      /\ UNCHANGED <<state, task, door, abort, suspended, moving, sysMotion, queue>>
      /\ UNCHANGED <<phase, runs, remaining, cycleAxes, phaseAxes, phaseMotors, unhomed>>
      /\ UNCHANGED <<mask, armed, seen, limited, blocked, plan>>
  BY DEF Tick, protocol, cycle, pins
<1>2. pos \in [Motors -> Int] /\ left \in [Axes -> Int]
  BY DEF Types, TypesMotion
<1>3. /\ d \in {-1, 1}
      /\ d = 1 => ~Approaching /\ left[a] > 0
      /\ d = -1 => Approaching /\ a \in cycleAxes /\ left[a] < 0
  BY <1>1, <1>2 DEF Directed, Points
<1>4. \A m \in Free(a) : m \in Motors /\ AxisOf[m] = a /\ m \notin limited
  BY DEF Free, MotorsOf
<1> HIDE DEF d
<1>5. /\ \A m \in Motors : pos'[m] = IF m \in Free(a) THEN pos[m] + d ELSE pos[m]
      /\ pos' \in [Motors -> Int]
  BY <1>1, <1>2, <1>3
<1>6. /\ left' \in [Axes -> Int] /\ left'[a] = left[a] - d
      /\ \A b \in Axes : b # a => left'[b] = left[b]
  BY <1>1, <1>2, <1>3
<1>7. ASSUME NEW m \in Motors, Active(m), ~Active(m)' PROVE ~Approaching /\ ~Has(queue, "pinActive", m)
  <2>1. d = 1
    BY <1>2, <1>3, <1>5, <1>7 DEF Active
  <2> QED BY <1>1, <1>3, <2>1 DEF Late
<1>8. ASSUME NEW m \in Motors, ~Active(m), Active(m)' PROVE Approaching /\ m \in Mine
  <2>1. m \in Free(a) /\ d = -1
    BY <1>2, <1>3, <1>5, <1>8 DEF Active
  <2> QED BY <1>3, <1>4, <2>1 DEF Mine, MotorsOf
<1>9. Types'
  BY <1>1, <1>5, <1>6 DEF Types, TypesProtocol, TypesCycle, TypesPins, TypesMotion, TypesQueue
<1>10. Directed'
  BY <1>1, <1>2, <1>3, <1>6 DEF Directed, Points, Approaching
<1>11. Planned' /\ Phases'
  BY <1>1 DEF Planned, Points, Phases, Approaching
<1>12. Watched' /\ AllClosed' /\ Whole' /\ Opened'
  BY <1>1 DEF Watched, AllClosed, Whole, Opened, Approaching, Mine
<1>13. Closed'
  BY <1>1, <1>7, Motors1 DEF Closed, Approaching, Mine
<1>14. Noticed'
  BY <1>1, <1>7 DEF Noticed
<1>15. Unnoticed'
  BY <1>1, <1>8 DEF Unnoticed, Approaching, Mine, Types, TypesPins
<1>16. Late' /\ Interrupted' /\ Quiet'
  BY <1>1 DEF Late, Interrupted, Quiet, Approaching, Mine
<1>17. NeverPastSwitch'
  <2>1. ASSUME NEW m \in Motors PROVE pos'[m] >= -Overrun[AxisOf[m]]
    <3>1. pos[m] \in Int /\ Overrun[AxisOf[m]] \in Int /\ pos[m] >= -Overrun[AxisOf[m]]
      BY <1>2, HomingAssumption DEF NeverPastSwitch
    <3>2. CASE m \in Free(a) /\ d = -1
      <4>1. AxisOf[m] = a /\ m \in Mine /\ m \notin limited /\ Approaching
        BY <1>3, <1>4, <3>2 DEF Mine, MotorsOf
      <4>2. m \notin mask /\ m \in armed
        BY <4>1 DEF Closed, Watched
      <4>3. pos[m] > -Overrun[a]
        BY <1>1, <1>2, <1>3, <3>2, <4>2 DEF InTime
      <4> QED BY <1>5, <3>1, <3>2, <4>1, <4>3
    <3>3. CASE ~(m \in Free(a) /\ d = -1)
      BY <1>3, <1>5, <3>1, <3>3
    <3> QED BY <3>2, <3>3
  <2> QED BY <2>1 DEF NeverPastSwitch
<1> QED BY <1>9, <1>10, <1>11, <1>12, <1>13, <1>14, <1>15, <1>16, <1>17

LEMMA NeverStep == NeverInv /\ [Next]_vars => NeverInv'
<1> SUFFICES ASSUME NeverInv, [Next]_vars PROVE NeverInv'
  OBVIOUS
<1>1. CASE UNCHANGED vars
  <2>1. TypesProtocol' /\ left' \in [Axes -> Int] /\ blocked' \subseteq Motors /\ unhomed' \subseteq Axes
        /\ queue' \in Seq(Entry)
    BY <1>1 DEF vars, protocol, cycle, engine, motion, NeverInv, Types, TypesProtocol, TypesMotion,
                TypesPins, TypesCycle, TypesQueue
  <2>2. Interrupted' /\ Quiet' /\ Fewer(queue, queue')
    BY <1>1, NoFewer DEF vars, protocol, cycle, NeverInv, Interrupted, Quiet, Approaching
  <2> QED BY <1>1, <2>1, <2>2, AsideNever DEF vars, protocol, cycle, engine, motion
<1>2. CASE Handle
  BY <1>2, PinActiveNever, PinInactiveNever, LimitReachedNever, CycleStartNever, CycleStopNever,
     AlarmEventNever, ResetNever, RestartNever, SleepNever DEF Handle
<1>3. CASE DwellEnd \/ Settled \/ SafetyDoor \/ LineEnds
  BY <1>3, DwellEndNever, SettledNever, SafetyDoorNever, LineEndsNever
<1>4. CASE Interrupt
  BY <1>4, RunDryNever, TickNever DEF Interrupt
<1>5. CASE Home \/ Unlock \/ (\E m \in Motors : Poll(m)) \/ (\E c \in Commands : Command(c))
  BY <1>5, HomeNever, UnlockNever, PollNever, CommandNever
<1> QED BY <1>1, <1>2, <1>3, <1>4, <1>5 DEF Next, Protocol

(* No carriage is driven past its switch by more than the steps made before  *)
(* its report is handled, in any phase and after any failure: every pin that *)
(* an approach meets is watched or its motor is stopped                      *)
(* (LimitPin.cpp:54-64).                                                     *)
THEOREM SwitchesHold == Spec => []NeverPastSwitch
<1>1. Init => NeverInv
  BY NeverInit
<1>2. NeverInv /\ [Next]_vars => NeverInv'
  BY NeverStep
<1>3. NeverInv => NeverPastSwitch
  BY DEF NeverInv
<1> QED BY <1>1, <1>2, <1>3, PTL DEF Spec

-----------------------------------------------------------------------------
(* The invariant of the homed position.                                      *)

(* The motion of the phase can still be carried out.                         *)
Sound == state = "Homing" /\ ~Queued(queue, "alarm")

(* A restart comes behind an alarm, which ends homing.                       *)
Restarting == state = "Homing" => ~Unled(queue, "alarm", "restart")
Chosen == state = "Homing" => cycleAxes # {}

(* A motor of the approach in the mask has a limit event to be handled.      *)
Limits == Approaching /\ state = "Homing" /\ phaseMotors \cap mask # {} => Queued(queue, "limit")

(* The slow approach starts no higher than the pull-off and goes further     *)
(* down than that by more than the overrun: it does not run dry.             *)
Slowly == phase = SlowApproach /\ state = "Homing"
SlowQueue == Slowly => ~Queued(queue, "cycleStop")
SlowAxes == Slowly =>
    /\ phaseAxes = {AxisOf[m] : m \in phaseMotors}
    /\ task = "loop" => phaseAxes # {}
    /\ \A a \in phaseAxes : plan[a] = -(CommonPulloff(a) + FeedMargin)
SlowLow == Slowly => \A m \in Mine : pos[m] <= CommonPulloff(AxisOf[m])
SlowLeft == Slowly /\ moving =>
    /\ \A a \in phaseAxes : left[a] < 0
    /\ \A m \in Mine \ mask : AxisOf[m] \in phaseAxes => pos[m] + left[AxisOf[m]] <= -FeedMargin

(* Only the last pull-off blocks motors, and no pull-off limits them.        *)
Unblocked == phase \in PrePulloff .. Pulloff1 => blocked \cap Mine = {}
BlockedLast == phase = Pulloff2 /\ Sound => blocked \cap Mine = Blocking(Pulloff2, cycleAxes)
Unlimited == phase \in {Pulloff0, Pulloff1, Pulloff2} => limited \cap Mine = {}

(* With two runs or more a slow approach follows the fast one.               *)
Repeats == phase \in PrePulloff .. Pulloff1 => runs >= 2

(* Where the pull-off is to leave a motor, and where this motion will.       *)
Target(m) == IF phase = Pulloff2 THEN Pulloff[m] ELSE CommonPulloff(AxisOf[m])
Go(m, d) == IF m \in Blocking(phase, cycleAxes) THEN pos[m] ELSE pos[m] + d[AxisOf[m]]
Near(m, p) == p >= Target(m) - Overrun[AxisOf[m]] /\ p <= Target(m)
NotBeyond == phase \in {Pulloff0, Pulloff1} /\ Sound => \A m \in Mine :
    /\ pos[m] <= Target(m)
    /\ moving => Go(m, left) <= Target(m)
    /\ ~moving /\ Queued(queue, "cycleStart") => Go(m, plan) <= Target(m)
UnderWay == phase \in {Pulloff1, Pulloff2} /\ Sound /\ task = "loop" => \A m \in Mine :
    /\ moving => Near(m, Go(m, left))
    /\ ~moving /\ Queued(queue, "cycleStart") => Near(m, Go(m, plan))

(* A pull-off that has run dry has brought its motors where they belong.     *)
Over == task \in {"dwell", "settle"} \/ (state = "Homing" /\ Unled(queue, "alarm", "cycleStop"))
Arrived == phase \in {Pulloff1, Pulloff2} /\ Over =>
    /\ ~moving /\ ~Queued(queue, "cycleStart")
    /\ \A m \in Mine : Near(m, pos[m])

SlowInv == SlowQueue /\ SlowAxes /\ SlowLow /\ SlowLeft
HomedInv ==
    /\ Restarting /\ Chosen /\ Limits /\ SlowInv
    /\ Unblocked /\ BlockedLast /\ Unlimited /\ Repeats
    /\ NotBeyond /\ UnderWay /\ Arrived

LEMMA HomedInit == Init => HomedInv
<1> SUFFICES ASSUME Init PROVE HomedInv
  OBVIOUS
<1> USE DEF None, PrePulloff, FastApproach, Pulloff0, SlowApproach, Pulloff1, Pulloff2, CycleDone
<1>1. Restarting /\ Chosen /\ Limits /\ SlowInv
  BY DEF Init, Restarting, Chosen, Limits, SlowInv, SlowQueue, SlowAxes, SlowLow, SlowLeft, Slowly
<1>2. Unblocked /\ BlockedLast /\ Unlimited /\ Repeats
  BY DEF Init, Unblocked, BlockedLast, Unlimited, Repeats
<1>3. NotBeyond /\ UnderWay /\ Arrived
  BY DEF Init, NotBeyond, UnderWay, Arrived
<1> QED BY <1>1, <1>2, <1>3 DEF HomedInv

(* r starts and ends no motion that q does not, and keeps an alarm.          *)
Dull(q, r) ==
    /\ Queued(r, "cycleStart") => Queued(q, "cycleStart")
    /\ Queued(r, "cycleStop") => Queued(q, "cycleStop")
    /\ Queued(q, "alarm") => Queued(r, "alarm")
    /\ Unled(r, "alarm", "restart") => Unled(q, "alarm", "restart")
    /\ Unled(r, "alarm", "cycleStop") => Unled(q, "alarm", "cycleStop")

LEMMA DullTail ==
    ASSUME NEW q \in Seq(Entry), q # <<>>, Head(q).kind # "alarm"
    PROVE  Dull(q, Tail(q))
BY TailHas, TailUnled DEF Dull

LEMMA DullAppend ==
    ASSUME NEW q \in Seq(Entry), NEW e \in Entry,
           e.kind \notin {"cycleStart", "cycleStop"}, e.kind = "restart" => Queued(q, "alarm")
    PROVE  Dull(q, Append(q, e))
<1>1. \A k : Queued(Append(q, e), k) <=> Queued(q, k) \/ e.kind = k
  BY AppendHas
<1>2. \A b : Unled(Append(q, e), "alarm", b) => Unled(q, "alarm", b) \/ (e.kind = b /\ ~Queued(q, "alarm"))
  BY AppendUnled
<1> QED BY <1>1, <1>2 DEF Dull

LEMMA DullTrans == \A p, q, r : Dull(p, q) /\ Dull(q, r) => Dull(p, r)
BY DEF Dull

LEMMA NoDull == \A q : Dull(q, q)
BY DEF Dull

(* An event of one kind leaves the others of the queue as they are.          *)
LEMMA UnledQueued ==
    ASSUME NEW S, NEW q \in Seq(S), NEW a, NEW b
    PROVE  /\ Queued(q, b) /\ ~Queued(q, a) => Unled(q, a, b)
           /\ Unled(q, a, b) => Queued(q, b)
           /\ q # <<>> /\ Head(q).kind = b /\ a # b => Unled(q, a, b)
<1>1. Queued(q, b) /\ ~Queued(q, a) => Unled(q, a, b)
  BY DEF Queued, Unled
<1>2. Unled(q, a, b) => Queued(q, b)
  BY DEF Queued, Unled
<1>3. ASSUME q # <<>>, Head(q).kind = b PROVE Unled(q, a, b)
  <2>1. 1 \in DOMAIN q /\ q[1] = Head(q)
    BY <1>3, TailIs
  <2>2. \A i \in DOMAIN q : ~(i < 1)
    OBVIOUS
  <2> QED BY <1>3, <2>1, <2>2 DEF Unled
<1> QED BY <1>1, <1>2, <1>3

(* A step that touches neither the cycle nor the switches and starts no      *)
(* motion.                                                                   *)
LEMMA AsideHomed ==
    ASSUME HomedInv,
           UNCHANGED <<task, phase, runs, cycleAxes, phaseAxes, phaseMotors>>,
           UNCHANGED <<mask, limited, pos, plan>>,
           blocked' \subseteq blocked, moving' => moving /\ left' = left,
           Queued(queue', "cycleStart") => Queued(queue, "cycleStart"),
           state' = "Homing" =>
             /\ state = "Homing" /\ Dull(queue, queue')
             /\ Approaching /\ Queued(queue, "limit") => Queued(queue', "limit")
             /\ Queued(queue', "alarm") \/ UNCHANGED <<moving, left, blocked>>
    PROVE  HomedInv'
<1> USE DEF HomedInv
<1>1. Restarting' /\ Chosen' /\ Limits'
  BY DEF Restarting, Chosen, Limits, Dull, Approaching
<1>2. SlowQueue' /\ SlowAxes' /\ SlowLow'
  BY DEF SlowInv, SlowQueue, SlowAxes, SlowLow, Slowly, Dull, Mine
<1>3. SlowLeft'
  BY DEF SlowInv, SlowLeft, Slowly, Mine
<1>4. Unblocked' /\ Unlimited' /\ Repeats'
  BY DEF Unblocked, Unlimited, Repeats, Mine
<1>5. Sound' => Sound /\ UNCHANGED <<moving, left, blocked>>
  BY DEF Sound, Dull
<1>6. BlockedLast'
  BY <1>5 DEF BlockedLast, Mine
<1>7. NotBeyond'
  BY <1>5 DEF NotBeyond, Target, Go, Mine
<1>8. UnderWay'
  BY <1>5 DEF UnderWay, Target, Go, Near, Mine
<1>9. Arrived'
  BY DEF Arrived, Over, Target, Near, Mine, Dull
<1> QED BY <1>1, <1>2, <1>3, <1>4, <1>6, <1>7, <1>8, <1>9 DEF SlowInv

LEMMA AwayHomed ==
    ASSUME NeverInv, HomedInv, AlarmEvent \/ Sleep \/ SafetyDoor \/ LineEnds \/ Unlock
    PROVE  HomedInv'
<1>1. /\ UNCHANGED <<task, phase, runs, cycleAxes, phaseAxes, phaseMotors>>
      /\ UNCHANGED <<mask, limited, pos, plan>>
      /\ blocked' \subseteq blocked /\ (moving' => moving /\ left' = left)
      /\ state' # "Homing"
  BY DEF AlarmEvent, Sleep, SafetyDoor, LineEnds, Unlock, AcceptsLine, Fail, StopMotion,
         cycle, pins, engine, motion
<1>2. Queued(queue', "cycleStart") => Queued(queue, "cycleStart")
  <2>1. CASE AlarmEvent \/ Sleep
    BY <2>1, Handled DEF AlarmEvent, Sleep, Takes
  <2>2. CASE LineEnds \/ Unlock
    BY <2>2 DEF LineEnds, Unlock
  <2>3. CASE SafetyDoor
    <3>1. queue \in Seq(Entry) /\ Alarm("door") \in Entry /\ Alarm("door").kind = "alarm"
      BY Entries DEF Causes, NeverInv, Types, TypesQueue
    <3>2. queue' = queue \/ queue' = Append(queue, Alarm("door"))
      BY <2>3 DEF SafetyDoor, Fail
    <3> QED BY <3>1, <3>2, AppendHas
  <2> QED BY <2>1, <2>2, <2>3
<1> QED BY <1>1, <1>2, AsideHomed

LEMMA ResetHomed == ASSUME NeverInv, HomedInv, Reset PROVE HomedInv'
<1>1. /\ queue \in Seq(Entry) /\ queue # <<>> /\ Rest \in Seq(Entry) /\ Head(queue).kind = "reset"
      /\ \A k : Queued(queue, k) <=> "reset" = k \/ Queued(Rest, k)
  BY Handled DEF Reset, Takes
<1>2. /\ UNCHANGED <<task, phase, runs, cycleAxes, phaseAxes, phaseMotors>>
      /\ UNCHANGED <<mask, limited, pos, plan>>
      /\ blocked' \subseteq blocked /\ (moving' => moving /\ left' = left)
  BY DEF Reset, cycle, pins
<1>3. /\ Alarm("reset") \in Entry /\ Alarm("reset").kind = "alarm"
      /\ Event("restart") \in Entry /\ Event("restart").kind = "restart"
  BY Entries DEF Causes
<1>4. CASE state = "Homing"
  <2>1. queue' = Append(Append(Rest, Alarm("reset")), Event("restart")) /\ state' = state
    BY <1>4 DEF Reset
  <2>2. Append(Rest, Alarm("reset")) \in Seq(Entry)
    BY <1>1, <1>3, AppendIs
  <2>3. \A k : Queued(queue', k) <=> Queued(Rest, k) \/ "alarm" = k \/ "restart" = k
    <3>1. \A k : Queued(Append(Rest, Alarm("reset")), k) <=> Queued(Rest, k) \/ "alarm" = k
      BY <1>1, <1>3, AppendHas
    <3>2. \A k : Queued(queue', k) <=> Queued(Append(Rest, Alarm("reset")), k) \/ "restart" = k
      BY <1>3, <2>1, <2>2, AppendHas
    <3> QED BY <3>1, <3>2
  <2>4. Dull(queue, Rest)
    BY <1>1, DullTail DEF Rest
  <2>5. Dull(Rest, Append(Rest, Alarm("reset")))
    BY <1>1, <1>3, DullAppend
  <2>6. Queued(Append(Rest, Alarm("reset")), "alarm")
    BY <1>1, <1>3, AppendHas
  <2>7. Dull(Append(Rest, Alarm("reset")), queue')
    BY <1>3, <2>1, <2>2, <2>6, DullAppend
  <2>8. Dull(queue, queue')
    BY <2>4, <2>5, <2>7, DullTrans
  <2> QED BY <1>1, <1>2, <1>4, <2>1, <2>3, <2>8, AsideHomed
<1>5. CASE state # "Homing"
  <2>1. queue' = Append(Rest, Event("restart")) /\ state' # "Homing"
    BY <1>5 DEF Reset
  <2>2. Queued(queue', "cycleStart") => Queued(queue, "cycleStart")
    BY <1>1, <1>3, <2>1, AppendHas
  <2> QED BY <1>2, <2>1, <2>2, AsideHomed
<1> QED BY <1>4, <1>5

LEMMA RestartHomed == ASSUME NeverInv, HomedInv, Restart PROVE HomedInv'
<1>1. /\ queue \in Seq(Entry) /\ queue # <<>> /\ Rest \in Seq(Entry) /\ Head(queue).kind = "restart"
      /\ \A k : Queued(queue, k) <=> "restart" = k \/ Queued(Rest, k)
  BY Handled DEF Restart, Takes
<1>2. /\ UNCHANGED <<task, phase, runs, cycleAxes, phaseAxes, phaseMotors>>
      /\ UNCHANGED <<mask, limited, pos, plan, blocked, state>>
      /\ queue' = Rest /\ moving' = FALSE
  BY DEF Restart, StopMotion, cycle, pins, engine
<1>3. Unled(queue, "alarm", "restart")
  BY <1>1, UnledQueued
<1>4. state # "Homing"
  BY <1>3 DEF HomedInv, Restarting
<1> QED BY <1>1, <1>2, <1>4, AsideHomed

(* Reports and commands sent while the machine homes.                        *)
LEMMA SentHomed ==
    ASSUME NeverInv, HomedInv, (\E m \in Motors : Poll(m)) \/ (\E c \in Commands : Command(c))
    PROVE  HomedInv'
<1>1. /\ UNCHANGED <<task, phase, runs, cycleAxes, phaseAxes, phaseMotors>>
      /\ UNCHANGED <<mask, limited, pos, plan, blocked, moving, left, state>>
  BY DEF Poll, Command, protocol, cycle, pins, engine, motion
<1>2. queue \in Seq(Entry)
  BY DEF NeverInv, Types, TypesQueue
<1> DEFINE sent == \E e \in Entry : queue' = Append(queue, e) /\ e.kind \in Pins \cup {"reset", "sleep"}
<1>3. queue' = queue \/ sent
  <2>1. ASSUME NEW m \in Motors, Poll(m) PROVE sent
    <3>1. \A k \in Pins : [kind |-> k, of |-> m] \in Entry /\ [kind |-> k, of |-> m].kind = k
      BY Entries
    <3>2. \E k \in Pins : queue' = Append(queue, [kind |-> k, of |-> m])
      BY <2>1 DEF Poll, Pins
    <3> QED BY <3>1, <3>2
  <2>2. ASSUME NEW c \in Commands, Command(c) PROVE queue' = queue \/ sent
    <3>1. queue' = queue \/ (c \in {"reset", "sleep"} /\ queue' = Append(queue, Event(c)))
      BY <2>2, HomingAssumption DEF Command
    <3>2. c \in {"reset", "sleep"} => Event(c) \in Entry /\ Event(c).kind = c
      BY Entries
    <3> QED BY <3>1, <3>2
  <2> QED BY <2>1, <2>2
<1>4. CASE queue' = queue
  BY <1>1, <1>4, NoDull, AsideHomed
<1>5. ASSUME NEW e \in Entry, queue' = Append(queue, e), e.kind \in Pins \cup {"reset", "sleep"}
      PROVE  HomedInv'
  <2>1. Dull(queue, queue')
    BY <1>2, <1>5, DullAppend DEF Pins
  <2>2. Queued(queue, "limit") => Queued(queue', "limit")
    BY <1>2, <1>5, AppendHas
  <2> QED BY <1>1, <2>1, <2>2, AsideHomed DEF Dull
<1> QED BY <1>3, <1>4, <1>5

LEMMA PinActiveHomed == ASSUME NeverInv, HomedInv, PinActive PROVE HomedInv'
<1> DEFINE m == Head(queue).of
           e == [kind |-> "limit", of |-> m]
<1> USE DEF HomedInv, SlowInv
<1>1. /\ queue \in Seq(Entry) /\ queue # <<>> /\ Head(queue) \in Entry
      /\ Rest \in Seq(Entry) /\ Head(queue).kind = "pinActive"
  BY Handled DEF PinActive, Takes
<1>2. /\ mask' = mask \cup {m} /\ (~Approaching => limited' = limited) /\ queue' = Append(Rest, e)
      /\ UNCHANGED <<state, task, moving, phase, runs, cycleAxes, phaseAxes, phaseMotors>>
      /\ UNCHANGED <<blocked, pos, plan, left>>
  BY DEF PinActive, protocol, cycle, motion
<1>3. e \in Entry /\ e.kind = "limit"
  <2>1. m \in Motors
    BY <1>1, EntryOf DEF Pins
  <2> QED BY <2>1, Entries
<1> HIDE DEF m, e
<1>4. Queued(queue', "limit")
  BY <1>1, <1>2, <1>3, AppendHas
<1>5. Dull(queue, queue')
  <2>1. Dull(queue, Rest)
    BY <1>1, DullTail DEF Rest
  <2>2. Dull(Rest, queue')
    BY <1>1, <1>2, <1>3, DullAppend
  <2> QED BY <2>1, <2>2, DullTrans
<1>6. Restarting' /\ Chosen' /\ Limits'
  BY <1>2, <1>4, <1>5 DEF Restarting, Chosen, Limits, Dull
<1>7. SlowQueue' /\ SlowAxes' /\ SlowLow' /\ SlowLeft'
  BY <1>2, <1>5 DEF SlowQueue, SlowAxes, SlowLow, SlowLeft, Slowly, Dull, Mine
<1>8. Unblocked' /\ Repeats'
  BY <1>2 DEF Unblocked, Repeats, Mine
<1>9. Unlimited'
  BY <1>2 DEF Unlimited, Mine, Approaching, FastApproach, SlowApproach, Pulloff0, Pulloff1, Pulloff2
<1>10. Sound' => Sound
  BY <1>2, <1>5 DEF Sound, Dull
<1>11. BlockedLast' /\ NotBeyond'
  BY <1>2, <1>5, <1>10 DEF BlockedLast, NotBeyond, Target, Go, Mine, Dull
<1>12. UnderWay' /\ Arrived'
  BY <1>2, <1>5, <1>10 DEF UnderWay, Arrived, Over, Target, Go, Near, Mine, Dull
<1> QED BY <1>6, <1>7, <1>8, <1>9, <1>11, <1>12

LEMMA PinInactiveHomed == ASSUME NeverInv, HomedInv, PinInactive PROVE HomedInv'
<1> DEFINE m == Head(queue).of
<1> USE DEF HomedInv, SlowInv
<1>1. /\ queue \in Seq(Entry) /\ queue # <<>> /\ Rest \in Seq(Entry) /\ Head(queue).kind = "pinInactive"
      /\ Queued(queue, "limit") => Queued(Rest, "limit")
  BY Handled DEF PinInactive, Takes
<1>2. /\ mask' = mask \ {m} /\ limited' = limited \ {m} /\ queue' = Rest
      /\ UNCHANGED <<state, task, moving, phase, runs, cycleAxes, phaseAxes, phaseMotors>>
      /\ UNCHANGED <<blocked, pos, plan, left>>
  BY DEF PinInactive, protocol, cycle, motion
<1>3. Has(queue, "pinInactive", m)
  BY <1>1, TailHas
<1>4. Dull(queue, queue')
  BY <1>1, <1>2, DullTail DEF Rest
<1> HIDE DEF m
<1>5. Slowly => ~(m \in Mine /\ m \in mask)
  BY <1>3, Motors1 DEF NeverInv, Watched, Closed, Mine, Slowly, Approaching
<1>6. Restarting' /\ Chosen' /\ Limits'
  BY <1>1, <1>2, <1>4 DEF Restarting, Chosen, Limits, Dull, Approaching
<1>7. SlowQueue' /\ SlowAxes' /\ SlowLow'
  BY <1>2, <1>4 DEF SlowQueue, SlowAxes, SlowLow, Slowly, Dull, Mine
<1>8. SlowLeft'
  BY <1>2, <1>5 DEF SlowLeft, Slowly, Mine
<1>9. Unblocked' /\ Repeats' /\ Unlimited'
  BY <1>2 DEF Unblocked, Repeats, Unlimited, Mine
<1>10. Sound' => Sound
  BY <1>2, <1>4 DEF Sound, Dull
<1>11. BlockedLast' /\ NotBeyond'
  BY <1>2, <1>4, <1>10 DEF BlockedLast, NotBeyond, Target, Go, Mine, Dull
<1>12. UnderWay' /\ Arrived'
  BY <1>2, <1>4, <1>10 DEF UnderWay, Arrived, Over, Target, Go, Near, Mine, Dull
<1> QED BY <1>6, <1>7, <1>8, <1>9, <1>11, <1>12

(* In an approach nothing is said of the pull-offs but that no motor is      *)
(* blocked.                                                                  *)
LEMMA ApproachHomed ==
    ASSUME NeverInv, HomedInv, Approaching, state = "Homing",
           UNCHANGED <<state, phase, runs, cycleAxes, blocked>>,
           Restarting', Limits', SlowInv'
    PROVE  HomedInv'
<1> USE DEF HomedInv, Approaching, None, PrePulloff, FastApproach, Pulloff0, SlowApproach, Pulloff1, Pulloff2
<1>1. Chosen' /\ Unblocked' /\ Repeats'
  BY DEF Chosen, Unblocked, Repeats, Mine
<1>2. BlockedLast' /\ Unlimited' /\ NotBeyond' /\ UnderWay' /\ Arrived'
  BY DEF BlockedLast, Unlimited, NotBeyond, UnderWay, Arrived
<1> QED BY <1>1, <1>2

LEMMA LimitReachedHomed == ASSUME NeverInv, HomedInv, LimitReached PROVE HomedInv'
<1>1. /\ queue \in Seq(Entry) /\ queue # <<>> /\ Rest \in Seq(Entry)
      /\ Head(queue).kind = "limit" /\ task # "settle"
  BY Handled DEF LimitReached, Takes
<1>2. UNCHANGED <<state, mask, blocked, pos, phase, runs, cycleAxes>>
  BY DEF LimitReached, pins, cycle
<1>3. Dull(queue, Rest)
  BY <1>1, DullTail DEF Rest
<1>4. CASE state # "Homing" \/ ~Approaching
  <2>1. queue' = Rest /\ UNCHANGED <<task, phaseAxes, phaseMotors, limited, plan, left, moving>>
    BY <1>4 DEF LimitReached, cycle, motion
  <2>2. Queued(queue', "cycleStart") => Queued(queue, "cycleStart")
    BY <1>3, <2>1 DEF Dull
  <2> QED BY <1>2, <1>3, <1>4, <2>1, <2>2, AsideHomed
<1>5. CASE state = "Homing" /\ Approaching
  <2> USE DEF HomedInv, SlowInv
  <2>1. phaseMotors' = StillMotors /\ phaseAxes' = StillAxes
    BY <1>5 DEF LimitReached
  <2>2. \/ /\ StillAxes = phaseAxes /\ queue' = Rest /\ UNCHANGED <<task, plan, moving, left>>
        \/ /\ StillAxes # {} /\ moving' = FALSE /\ HomingMove(StillAxes, StillMotors, phase, Rest)
        \/ /\ moving' = FALSE /\ task' = "settle" /\ queue' = Rest /\ StillAxes = {}
    BY <1>5 DEF LimitReached, StopMotion, motion
  <2>3. /\ Unled(queue', "alarm", "restart") => Unled(queue, "alarm", "restart")
        /\ Queued(queue', "cycleStop") => Queued(queue, "cycleStop")
    <3>1. CASE queue' = Rest
      BY <1>3, <3>1 DEF Dull
    <3>2. CASE queue' = Append(Rest, Event("cycleStart"))
      <4>1. Event("cycleStart") \in Entry /\ Event("cycleStart").kind = "cycleStart"
        BY Entries
      <4>2. /\ Unled(queue', "alarm", "restart") => Unled(Rest, "alarm", "restart")
            /\ Queued(queue', "cycleStop") => Queued(Rest, "cycleStop")
        <5> DEFINE e == Event("cycleStart")
        <5> HIDE DEF e
        <5>1. e \in Entry /\ e.kind = "cycleStart"
          BY <4>1 DEF e
        <5>2. Unled(Append(Rest, e), "alarm", "restart") =>
                Unled(Rest, "alarm", "restart") \/ (e.kind = "restart" /\ ~Queued(Rest, "alarm"))
          BY <1>1, <5>1, AppendUnled
        <5>3. Queued(Append(Rest, e), "cycleStop") <=> Queued(Rest, "cycleStop") \/ e.kind = "cycleStop"
          BY <1>1, <5>1, AppendHas
        <5> QED BY <3>2, <5>1, <5>2, <5>3 DEF e
      <4> QED BY <1>3, <4>2 DEF Dull
    <3> QED BY <2>2, <3>1, <3>2 DEF HomingMove
  <2>4. Restarting' /\ Limits' /\ SlowQueue'
    BY <1>2, <2>1, <2>3 DEF Restarting, Limits, SlowQueue, Slowly, StillMotors
  <2>5. SlowAxes'
    <3>1. SUFFICES ASSUME Slowly' PROVE SlowAxes'
      BY DEF SlowAxes
    <3>2. Slowly
      BY <1>2, <3>1 DEF Slowly
    <3>3. StillAxes = {AxisOf[m] : m \in StillMotors} /\ StillAxes \subseteq Axes
      BY HomingAssumption DEF StillAxes, StillMotors, NeverInv, Types, TypesCycle
    <3>4. CASE StillAxes = phaseAxes /\ UNCHANGED <<task, plan>>
      BY <2>1, <3>2, <3>3, <3>4 DEF SlowAxes
    <3>5. CASE StillAxes # {} /\ HomingMove(StillAxes, StillMotors, phase, Rest)
      <4>1. plan' = [a \in Axes |-> IF a \in StillAxes THEN Travel(phase, a) ELSE 0]
        BY <3>5 DEF HomingMove
      <4>2. \A a \in Axes : Travel(phase, a) = -(CommonPulloff(a) + FeedMargin)
        BY <3>2 DEF Travel, Slowly, None, PrePulloff, FastApproach, Pulloff0, SlowApproach, Pulloff1, Pulloff2
      <4>3. \A a \in StillAxes : plan'[a] = -(CommonPulloff(a) + FeedMargin)
        BY <3>3, <4>1, <4>2
      <4> QED BY <2>1, <3>3, <3>5, <4>3 DEF SlowAxes
    <3>6. CASE task' = "settle" /\ StillAxes = {}
      BY <2>1, <3>3, <3>6 DEF SlowAxes
    <3> QED BY <2>2, <3>4, <3>5, <3>6
  <2>6. SlowLow'
    BY <1>2 DEF SlowLow, Slowly, Mine
  <2>7. SlowLeft'
    BY <1>2, <2>1, <2>2 DEF SlowLeft, Slowly, Mine
  <2> QED BY <1>2, <1>5, <2>4, <2>5, <2>6, <2>7, ApproachHomed
<1> QED BY <1>4, <1>5

(* A motor on an axis of the machine.                                        *)
LEMMA MotorIs ==
    ASSUME NEW m \in Motors
    PROVE  /\ AxisOf[m] \in Axes /\ m \in MotorsOf({AxisOf[m]})
           /\ Overrun[AxisOf[m]] \in Nat /\ Pulloff[m] \in Nat /\ FeedMargin \in Nat
           /\ FeedMargin > Overrun[AxisOf[m]] /\ Pulloff[m] > Overrun[AxisOf[m]]
           /\ CommonPulloff(AxisOf[m]) \in Nat /\ Extra(AxisOf[m]) \in Nat
           /\ Pulloff[m] \in {CommonPulloff(AxisOf[m]), CommonPulloff(AxisOf[m]) + Extra(AxisOf[m])}
<1>1. AxisOf[m] \in Axes /\ m \in MotorsOf({AxisOf[m]})
  BY HomingAssumption DEF MotorsOf
<1>2. /\ Overrun[AxisOf[m]] \in Nat /\ Pulloff[m] \in Nat /\ FeedMargin \in Nat
      /\ FeedMargin > Overrun[AxisOf[m]] /\ Pulloff[m] > Overrun[AxisOf[m]]
  BY <1>1, HomingAssumption
<1> QED BY <1>1, <1>2, Pulloffs

LEMMA CycleStartHomed == ASSUME NeverInv, HomedInv, CycleStart PROVE HomedInv'
<1>1. /\ queue \in Seq(Entry) /\ queue # <<>> /\ Rest \in Seq(Entry) /\ Head(queue).kind = "cycleStart"
      /\ \A k : Queued(queue, k) <=> "cycleStart" = k \/ Queued(Rest, k)
      /\ task # "settle"
  BY Handled DEF CycleStart, Takes
<1>2. /\ queue' = Rest
      /\ UNCHANGED <<state, task, phase, runs, cycleAxes, phaseAxes, phaseMotors>>
      /\ UNCHANGED <<mask, limited, blocked, pos, plan>>
  BY DEF CycleStart, cycle, pins, engine
<1>3. Dull(queue, queue')
  BY <1>1, <1>2, DullTail DEF Rest
<1>4. CASE state # "Homing"
  <2>1. UNCHANGED <<moving, left>>
    BY <1>4 DEF CycleStart
  <2> QED BY <1>2, <1>3, <1>4, <2>1, AsideHomed DEF Dull
<1>5. CASE state = "Homing"
  <2> USE DEF HomedInv, SlowInv
  <2>1. moving' = TRUE /\ left' = IF moving THEN left ELSE plan
    BY <1>5 DEF CycleStart
  <2>2. Restarting' /\ Chosen' /\ Limits'
    BY <1>1, <1>2, <1>3 DEF Restarting, Chosen, Limits, Dull, Approaching
  <2>3. SlowQueue' /\ SlowAxes' /\ SlowLow'
    BY <1>2, <1>3 DEF SlowQueue, SlowAxes, SlowLow, Slowly, Dull, Mine
  <2>4. SlowLeft'
    <3>1. CASE moving
      BY <1>2, <2>1, <3>1 DEF SlowLeft, Slowly, Mine
    <3>2. CASE ~moving /\ Slowly
      <4>1. left' = plan /\ \A a \in phaseAxes : plan[a] = -(CommonPulloff(a) + FeedMargin)
        BY <2>1, <3>2 DEF SlowAxes
      <4>2. ASSUME NEW a \in phaseAxes PROVE plan[a] < 0
        <5>1. PICK m \in phaseMotors : a = AxisOf[m]
          BY <3>2 DEF SlowAxes
        <5>2. m \in Motors
          BY DEF NeverInv, Types, TypesCycle
        <5>3. FeedMargin > Overrun[a] /\ Overrun[a] \in Nat /\ FeedMargin \in Nat /\ CommonPulloff(a) \in Nat
          BY <5>1, <5>2, MotorIs
        <5>4. plan[a] = -(CommonPulloff(a) + FeedMargin)
          BY <4>1
        <5> QED BY <5>3, <5>4
      <4>3. ASSUME NEW m \in Mine, AxisOf[m] \in phaseAxes
            PROVE  pos[m] + plan[AxisOf[m]] <= -FeedMargin
        <5>1. m \in Motors
          BY Motors1 DEF Mine
        <5>2. pos[m] \in Int /\ FeedMargin \in Nat /\ CommonPulloff(AxisOf[m]) \in Nat
          BY <5>1, MotorIs DEF NeverInv, Types, TypesMotion
        <5>3. pos[m] <= CommonPulloff(AxisOf[m])
          BY <3>2 DEF SlowLow
        <5>4. plan[AxisOf[m]] = -(CommonPulloff(AxisOf[m]) + FeedMargin)
          BY <4>1, <4>3
        <5> QED BY <5>2, <5>3, <5>4
      <4> QED BY <1>2, <4>1, <4>2, <4>3 DEF SlowLeft, Mine
    <3>3. CASE ~Slowly
      BY <1>2, <3>3 DEF SlowLeft, Slowly
    <3> QED BY <3>1, <3>2, <3>3
  <2>5. Unblocked' /\ Repeats' /\ Unlimited'
    BY <1>2 DEF Unblocked, Repeats, Unlimited, Mine
  <2>6. Sound' => Sound
    BY <1>2, <1>3 DEF Sound, Dull
  <2>7. Queued(queue, "cycleStart")
    BY <1>1
  <2>8. BlockedLast'
    BY <1>2, <2>6 DEF BlockedLast, Mine
  <2>9. NotBeyond'
    BY <1>2, <2>1, <2>6, <2>7 DEF NotBeyond, Target, Go, Mine, NeverInv, Types, TypesProtocol
  <2>10. UnderWay'
    BY <1>2, <2>1, <2>6, <2>7 DEF UnderWay, Target, Go, Near, Mine, NeverInv, Types, TypesProtocol
  <2>11. Arrived'
    BY <1>2, <1>3, <2>7 DEF Arrived, Over, Dull
  <2> QED BY <2>2, <2>3, <2>4, <2>5, <2>8, <2>9, <2>10, <2>11
<1> QED BY <1>4, <1>5

LEMMA ConcatUnled ==
    ASSUME NEW S, NEW q \in Seq(S), NEW r \in Seq(S), NEW a, NEW b, b # "pinInactive",
           \A i \in DOMAIN r : r[i].kind = "pinInactive"
    PROVE  Unled(q \o r, a, b) => Unled(q, a, b)
<1> SUFFICES ASSUME Unled(q \o r, a, b) PROVE Unled(q, a, b)
  OBVIOUS
<1>1. PICK j \in DOMAIN (q \o r) : /\ (q \o r)[j].kind = b
                                   /\ \A i \in DOMAIN (q \o r) : i < j => (q \o r)[i].kind # a
  BY DEF Unled
<1>2. j \in DOMAIN q
  BY <1>1, ConcatIs
<1>3. (q \o r)[j] = q[j] /\ \A i \in DOMAIN q : i \in DOMAIN (q \o r) /\ (q \o r)[i] = q[i]
  BY <1>2, ConcatIs
<1> QED BY <1>1, <1>2, <1>3 DEF Unled

LEMMA CycleStopHomed == ASSUME NeverInv, HomedInv, CycleStop PROVE HomedInv'
<1>1. /\ queue \in Seq(Entry) /\ queue # <<>> /\ Rest \in Seq(Entry) /\ Head(queue).kind = "cycleStop"
      /\ \A k : Queued(queue, k) <=> "cycleStop" = k \/ Queued(Rest, k)
  BY Handled DEF CycleStop, Takes
<1>2. /\ UNCHANGED <<state, mask, limited, pos, plan>>
      /\ UNCHANGED <<phase, runs, cycleAxes, phaseAxes, phaseMotors>>
  BY DEF CycleStop, cycle
<1>3. Dull(queue, Rest)
  BY <1>1, DullTail DEF Rest
<1>4. CASE state = "Homing" /\ Approaching /\ Fail("approach", Rest) /\ UNCHANGED task
  <2>1. Alarm("approach") \in Entry /\ Alarm("approach").kind = "alarm"
    BY Entries DEF Causes
  <2>2. queue' = Append(Rest, Alarm("approach")) /\ moving' = FALSE /\ blocked' \subseteq blocked
    BY <1>4 DEF Fail, StopMotion
  <2>3. Dull(Rest, queue')
    BY <1>1, <2>1, <2>2, DullAppend
  <2>4. Dull(queue, queue')
    BY <1>3, <2>3, DullTrans
  <2>5. Queued(queue', "alarm") /\ (Queued(queue, "limit") => Queued(queue', "limit"))
    BY <1>1, <2>1, <2>2, AppendHas
  <2> QED BY <1>2, <1>4, <2>2, <2>4, <2>5, AsideHomed DEF Dull
<1>5. CASE /\ state = "Homing" /\ ~Approaching
           /\ task' = "dwell"
           /\ queue' = Rest \o SetToSeq([kind : {"pinInactive"}, of : Rearmed.opened])
           /\ UNCHANGED <<blocked, left, moving>>
  <2> DEFINE O == Rearmed.opened
             r == SetToSeq([kind : {"pinInactive"}, of : O])
  <2> USE DEF HomedInv, SlowInv
  <2>1. O \subseteq Motors
    BY DEF Rearmed, NeverInv, Types, TypesCycle
  <2>2. r \in Seq(Entry) /\ \A i \in DOMAIN r : r[i].kind = "pinInactive"
    BY <2>1, OpenReports
  <2>3. queue' = Rest \o r
    BY <1>5
  <2> HIDE DEF O, r
  <2>4. Dull(queue, queue')
    <3>1. \A k : k # "pinInactive" => (Queued(queue', k) <=> Queued(Rest, k))
      <4>1. \A k : k # "pinInactive" => ~Queued(r, k)
        BY <2>2 DEF Queued
      <4> QED BY <1>1, <2>2, <2>3, <4>1, ConcatHas
    <3>2. \A b : b # "pinInactive" /\ Unled(queue', "alarm", b) => Unled(Rest, "alarm", b)
      BY <1>1, <2>2, <2>3, ConcatUnled
    <3>3. Dull(Rest, queue')
      BY <3>1, <3>2 DEF Dull
    <3> QED BY <1>3, <3>3, DullTrans
  <2>5. Restarting' /\ Chosen'
    BY <1>2, <2>4 DEF Restarting, Chosen, Dull
  <2>6. Limits' /\ ~Slowly'
    BY <1>2, <1>5 DEF Limits, Slowly, Approaching
  <2>7. SlowQueue' /\ SlowAxes' /\ SlowLow' /\ SlowLeft'
    BY <2>6 DEF SlowQueue, SlowAxes, SlowLow, SlowLeft
  <2>8. Unblocked' /\ Repeats' /\ Unlimited'
    BY <1>2, <1>5 DEF Unblocked, Repeats, Unlimited, Mine
  <2>9. Sound' => Sound
    BY <1>2, <2>4 DEF Sound, Dull
  <2>10. BlockedLast' /\ NotBeyond'
    BY <1>2, <1>5, <2>4, <2>9 DEF BlockedLast, NotBeyond, Target, Go, Mine, Dull
  <2>11. UnderWay'
    BY <1>5 DEF UnderWay
  <2>12. Over
    BY <1>1, <1>5, UnledQueued DEF Over
  <2>13. Arrived'
    BY <1>2, <1>5, <2>4, <2>12 DEF Arrived, Target, Near, Mine, Dull
  <2> QED BY <2>5, <2>6, <2>7, <2>8, <2>10, <2>11, <2>13
<1>6. CASE state # "Homing" /\ queue' = Rest /\ UNCHANGED <<task, blocked, left, moving>>
  BY <1>2, <1>3, <1>6, AsideHomed DEF Dull
<1> QED BY <1>4, <1>5, <1>6 DEF CycleStop

LEMMA DwellEndHomed == ASSUME NeverInv, HomedInv, DwellEnd PROVE HomedInv'
<1> USE DEF HomedInv, SlowInv
<1>1. /\ task = "dwell" /\ queue = <<>> /\ queue \in Seq(Entry)
      /\ moving' = FALSE /\ blocked' \subseteq blocked
      /\ UNCHANGED <<state, phase, runs, cycleAxes, mask, limited, pos, plan>>
  BY DEF DwellEnd, Fail, StopMotion, pins, NeverInv, Types, TypesQueue
<1>2. phase \in {PrePulloff, Pulloff0, Pulloff1, Pulloff2}
  BY <1>1 DEF NeverInv, Phases
<1>3. ~Approaching /\ ~Slowly
  BY <1>2 DEF Approaching, Slowly, PrePulloff, FastApproach, Pulloff0, SlowApproach, Pulloff1, Pulloff2
<1>4. \/ queue' = Append(queue, Alarm("pulloff"))
      \/ task' = "settle" /\ UNCHANGED <<queue, blocked>>
  BY DEF DwellEnd, Fail
<1>5. Alarm("pulloff") \in Entry /\ Alarm("pulloff").kind = "alarm"
  BY Entries DEF Causes
<1>6. Dull(queue, queue')
  BY <1>1, <1>4, <1>5, DullAppend, NoDull
<1>7. Sound' => Sound /\ task' = "settle" /\ UNCHANGED <<queue, blocked>>
  BY <1>1, <1>4, <1>5, AppendHas DEF Sound
<1>8. ~Queued(queue', "cycleStart")
  <2>1. ~Queued(queue, "cycleStart")
    BY <1>1 DEF Queued
  <2> QED BY <1>6, <2>1 DEF Dull
<1>9. Restarting' /\ Chosen'
  BY <1>1, <1>6 DEF Restarting, Chosen, Dull
<1>10. ~Approaching' /\ ~Slowly'
  BY <1>1, <1>3 DEF Approaching, Slowly
<1>11. Limits' /\ SlowQueue' /\ SlowAxes' /\ SlowLow' /\ SlowLeft'
  BY <1>10 DEF Limits, SlowQueue, SlowAxes, SlowLow, SlowLeft
<1>12. Unblocked' /\ Repeats' /\ Unlimited'
  BY <1>1 DEF Unblocked, Repeats, Unlimited, Mine
<1>13. BlockedLast' /\ NotBeyond'
  BY <1>1, <1>7, <1>8 DEF BlockedLast, NotBeyond, Target, Mine
<1>14. UnderWay'
  BY <1>7 DEF UnderWay
<1>15. Arrived'
  BY <1>1, <1>8 DEF Arrived, Over, Target, Near, Mine
<1> QED BY <1>9, <1>11, <1>12, <1>13, <1>14, <1>15

LEMMA RunDryHomed == ASSUME NeverInv, HomedInv, RunDry PROVE HomedInv'
<1>1. /\ moving /\ moving' = FALSE /\ queue' = Append(queue, Event("cycleStop")) /\ queue \in Seq(Entry)
      /\ UNCHANGED <<state, task, phase, runs, cycleAxes, phaseAxes, phaseMotors>>
      /\ UNCHANGED <<mask, limited, blocked, pos, plan, left>>
  BY DEF RunDry, protocol, cycle, pins, engine, NeverInv, Types, TypesQueue
<1>2. Event("cycleStop") \in Entry /\ Event("cycleStop").kind = "cycleStop"
  BY Entries
<1>3. /\ \A k : Queued(queue', k) <=> Queued(queue, k) \/ "cycleStop" = k
      /\ \A b : Unled(queue', "alarm", b) =>
           Unled(queue, "alarm", b) \/ ("cycleStop" = b /\ ~Queued(queue, "alarm"))
  BY <1>1, <1>2, AppendHas, AppendUnled
<1>4. CASE state # "Homing"
  BY <1>1, <1>3, <1>4, AsideHomed
<1>5. CASE state = "Homing"
  <2> USE DEF HomedInv, SlowInv
  <2>1. ~HasLeft /\ task # "dwell" /\ Event("cycleStart") \notin Range(queue)
    BY <1>5 DEF RunDry
  <2>2. ~Queued(queue, "cycleStart")
    <3>1. SUFFICES ASSUME NEW i \in DOMAIN queue, queue[i].kind = "cycleStart" PROVE FALSE
      BY DEF Queued
    <3>2. queue[i] \in Entry /\ queue[i] \in Range(queue)
      BY <1>1 DEF Range
    <3> QED BY <2>1, <3>1, <3>2, EntryOf
  <2>3. task = "loop"
    BY <1>1, <2>1 DEF NeverInv, Phases, Types, TypesProtocol
  <2>4. left \in [Axes -> Int] /\ \A a \in Axes : left[a] = 0
    BY <2>1 DEF HasLeft, NeverInv, Types, TypesMotion
  <2>5. ~Slowly
    <3>1. SUFFICES ASSUME Slowly PROVE FALSE
      OBVIOUS
    <3>2. PICK a \in phaseAxes : TRUE
      BY <2>3, <3>1 DEF SlowAxes
    <3>3. a \in Axes /\ left[a] < 0
      BY <1>1, <3>1, <3>2 DEF SlowLeft, NeverInv, Types, TypesCycle
    <3> QED BY <2>4, <3>3
  <2>6. Restarting' /\ Chosen' /\ Limits'
    BY <1>1, <1>3 DEF Restarting, Chosen, Limits, Approaching
  <2>7. SlowQueue' /\ SlowAxes' /\ SlowLow' /\ SlowLeft'
    BY <1>1, <2>5 DEF SlowQueue, SlowAxes, SlowLow, SlowLeft, Slowly
  <2>8. Unblocked' /\ Repeats' /\ Unlimited'
    BY <1>1 DEF Unblocked, Repeats, Unlimited, Mine
  <2>9. Sound' => Sound
    BY <1>1, <1>3 DEF Sound
  <2>10. BlockedLast' /\ NotBeyond' /\ UnderWay'
    BY <1>1, <1>3, <2>2, <2>9 DEF BlockedLast, NotBeyond, UnderWay, Target, Mine
  <2>11. Arrived'
    <3>1. SUFFICES ASSUME phase \in {Pulloff1, Pulloff2}, Over'
                   PROVE  \A m \in Mine : Near(m, pos[m])
      BY <1>1, <1>3, <2>2 DEF Arrived, Target, Near, Mine
    <3>2. ~Over
      BY <1>1, <3>1 DEF Arrived
    <3>3. Sound
      BY <1>1, <1>3, <1>5, <2>3, <3>1, <3>2 DEF Over, Sound
    <3>4. ASSUME NEW m \in Mine PROVE Near(m, pos[m])
      <4>1. Near(m, Go(m, left))
        BY <1>1, <2>3, <3>1, <3>3 DEF UnderWay
      <4>2. m \in Motors
        BY Motors1 DEF Mine
      <4>3. left[AxisOf[m]] = 0 /\ pos[m] \in Int
        BY <2>4, <4>2, MotorIs DEF NeverInv, Types, TypesMotion
      <4>4. Go(m, left) = pos[m]
        BY <4>3 DEF Go
      <4> QED BY <4>1, <4>4
    <3> QED BY <3>4
  <2> QED BY <2>6, <2>7, <2>8, <2>10, <2>11
<1> QED BY <1>4, <1>5

(* In a pull-off the motors of the cycle that move are those not blocked.    *)
LEMMA TickHomed == ASSUME NeverInv, HomedInv, NEW a \in Axes, Tick(a) PROVE HomedInv'
<1> USE DEF HomedInv, SlowInv
<1> USE DEF None, PrePulloff, FastApproach, Pulloff0, SlowApproach, Pulloff1, Pulloff2
<1> DEFINE d == IF left[a] > 0 THEN 1 ELSE -1
<1>1. /\ moving /\ left[a] # 0 /\ InTime(a)
      /\ left' = [left EXCEPT ![a] = @ - d]
      /\ pos' = [m \in Motors |-> IF m \in Free(a) THEN pos[m] + d ELSE pos[m]]
      /\ UNCHANGED <<state, task, moving, queue, phase, runs, cycleAxes, phaseAxes, phaseMotors>>
      /\ UNCHANGED <<mask, limited, blocked, plan>>
  BY DEF Tick, protocol, cycle, pins
<1>2. pos \in [Motors -> Int] /\ left \in [Axes -> Int] /\ plan \in [Axes -> Int]
  BY DEF NeverInv, Types, TypesMotion
<1>3. /\ d \in {-1, 1}
      /\ d = 1 => ~Approaching /\ left[a] > 0
      /\ d = -1 => Approaching /\ a \in cycleAxes /\ left[a] < 0
  BY <1>1, <1>2 DEF NeverInv, Directed, Points
<1>4. \A m \in Motors : m \in Free(a) <=> AxisOf[m] = a /\ m \notin limited /\ m \notin blocked
  BY DEF Free, MotorsOf
<1> HIDE DEF d
<1>5. \A m \in Motors : pos'[m] = IF m \in Free(a) THEN pos[m] + d ELSE pos[m]
  BY <1>1, <1>2, <1>3
<1>6. left'[a] = left[a] - d /\ \A b \in Axes : b # a => left'[b] = left[b]
  BY <1>1, <1>2, <1>3
<1>7. Mine \subseteq Motors /\ Mine' = Mine
  BY <1>1, Motors1 DEF Mine
<1>8. Restarting' /\ Chosen' /\ Limits' /\ SlowQueue' /\ SlowAxes'
  BY <1>1 DEF Restarting, Chosen, Limits, SlowQueue, SlowAxes, Slowly, Approaching
<1>9. Unblocked' /\ BlockedLast' /\ Unlimited' /\ Repeats'
  BY <1>1, <1>7 DEF Unblocked, BlockedLast, Unlimited, Repeats, Sound
<1>10. SlowLow'
  <2>1. SUFFICES ASSUME Slowly, NEW m \in Mine PROVE pos'[m] <= CommonPulloff(AxisOf[m])
    BY <1>1, <1>7 DEF SlowLow, Slowly
  <2>2. pos[m] <= CommonPulloff(AxisOf[m]) /\ m \in Motors
    BY <1>7, <2>1 DEF SlowLow
  <2>3. pos[m] \in Int /\ CommonPulloff(AxisOf[m]) \in Nat
    BY <1>2, <2>2, MotorIs
  <2>4. d = -1
    BY <1>3, <2>1 DEF Slowly, Approaching
  <2>5. pos'[m] \in {pos[m], pos[m] - 1}
    BY <1>5, <2>2, <2>3, <2>4
  <2> QED BY <2>2, <2>3, <2>5
<1>11. SlowLeft'
  <2>1. SUFFICES ASSUME Slowly
                 PROVE  /\ \A b \in phaseAxes : left'[b] < 0
                        /\ \A m \in Mine \ mask :
                             AxisOf[m] \in phaseAxes => pos'[m] + left'[AxisOf[m]] <= -FeedMargin
    BY <1>1, <1>7 DEF SlowLeft, Slowly
  <2>2. /\ \A b \in phaseAxes : left[b] < 0
        /\ \A m \in Mine \ mask : AxisOf[m] \in phaseAxes => pos[m] + left[AxisOf[m]] <= -FeedMargin
    BY <1>1, <2>1 DEF SlowLeft
  <2>3. Approaching /\ d = -1 /\ a \in cycleAxes
    BY <1>3, <2>1 DEF Slowly, Approaching
  <2>4. phaseAxes \subseteq Axes
    BY DEF NeverInv, Types, TypesCycle
  <2>5. ASSUME NEW m \in Mine, AxisOf[m] = a
        PROVE  m \notin mask <=> m \in Free(a)
    <3>1. m \notin blocked
      BY <2>1 DEF Unblocked, Slowly
    <3>2. m \in mask <=> m \in limited
      BY <2>3 DEF NeverInv, Closed
    <3> QED BY <1>4, <1>7, <2>5, <3>1, <3>2
  <2>6. ASSUME NEW m \in Mine \ mask, AxisOf[m] \in phaseAxes
        PROVE  pos'[m] + left'[AxisOf[m]] <= -FeedMargin
    <3>1. m \in Motors /\ pos[m] \in Int /\ left[AxisOf[m]] \in Int /\ FeedMargin \in Nat
      BY <1>2, <1>7, MotorIs
    <3>2. pos[m] + left[AxisOf[m]] <= -FeedMargin
      BY <2>2, <2>6
    <3>3. CASE AxisOf[m] = a
      <4>1. pos'[m] = pos[m] - 1 /\ left'[AxisOf[m]] = left[AxisOf[m]] + 1
        BY <1>5, <1>6, <2>3, <2>5, <3>1, <3>3
      <4> QED BY <3>1, <3>2, <4>1
    <3>4. CASE AxisOf[m] # a
      <4>1. pos'[m] = pos[m] /\ left'[AxisOf[m]] = left[AxisOf[m]]
        BY <1>4, <1>5, <1>6, <2>4, <2>6, <3>1, <3>4
      <4> QED BY <3>2, <4>1
    <3> QED BY <3>3, <3>4
  <2>7. ASSUME NEW b \in phaseAxes PROVE left'[b] < 0
    <3>1. CASE b # a
      BY <1>6, <2>2, <2>4, <3>1
    <3>2. CASE b = a
      <4>1. PICK m \in phaseMotors : AxisOf[m] = a
        BY <2>1, <3>2 DEF SlowAxes
      <4>2. m \in Mine
        BY <2>3 DEF NeverInv, Closed
      <4>3. Free(a) # {}
        <5>1. SUFFICES ASSUME Free(a) = {} PROVE FALSE
          OBVIOUS
        <5>2. m \in mask
          BY <2>5, <4>1, <4>2, <5>1
        <5>3. Queued(queue, "limit")
          BY <2>1, <2>3, <4>1, <5>2 DEF Limits, Slowly
        <5>4. "limit" \in {queue[i].kind : i \in DOMAIN queue}
          BY <5>3 DEF Queued
        <5>5. ~(left[a] > 0)
          BY <1>2, <1>3, <2>3
        <5>6. Free(a) = {} => "limit" \notin {queue[i].kind : i \in DOMAIN queue}
          BY <1>1, <5>5 DEF InTime
        <5> QED BY <5>1, <5>4, <5>6
      <4>4. PICK n \in Free(a) : TRUE
        BY <4>3
      <4>5. n \in Motors /\ AxisOf[n] = a /\ n \in Mine
        BY <2>3, <4>4 DEF Free, MotorsOf, Mine
      <4>6. n \notin mask
        BY <2>5, <4>4, <4>5
      <4>7. n \in armed
        BY <4>5, <4>6 DEF NeverInv, Watched
      <4>8. pos[n] > -Overrun[a]
        <5>1. ~(left[a] > 0)
          BY <1>2, <1>3, <2>3
        <5> QED BY <1>1, <4>4, <4>6, <4>7, <5>1 DEF InTime
      <4>9. pos[n] + left[a] <= -FeedMargin
        BY <2>2, <3>2, <4>5, <4>6
      <4>10. FeedMargin \in Nat /\ Overrun[a] \in Nat /\ FeedMargin > Overrun[a]
        BY <4>5, MotorIs
      <4>11. pos[n] \in Int /\ left[a] \in Int
        BY <1>2, <4>5
      <4>12. left[a] < -1
        BY <4>8, <4>9, <4>10, <4>11
      <4> QED BY <1>6, <2>3, <3>2, <4>11, <4>12
    <3> QED BY <3>1, <3>2
  <2> QED BY <2>6, <2>7
<1>12. ASSUME phase \in {Pulloff0, Pulloff1, Pulloff2}, Sound, NEW m \in Mine
       PROVE  /\ m \in Motors /\ pos[m] \in Int /\ pos'[m] \in Int
              /\ left[AxisOf[m]] \in Int /\ left'[AxisOf[m]] \in Int /\ left[AxisOf[m]] >= 0
              /\ Go(m, left)' = Go(m, left)
              /\ pos'[m] <= Go(m, left) \/ pos'[m] = pos[m]
  <2>1. m \in Motors /\ AxisOf[m] \in Axes /\ pos[m] \in Int /\ left[AxisOf[m]] \in Int
    BY <1>2, <1>7, MotorIs
  <2>2. ~Approaching /\ d = 1 /\ left[a] > 0 /\ left[AxisOf[m]] >= 0
    BY <1>1, <1>3, <1>12, <2>1 DEF Approaching, NeverInv, Directed, Points
  <2>3. m \notin limited /\ (m \in Blocking(phase, cycleAxes) <=> m \in blocked)
    <3>1. CASE phase = 6
      BY <1>12, <3>1 DEF BlockedLast, Unlimited
    <3>2. CASE phase \in {3, 5}
      BY <1>12, <3>2 DEF Unblocked, Unlimited, Blocking
    <3> QED BY <1>12, <3>1, <3>2
  <2>4. CASE AxisOf[m] = a /\ m \notin blocked
    <3>1. pos'[m] = pos[m] + 1 /\ left'[AxisOf[m]] = left[AxisOf[m]] - 1
      BY <1>4, <1>5, <1>6, <2>1, <2>2, <2>3, <2>4
    <3>2. Go(m, left) = pos[m] + left[AxisOf[m]]
      BY <2>3, <2>4 DEF Go
    <3>3. Go(m, left)' = pos'[m] + left'[AxisOf[m]]
      BY <1>1, <2>3, <2>4 DEF Go, Blocking, Extra, NeedsPulloff2
    <3> QED BY <2>1, <2>2, <2>4, <3>1, <3>2, <3>3
  <2>5. CASE m \in blocked
    <3>1. pos'[m] = pos[m]
      BY <1>4, <1>5, <2>1, <2>5
    <3>2. left'[AxisOf[m]] \in Int
      BY <1>2, <1>6, <2>1, <2>2
    <3>3. Go(m, left) = pos[m] /\ Go(m, left)' = pos'[m]
      BY <1>1, <2>3, <2>5 DEF Go, Blocking
    <3> QED BY <2>1, <2>2, <3>1, <3>2, <3>3
  <2>6. CASE AxisOf[m] # a /\ m \notin blocked
    <3>1. pos'[m] = pos[m] /\ left'[AxisOf[m]] = left[AxisOf[m]]
      BY <1>4, <1>5, <1>6, <2>1, <2>6
    <3>2. Go(m, left) = pos[m] + left[AxisOf[m]]
      BY <2>3, <2>6 DEF Go
    <3>3. Go(m, left)' = pos'[m] + left'[AxisOf[m]]
      BY <1>1, <2>3, <2>6 DEF Go, Blocking
    <3> QED BY <2>1, <2>2, <3>1, <3>2, <3>3
  <2> QED BY <2>4, <2>5, <2>6
<1>13. Sound' <=> Sound
  BY <1>1 DEF Sound
<1>14. NotBeyond'
  <2>1. SUFFICES ASSUME phase \in {Pulloff0, Pulloff1}, Sound, NEW m \in Mine
                 PROVE  pos'[m] <= Target(m) /\ Go(m, left)' <= Target(m)
    BY <1>1, <1>7, <1>13 DEF NotBeyond, Target
  <2>2. pos[m] <= Target(m) /\ Go(m, left) <= Target(m)
    BY <1>1, <2>1 DEF NotBeyond
  <2>3. Target(m) \in Int
    <3>1. m \in Motors
      BY <1>7, <2>1
    <3>2. Pulloff[m] \in Nat /\ CommonPulloff(AxisOf[m]) \in Nat
      BY <3>1, MotorIs
    <3> QED BY <3>2 DEF Target
  <2>4. /\ pos[m] \in Int /\ pos'[m] \in Int /\ left[AxisOf[m]] \in Int
        /\ Go(m, left)' = Go(m, left)
        /\ pos'[m] <= Go(m, left) \/ pos'[m] = pos[m]
    BY <1>12, <2>1
  <2>5. Go(m, left) \in Int
    BY <2>4 DEF Go
  <2> QED BY <2>2, <2>3, <2>4, <2>5
<1>15. UnderWay'
  <2>1. SUFFICES ASSUME phase \in {Pulloff1, Pulloff2}, Sound, task = "loop", NEW m \in Mine
                 PROVE  Near(m, Go(m, left)')
    BY <1>1, <1>7, <1>13 DEF UnderWay, Near, Target
  <2>2. Near(m, Go(m, left))
    BY <1>1, <2>1 DEF UnderWay
  <2>3. Go(m, left)' = Go(m, left)
    BY <1>12, <2>1
  <2> QED BY <2>2, <2>3
<1>16. Arrived'
  BY <1>1 DEF Arrived, Over
<1> QED BY <1>8, <1>9, <1>10, <1>11, <1>14, <1>15, <1>16

LEMMA FollowingSteps ==
    ASSUME HomedInv, phase \in PrePulloff .. Pulloff2, runs \in Int
    PROVE  /\ phase \in PrePulloff .. SlowApproach => Following.phase = phase + 1 /\ Following.runs >= 2
           /\ phase = Pulloff1 =>
                /\ Following.phase \in {SlowApproach, Pulloff2}
                /\ Following.phase = SlowApproach => Following.runs >= 2
           /\ phase = Pulloff2 => Following.phase = CycleDone
<1> USE DEF PrePulloff, FastApproach, Pulloff0, SlowApproach, Pulloff1, Pulloff2, CycleDone
<1>1. phase \in 1 .. 5 => runs >= 2
  BY DEF HomedInv, Repeats
<1>2. CASE phase \in 1 .. 4
  <2>1. Following = [phase |-> phase + 1, runs |-> runs]
    BY <1>1, <1>2 DEF Following
  <2> QED BY <1>1, <1>2, <2>1
<1>3. CASE phase = 5
  BY <1>1, <1>3 DEF Following
<1>4. CASE phase = 6
  BY <1>4 DEF Following
<1> QED BY <1>2, <1>3, <1>4

(* A cycle begins before a pull-off is planned.                              *)
LEMMA BeginHomed ==
    ASSUME HomingRuns >= 2, NEW axes, NEW rest, axes # {},
           queue \in Seq(Entry), BeginCycle(axes, rest, queue), UNCHANGED mask,
           blocked' \cap MotorsOf(axes) = {},
           ~Queued(queue, "restart")
    PROVE  HomedInv'
<1> USE DEF None, PrePulloff, FastApproach, Pulloff0, SlowApproach, Pulloff1, Pulloff2
<1>1. /\ cycleAxes' = axes /\ runs' = HomingRuns
      /\ phase' = FirstPhase(MotorsOf(axes)) /\ phaseMotors' = MotorsOf(axes)
      /\ queue' = Append(queue, Event("cycleStart"))
  BY DEF BeginCycle, RunPhase, HomingMove
<1>2. phase' \in {1, 2} /\ (phase' = 2 => mask \cap MotorsOf(axes) = {})
  BY <1>1 DEF FirstPhase
<1>3. ~Queued(queue', "restart")
  <2>1. Event("cycleStart") \in Entry /\ Event("cycleStart").kind = "cycleStart"
    BY Entries
  <2> QED BY <1>1, <2>1, AppendHas
<1>4. Restarting' /\ Chosen'
  BY <1>1, <1>3 DEF Restarting, Chosen, Unled, Queued
<1>5. Limits'
  BY <1>1, <1>2 DEF Limits, Approaching
<1>6. SlowInv'
  BY <1>2 DEF SlowInv, SlowQueue, SlowAxes, SlowLow, SlowLeft, Slowly
<1>7. Unblocked' /\ BlockedLast' /\ Unlimited' /\ Repeats'
  BY <1>1, <1>2 DEF Unblocked, BlockedLast, Unlimited, Repeats, Mine
<1>8. NotBeyond' /\ UnderWay' /\ Arrived'
  BY <1>2 DEF NotBeyond, UnderWay, Arrived
<1> QED BY <1>4, <1>5, <1>6, <1>7, <1>8 DEF HomedInv

(* The next phase of a cycle is planned.                                     *)
LEMMA NextPhaseHomed ==
    ASSUME NeverInv, HomedInv, Settled, ~EndsCycle(Following.phase)
    PROVE  HomedInv'
<1> USE DEF HomedInv, SlowInv
<1> USE DEF None, PrePulloff, FastApproach, Pulloff0, SlowApproach, Pulloff1, Pulloff2
<1> DEFINE ph == Following.phase
<1>1. /\ task = "settle" /\ task' = "loop"
      /\ phase' = ph /\ phaseAxes' = cycleAxes /\ phaseMotors' = Mine
      /\ HomingMove(cycleAxes, Mine, ph, queue)
      /\ runs' = Following.runs
      /\ blocked' = blocked \cup Blocking(ph, cycleAxes)
      /\ UNCHANGED <<state, cycleAxes, moving, pos, mask>>
  BY DEF Settled, NextPhase, RunPhase, Mine, pins
<1>2. /\ ~moving /\ phase \in 1 .. 6 /\ runs \in Int /\ queue \in Seq(Entry) /\ pos \in [Motors -> Int]
      /\ cycleAxes \subseteq Axes
  BY <1>1, SettledClear DEF NeverInv, Types, TypesQueue, TypesMotion, TypesCycle
<1>3. \/ phase \in 1 .. 4 /\ ph = phase + 1 /\ runs' >= 2
      \/ phase = 5 /\ ph = 4 /\ runs' >= 2
      \/ phase = 5 /\ ph = 6
  <2>1. phase # 6
    BY <1>2, FollowingSteps DEF EndsCycle
  <2> QED BY <1>1, <1>2, <2>1, FollowingSteps
<1> HIDE DEF ph
<1>4. /\ limited' = limited \ Mine
      /\ \A a \in cycleAxes : plan'[a] = Travel(ph, a)
      /\ queue' = Append(queue, Event("cycleStart"))
  BY <1>1, <1>2 DEF HomingMove, Released, Mine
<1>5. Mine' = Mine /\ \A m \in Mine : m \in Motors /\ AxisOf[m] \in cycleAxes
  BY <1>1 DEF Mine, MotorsOf
<1>6. /\ \A k : Queued(queue', k) <=> Queued(queue, k) \/ "cycleStart" = k
      /\ \A b : Unled(queue', "alarm", b) => Unled(queue, "alarm", b) \/ "cycleStart" = b
  <2>1. Event("cycleStart") \in Entry /\ Event("cycleStart").kind = "cycleStart"
    BY Entries
  <2> QED BY <1>2, <1>4, <2>1, AppendHas, AppendUnled
<1>7. ~Approaching => \A k \in {"cycleStop", "alarm"} : ~Queued(queue, k)
  BY <1>1 DEF NeverInv, Quiet
<1>8. phase \in {4, 5} /\ state = "Homing" => ~Queued(queue, "cycleStop")
  BY <1>7 DEF SlowQueue, Slowly, Approaching
<1>9. Restarting' /\ Chosen'
  BY <1>1, <1>6 DEF Restarting, Chosen
<1>10. Limits'
  <2>1. ph \in {2, 4} => mask \cap Mine = {}
    BY <1>1, <1>2, <1>3 DEF NeverInv, Opened, Approaching
  <2> QED BY <1>1, <2>1 DEF Limits, Approaching
<1>11. SlowQueue'
  BY <1>1, <1>2, <1>3, <1>6, <1>7 DEF SlowQueue, Slowly, Approaching
<1>12. SlowAxes'
  <2>1. SUFFICES ASSUME ph = 4, state = "Homing"
                 PROVE  /\ cycleAxes = {AxisOf[m] : m \in Mine} /\ cycleAxes # {}
                        /\ \A a \in cycleAxes : plan'[a] = -(CommonPulloff(a) + FeedMargin)
    BY <1>1 DEF SlowAxes, Slowly
  <2>2. ASSUME NEW a \in cycleAxes PROVE \E m \in Mine : AxisOf[m] = a
    BY <1>2, HomingAssumption DEF MotorsOf, Mine
  <2>3. cycleAxes = {AxisOf[m] : m \in Mine}
    BY <1>5, <2>2
  <2>4. \A a : Travel(4, a) = -(CommonPulloff(a) + FeedMargin)
    BY DEF Travel
  <2> QED BY <1>4, <2>1, <2>3, <2>4 DEF Chosen
<1>13. SlowLow'
  <2>1. SUFFICES ASSUME ph = 4, state = "Homing", NEW m \in Mine PROVE pos[m] <= CommonPulloff(AxisOf[m])
    BY <1>1, <1>5 DEF SlowLow, Slowly
  <2>2. phase \in {3, 5} /\ Sound
    BY <1>3, <1>7, <2>1 DEF Sound, Approaching
  <2> QED BY <2>2 DEF NotBeyond, Target
<1>14. SlowLeft'
  BY <1>1, <1>2 DEF SlowLeft
<1>15. phase \in 1 .. 5 /\ blocked \cap Mine = {}
  BY <1>3 DEF Unblocked
<1>16. Unblocked' /\ BlockedLast'
  <2>1. ph # 6 => Blocking(ph, cycleAxes) = {}
    BY DEF Blocking
  <2>2. Blocking(ph, cycleAxes) \subseteq Mine
    BY DEF Blocking, Mine
  <2>3. blocked' \cap Mine = Blocking(ph, cycleAxes)
    BY <1>1, <1>15, <2>2
  <2>4. Unblocked'
    BY <1>1, <1>5, <2>1, <2>3 DEF Unblocked
  <2>5. BlockedLast'
    BY <1>1, <1>5, <2>3 DEF BlockedLast, Blocking
  <2> QED BY <2>4, <2>5
<1>17. Unlimited'
  BY <1>4, <1>5 DEF Unlimited
<1>18. Repeats'
  BY <1>1, <1>3 DEF Repeats
<1>19. ASSUME NEW m \in Mine
       PROVE  /\ m \in Motors /\ pos[m] \in Int /\ AxisOf[m] \in cycleAxes
              /\ Overrun[AxisOf[m]] \in Nat /\ Pulloff[m] \in Nat
              /\ CommonPulloff(AxisOf[m]) \in Nat /\ Extra(AxisOf[m]) \in Nat
              /\ Pulloff[m] \in {CommonPulloff(AxisOf[m]), CommonPulloff(AxisOf[m]) + Extra(AxisOf[m])}
              /\ pos[m] >= -Overrun[AxisOf[m]]
  <2>1. m \in Motors /\ AxisOf[m] \in cycleAxes
    BY <1>5
  <2> QED BY <1>2, <2>1, MotorIs DEF NeverInv, NeverPastSwitch
\* From a switch a pull-off goes up by the common distance.
<1>20. ASSUME ph \in {3, 5}, NEW m \in Mine
       PROVE  /\ pos[m] <= 0 /\ Go(m, plan)' = pos[m] + CommonPulloff(AxisOf[m])
              /\ Target(m)' = CommonPulloff(AxisOf[m])
  <2>1. Approaching /\ m \in mask
    BY <1>1, <1>3, <1>20 DEF Approaching, NeverInv, AllClosed
  <2>2. pos[m] <= 0
    BY <2>1, <1>20 DEF NeverInv, Closed, Active
  <2>3. plan'[AxisOf[m]] = CommonPulloff(AxisOf[m])
    <3>1. plan'[AxisOf[m]] = Travel(ph, AxisOf[m])
      BY <1>4, <1>19
    <3> QED BY <1>20, <3>1 DEF Travel
  <2>4. Go(m, plan)' = pos[m] + CommonPulloff(AxisOf[m])
    BY <1>1, <1>20, <2>3 DEF Go, Blocking
  <2>5. Target(m)' = CommonPulloff(AxisOf[m])
    BY <1>1, <1>20 DEF Target, CommonPulloff, MotorsOf
  <2> QED BY <2>2, <2>4, <2>5
<1>21. NotBeyond'
  <2>1. SUFFICES ASSUME ph \in {3, 5}, NEW m \in Mine
                 PROVE  pos[m] <= Target(m)' /\ Go(m, plan)' <= Target(m)'
    BY <1>1, <1>2, <1>5 DEF NotBeyond
  <2> QED BY <1>19, <1>20, <2>1
<1>22. UnderWay'
  <2>1. SUFFICES ASSUME ph \in {5, 6}, NEW m \in Mine
                 PROVE  /\ Go(m, plan)' >= Target(m)' - Overrun[AxisOf[m]]
                        /\ Go(m, plan)' <= Target(m)'
    BY <1>1, <1>2, <1>5 DEF UnderWay, Near
  <2>2. CASE ph = 5
    BY <1>19, <1>20, <2>2
  <2>3. CASE ph = 6
    <3>1. phase = 5
      BY <1>3, <2>3
    <3>2. pos[m] >= CommonPulloff(AxisOf[m]) - Overrun[AxisOf[m]] /\ pos[m] <= CommonPulloff(AxisOf[m])
      BY <1>1, <3>1 DEF Arrived, Over, Near, Target
    <3>3. Target(m)' = Pulloff[m]
      BY <1>1, <2>3 DEF Target
    <3>4. plan'[AxisOf[m]] = Extra(AxisOf[m])
      <4>1. plan'[AxisOf[m]] = Travel(ph, AxisOf[m])
        BY <1>4, <1>19
      <4> QED BY <2>3, <4>1 DEF Travel
    <3>5. m \in Blocking(ph, cycleAxes) <=> Extra(AxisOf[m]) # 0 /\ Pulloff[m] = CommonPulloff(AxisOf[m])
      BY <2>3 DEF Blocking, Mine
    <3>6. Go(m, plan)' = IF m \in Blocking(ph, cycleAxes) THEN pos[m] ELSE pos[m] + Extra(AxisOf[m])
      BY <1>1, <3>4 DEF Go, Blocking
    <3> QED BY <1>19, <3>2, <3>3, <3>5, <3>6
  <2> QED BY <2>1, <2>2, <2>3
<1>23. Arrived'
  <2>1. SUFFICES ASSUME ph \in {5, 6}, state = "Homing", Unled(queue', "alarm", "cycleStop") PROVE FALSE
    BY <1>1 DEF Arrived, Over
  <2>2. Queued(queue, "cycleStop")
    BY <1>2, <1>6, <2>1, UnledQueued
  <2> QED BY <1>3, <1>8, <2>1, <2>2
<1> QED BY <1>9, <1>10, <1>11, <1>12, <1>13, <1>14, <1>16, <1>17, <1>18, <1>21, <1>22, <1>23

LEMMA SettledHomed == ASSUME HomingRuns >= 2, NeverInv, HomedInv, Settled PROVE HomedInv'
<1>1. CASE ~EndsCycle(Following.phase)
  BY <1>1, NextPhaseHomed
<1>2. CASE EndsCycle(Following.phase)
  <2> USE DEF None, PrePulloff, FastApproach, Pulloff0, SlowApproach, Pulloff1, Pulloff2, CycleDone
  <2>1. /\ task = "settle" /\ task' = "loop" /\ UNCHANGED mask
        /\ EndCycle(Following.phase)
    BY <1>2 DEF Settled, NextPhase, pins
  <2>2. /\ phase \in 1 .. 6 /\ runs \in Int /\ queue \in Seq(Entry)
    BY <2>1, SettledClear DEF NeverInv, Types, TypesQueue
  <2>3. ~Approaching /\ Following.phase \in {6, 7}
    BY <1>2, <2>2, FollowingIs
  <2>4. ~Queued(queue, "restart") /\ ~Queued(queue, "alarm")
    BY <2>1, <2>3 DEF NeverInv, Quiet
  <2>5. CASE state # "Alarm" /\ remaining # <<>>
    <3> DEFINE axes == Head(remaining)
    <3>1. /\ BeginCycle(axes, Tail(remaining), queue)
          /\ blocked' = blocked \ MotorsOf(cycleAxes \cup cycleAxes')
      BY <2>1, <2>5 DEF EndCycle
    <3>2. axes # {}
      BY <2>5, TailIs DEF NeverInv, Types, TypesCycle
    <3>3. blocked' \cap MotorsOf(axes) = {}
      BY <3>1 DEF BeginCycle, MotorsOf
    <3> HIDE DEF axes
    <3> QED BY <2>1, <2>2, <2>4, <3>1, <3>2, <3>3, BeginHomed
  <2>6. CASE ~(state # "Alarm" /\ remaining # <<>>)
    <3> USE DEF HomedInv, SlowInv
    <3>1. /\ phase' = Following.phase
          /\ state' = IF ~(state # "Alarm" /\ ~abort) THEN state ELSE IF unhomed' = {} THEN "Idle" ELSE "Alarm"
          /\ UNCHANGED <<cycleAxes, limited>>
      BY <2>1, <2>6 DEF EndCycle
    <3>2. state' # "Homing"
      BY <2>4, <3>1 DEF NeverInv, Interrupted
    <3>3. Restarting' /\ Chosen' /\ Limits'
      BY <3>2 DEF Restarting, Chosen, Limits
    <3>4. SlowQueue' /\ SlowAxes' /\ SlowLow' /\ SlowLeft'
      BY <3>2 DEF SlowQueue, SlowAxes, SlowLow, SlowLeft, Slowly
    <3>5. Unblocked' /\ Repeats'
      BY <2>3, <3>1 DEF Unblocked, Repeats
    <3>6. BlockedLast' /\ NotBeyond' /\ UnderWay'
      BY <3>2 DEF BlockedLast, NotBeyond, UnderWay, Sound
    <3>7. Unlimited'
      <4>1. Following.phase = 6 => phase = 5
        BY <2>2, <2>3, FollowingSteps DEF Approaching
      <4> QED BY <2>3, <3>1, <4>1 DEF Unlimited, Mine
    <3>8. Arrived'
      BY <2>1, <3>2 DEF Arrived, Over
    <3> QED BY <3>3, <3>4, <3>5, <3>6, <3>7, <3>8
  <2> QED BY <2>5, <2>6
<1> QED BY <1>1, <1>2

LEMMA HomeHomed == ASSUME HomingRuns >= 2, NeverInv, Home PROVE HomedInv'
<1>1. queue \in Seq(Entry) /\ Drained /\ UNCHANGED mask
  BY DEF Home, AcceptsLine, pins, NeverInv, Types, TypesQueue
<1>2. ~Queued(queue, "restart")
  BY <1>1 DEF Drained, Queued
<1>3. PICK cycles \in Requests :
         /\ BeginCycle(Head(cycles), Tail(cycles), queue)
         /\ blocked' = blocked \ MotorsOf(Head(cycles))
  BY DEF Home
<1>4. cycles \in Seq((SUBSET Axes) \ {{}}) /\ cycles # <<>>
  BY HomingAssumption
<1>5. Head(cycles) # {}
  BY <1>4, TailIs
<1>6. blocked' \cap MotorsOf(Head(cycles)) = {}
  BY <1>3
<1> QED BY <1>1, <1>2, <1>3, <1>5, <1>6, BeginHomed

LEMMA HomedStep == HomingRuns >= 2 /\ NeverInv /\ HomedInv /\ [Next]_vars => HomedInv'
<1> SUFFICES ASSUME HomingRuns >= 2, NeverInv, HomedInv, [Next]_vars PROVE HomedInv'
  OBVIOUS
<1>1. CASE UNCHANGED vars
  BY <1>1, NoDull, AsideHomed DEF vars, protocol, cycle, pins, engine, motion
<1>2. CASE Handle
  BY <1>2, PinActiveHomed, PinInactiveHomed, LimitReachedHomed, CycleStartHomed, CycleStopHomed,
     AwayHomed, ResetHomed, RestartHomed DEF Handle
<1>3. CASE DwellEnd \/ Settled
  BY <1>3, DwellEndHomed, SettledHomed
<1>4. CASE SafetyDoor \/ LineEnds \/ Unlock
  BY <1>4, AwayHomed
<1>5. CASE Interrupt
  BY <1>5, RunDryHomed, TickHomed DEF Interrupt
<1>6. CASE Home
  BY <1>6, HomeHomed
<1>7. CASE (\E m \in Motors : Poll(m)) \/ (\E c \in Commands : Command(c))
  BY <1>7, SentHomed
<1> QED BY <1>1, <1>2, <1>3, <1>4, <1>5, <1>6, <1>7 DEF Next, Protocol

LEMMA HomedAt == NeverInv /\ HomedInv => HomedAtSwitch
<1> USE DEF PrePulloff, FastApproach, Pulloff0, SlowApproach, Pulloff1, Pulloff2, CycleDone
<1> SUFFICES ASSUME NeverInv, HomedInv, task = "settle", ~Approaching, EndsCycle(Following.phase),
                    NEW m \in Mine
             PROVE  pos[m] \in Pulloff[m] - Overrun[AxisOf[m]] .. Pulloff[m]
  BY DEF HomedAtSwitch, Mine
<1>1. phase \in 1 .. 6 /\ runs \in Int
  BY SettledClear
<1>2. (phase = 5 /\ ~NeedsPulloff2(cycleAxes)) \/ phase = 6
  BY <1>1, FollowingSteps DEF EndsCycle, Approaching
<1>3. Near(m, pos[m])
  BY <1>2 DEF HomedInv, Arrived, Over
<1>4. m \in Motors /\ AxisOf[m] \in cycleAxes
  BY DEF Mine, MotorsOf
<1>5. /\ Overrun[AxisOf[m]] \in Nat /\ Pulloff[m] \in Nat /\ CommonPulloff(AxisOf[m]) \in Nat
      /\ Pulloff[m] \in {CommonPulloff(AxisOf[m]), CommonPulloff(AxisOf[m]) + Extra(AxisOf[m])}
      /\ pos[m] \in Int
  BY <1>4, MotorIs DEF NeverInv, Types, TypesMotion
<1>6. Target(m) = Pulloff[m]
  <2>1. CASE phase = 5 /\ ~NeedsPulloff2(cycleAxes)
    <3>1. Extra(AxisOf[m]) = 0
      BY <1>4, <2>1 DEF NeedsPulloff2
    <3> QED BY <1>5, <2>1, <3>1 DEF Target
  <2>2. CASE phase = 6
    BY <2>2 DEF Target
  <2> QED BY <1>2, <2>1, <2>2
<1> QED BY <1>3, <1>5, <1>6 DEF Near

(* When a cycle has ended every motor of its axes stands at its own pull-off *)
(* from its switch, short of it by no more than the steps made before a      *)
(* report is handled (Homing.cpp:283-311).  The slow approach has to be      *)
(* there: with one homing run the pull-off follows the fast approach, and    *)
(* the cycleStop of an approach that runs dry as its switch closes, taken    *)
(* for the pull-off's own, ends it early.                                    *)
THEOREM HomedWhereMeant == ASSUME HomingRuns >= 2 PROVE Spec => []HomedAtSwitch
<1>1. Init => NeverInv /\ HomedInv
  BY NeverInit, HomedInit
<1>2. NeverInv /\ HomedInv /\ [Next]_vars => (NeverInv /\ HomedInv)'
  BY NeverStep, HomedStep
<1>3. NeverInv /\ HomedInv => HomedAtSwitch
  BY HomedAt
<1> QED BY <1>1, <1>2, <1>3, PTL DEF Spec
=============================================================================
