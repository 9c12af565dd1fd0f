---------------------------- MODULE EspNowProofs ----------------------------
(***************************************************************************)
(* No packet is acted on twice, each is taken from the slot of the pendant *)
(* that sent it, nothing sent before a stop is taken after it, and what is *)
(* put together was sent as one message, for every number of pendants, of  *)
(* packets, of slots and of disturbances, and every width of the window.   *)
(***************************************************************************)
EXTENDS EspNow, TLAPS

Kinds == {"hello", "keepalive", "message", "hold", "cancel", "start"}
Packets == [kind : Kinds, from : Pendants, run : Nat, nonce : Nat, count : Nat,
            seq : Nat, part : Nat, of : Nat]
Replay == [nonce : Nat, top : Nat, seen : SUBSET Nat, underflow : Nat]
Slot == [owner : Pendants, nonce : Nat, run : Nat, connected : BOOLEAN, echo : BOOLEAN,
         replay : Replay, barrier : Nat, frag : SUBSET Packets]
State == [run : Nat, nonce : Nat, count : Nat, seq : Nat]
Taken == [owner : Pendants, pieces : SUBSET Packets]

TypeInv ==
  /\ fresh \in Nat
  /\ slots \in Seq(Slot)
  /\ rxQueue \in Seq(Packets)
  /\ air \subseteq Packets
  /\ step = "handle" => packet \in Packets
  /\ pendant \in [Pendants -> State]
  /\ answers \in [Pendants -> SUBSET Nat]
  /\ acted \in Seq(Taken)

-----------------------------------------------------------------------------
(* Types.                                                                    *)

LEMMA ClearedType ==
  ASSUME NEW p \in Pendants, NEW n \in Nat
  PROVE  Cleared(p, n) \in Slot /\ Cleared(p, n).owner = p /\ Cleared(p, n).nonce = n
         /\ Cleared(p, n).frag = {}
  BY DEF Cleared, NoReplay, Slot, Replay

\* The counts a packet is judged by are of the slot's nonce.
LEMMA SyncedType ==
  ASSUME NEW s \in Slot
  PROVE  Synced(s) \in Replay /\ Synced(s).nonce = s.nonce
         /\ (s.replay.nonce = s.nonce => Synced(s) = s.replay)
  BY DEF Synced, NoReplay, Slot, Replay

LEMMA CountedType ==
  ASSUME NEW s \in Slot, NEW k \in Nat
  PROVE  LET t == [s EXCEPT !.replay = [Synced(s) EXCEPT !.underflow = k]] IN
         /\ t \in Slot /\ t.owner = s.owner /\ t.nonce = s.nonce /\ t.frag = s.frag
         /\ t.replay.nonce = s.nonce /\ t.replay.top = Synced(s).top /\ t.replay.seen = Synced(s).seen
<1>1. Synced(s) \in Replay /\ Synced(s).nonce = s.nonce
  BY SyncedType
<1>2. ASSUME NEW r \in Replay
      PROVE  /\ [r EXCEPT !.underflow = k] \in Replay
             /\ [r EXCEPT !.underflow = k].nonce = r.nonce
             /\ [r EXCEPT !.underflow = k].top = r.top
             /\ [r EXCEPT !.underflow = k].seen = r.seen
  BY DEF Replay
<1>3. ASSUME NEW r \in Replay
      PROVE  LET t == [s EXCEPT !.replay = r] IN
             t \in Slot /\ t.owner = s.owner /\ t.nonce = s.nonce /\ t.frag = s.frag /\ t.replay = r
  BY DEF Slot
<1>4. QED
  BY <1>1, <1>2, <1>3

Moved(r, t, e, u) == [r EXCEPT !.top = t, !.seen = e, !.underflow = u]

LEMMA MovedType ==
  ASSUME NEW r \in Replay, NEW t \in Nat, NEW e \in SUBSET Nat, NEW u \in Nat
  PROVE  /\ Moved(r, t, e, u) \in Replay /\ Moved(r, t, e, u).nonce = r.nonce
         /\ Moved(r, t, e, u).top = t /\ Moved(r, t, e, u).seen = e
  BY DEF Moved, Replay

Top(s, p) == IF p.count > Synced(s).top THEN p.count ELSE Synced(s).top
Seen(s, p) == {c \in Synced(s).seen \cup {p.count} : Top(s, p) - c < Window}
Under(s, p) == IF p.count > Synced(s).top THEN 0 ELSE Synced(s).underflow

\* What processing a packet's tag does to the slot (acceptReplay()).
LEMMA NotedType ==
  ASSUME NEW s \in Slot, NEW p \in Packets
  PROVE  /\ Noted(s, p) \in Slot
         /\ Noted(s, p).owner = s.owner /\ Noted(s, p).nonce = s.nonce /\ Noted(s, p).frag = s.frag
         /\ Noted(s, p).barrier = s.barrier
         /\ Noted(s, p).replay.nonce = s.nonce
         /\ Noted(s, p).replay.top = Top(s, p)
         /\ Noted(s, p).replay.seen = Seen(s, p)
<1>1. Synced(s) \in Replay /\ Synced(s).nonce = s.nonce
  BY SyncedType
<1>2. /\ Synced(s).top \in Nat /\ Synced(s).seen \in SUBSET Nat /\ Synced(s).underflow \in Nat
      /\ p.count \in Nat
  BY <1>1 DEF Replay, Packets
<1>3. Top(s, p) \in Nat /\ Seen(s, p) \in SUBSET Nat /\ Under(s, p) \in Nat
  BY <1>2 DEF Top, Seen, Under
<1> DEFINE new == Moved(Synced(s), Top(s, p), Seen(s, p), Under(s, p))
<1>4. new \in Replay /\ new.nonce = s.nonce /\ new.top = Top(s, p) /\ new.seen = Seen(s, p)
  BY <1>1, <1>3, MovedType
<1>5. ASSUME NEW n \in Replay
      PROVE  LET t == [s EXCEPT !.replay = n] IN
             /\ t \in Slot /\ t.owner = s.owner /\ t.nonce = s.nonce /\ t.frag = s.frag
             /\ t.barrier = s.barrier /\ t.replay = n
  BY DEF Slot
<1>6. Noted(s, p) = [s EXCEPT !.replay = new]
  BY DEF Noted, Moved, Top, Seen, Under
<1> HIDE DEF new
<1>7. QED
  BY <1>4, <1>5, <1>6

-----------------------------------------------------------------------------
(* What a step does: to the slots, to what has been acted on, to the radio.  *)

\* A count that the slot will not accept again.
Spent(s, c) ==
  s.replay.nonce = s.nonce /\ c <= s.replay.top /\ (c \in s.replay.seen \/ s.replay.top - c >= Window)

\* A slot keeps its session or gets a nonce never given before.
Stays(s, t) ==
  t.owner = s.owner /\ t.nonce = s.nonce /\ \A c \in Nat : Spent(s, c) => Spent(t, c)
Goes(i) == i \in DOMAIN slots /\ Stays(slots[i], slots'[i])
Given(i) == slots'[i].nonce \in fresh + 1 .. fresh'
Keeps(i, new) ==
  \/ slots'[i].frag = {}
  \/ /\ i \in DOMAIN slots /\ slots'[i].owner = slots[i].owner
     /\ slots'[i].frag \subseteq slots[i].frag \cup new

SlotStep(new) ==
  /\ fresh' >= fresh
  /\ \A i \in DOMAIN slots' : Goes(i) \/ Given(i)
  /\ \A i, j \in DOMAIN slots' : Given(i) /\ slots'[i].nonce = slots'[j].nonce => i = j
  /\ \A i \in DOMAIN slots' : Keeps(i, IF i = index THEN new ELSE {})

Quiet == SlotStep({}) /\ acted' = acted

\* The packet is accepted, and is never accepted again.
Busy ==
  /\ step = "handle" /\ index \in DOMAIN slots
  /\ Accepts(slots[index], packet)
  /\ SlotStep({packet})
  /\ DOMAIN slots' = DOMAIN slots
  /\ \A i \in DOMAIN slots : Goes(i)
  /\ Spent(slots'[index], packet.count)
  /\ \/ acted' = acted
     \/ \E pieces \in SUBSET (slots[index].frag \cup {packet}) :
          /\ acted' = Append(acted, [owner |-> slots[index].owner, pieces |-> pieces])
          /\ \/ slots'[index].frag = {}
             \/ pieces = {packet} /\ slots'[index].frag \subseteq slots[index].frag

Queued == {rxQueue[i] : i \in DOMAIN rxQueue}
Flying == air \cup Queued \cup (IF step = "handle" THEN {packet} ELSE {})

\* Nobody sends with, learns or answers with a nonce he has not got.
RadioStep ==
  /\ \A q \in Flying' : q \in Flying \/ (q.from \in Pendants /\ q.nonce = pendant[q.from].nonce)
  /\ \A p \in Pendants : pendant'[p].nonce \in {0, pendant[p].nonce} \cup answers[p]
  /\ \A p \in Pendants : \A n \in answers'[p] :
       n \in answers[p] \/ \E i \in DOMAIN slots : slots[i].owner = p /\ slots[i].nonce = n

\* A packet is of the run and the session of its pendant, and a message goes on where the last ended.
Made(q) ==
  /\ q.from \in Pendants /\ q.nonce = pendant[q.from].nonce /\ q.run = pendant[q.from].run
  /\ q.kind = "message" =>
       /\ q.nonce # 0 /\ q.of = 2 /\ q.part \in 0 .. 1 /\ q.seq = pendant[q.from].seq
       /\ q.count = pendant[q.from].count + 1 + q.part
       /\ pendant'[q.from].seq = pendant[q.from].seq + 1

\* A pendant goes on with its run, in which it is told of its slot's session, or starts another.
GoesOn(p) ==
  /\ pendant'[p].run = pendant[p].run /\ pendant'[p].seq >= pendant[p].seq
  /\ pendant'[p].nonce \in {pendant[p].nonce} \cup answers[p]
  /\ \A n \in answers'[p] :
       \/ n \in answers[p]
       \/ \E i \in DOMAIN slots : slots[i].owner = p /\ slots[i].nonce = n /\ slots[i].run = pendant[p].run
Restarts(p) ==
  pendant'[p].run = pendant[p].run + 1 /\ pendant'[p].nonce = 0 /\ answers'[p] = {}

SendStep ==
  /\ \A q \in Flying' : q \in Flying \/ Made(q)
  /\ \A p \in Pendants : GoesOn(p) \/ Restarts(p)

Step == TypeInv' /\ SendStep /\ RadioStep /\ (Quiet \/ Busy)

-----------------------------------------------------------------------------
(* Slots.                                                                    *)

LEMMA StaysReflexive == \A s : Stays(s, s)
  BY DEF Stays

LEMMA SlotSet ==
  ASSUME TypeInv, NEW i \in DOMAIN slots, NEW t \in Slot, slots' = [slots EXCEPT ![i] = t]
  PROVE  /\ slots' \in Seq(Slot) /\ DOMAIN slots' = DOMAIN slots
         /\ slots'[i] = t /\ \A j \in DOMAIN slots : j # i => slots'[j] = slots[j]
<1>1. slots \in Seq(Slot)
  BY DEF TypeInv
<1>2. QED
  BY <1>1

\* One slot is changed and keeps its session.
LEMMA SlotKept ==
  ASSUME TypeInv, NEW i \in DOMAIN slots, NEW t \in Slot, slots' = [slots EXCEPT ![i] = t],
         Stays(slots[i], t), NEW new, t.frag \subseteq slots[i].frag \cup new, new = {} \/ i = index,
         fresh' = fresh
  PROVE  slots' \in Seq(Slot) /\ SlotStep(new) /\ \A j \in DOMAIN slots : Goes(j)
<1>1. /\ slots' \in Seq(Slot) /\ DOMAIN slots' = DOMAIN slots
      /\ slots'[i] = t /\ \A j \in DOMAIN slots : j # i => slots'[j] = slots[j]
  BY SlotSet
<1>2. \A j \in DOMAIN slots : Goes(j)
  BY <1>1, StaysReflexive DEF Goes
<1>3. fresh \in Nat
  BY DEF TypeInv
<1>4. \A j \in DOMAIN slots' : ~Given(j)
  BY <1>3 DEF Given
<1>5. \A j \in DOMAIN slots' : Keeps(j, IF j = index THEN new ELSE {})
  <2> TAKE j \in DOMAIN slots'
  <2>1. CASE j = i
    <3>1. t.owner = slots[i].owner
      BY DEF Stays
    <3>2. t.frag \subseteq slots[i].frag \cup (IF i = index THEN new ELSE {})
      OBVIOUS
    <3>3. QED
      BY <1>1, <2>1, <3>1, <3>2 DEF Keeps
  <2>2. CASE j # i
    BY <1>1, <2>2 DEF Keeps
  <2>3. QED
    BY <2>1, <2>2
<1>6. QED
  BY <1>1, <1>2, <1>3, <1>4, <1>5 DEF SlotStep

\* One slot gets a new nonce.
LEMMA SlotRenewed ==
  ASSUME TypeInv, NEW i \in DOMAIN slots, NEW t \in Slot, slots' = [slots EXCEPT ![i] = t],
         fresh' = fresh + 1, t.nonce = fresh + 1,
         t.frag = {} \/ (t.owner = slots[i].owner /\ t.frag = slots[i].frag),
         \A j \in DOMAIN slots : slots[j].nonce <= fresh
  PROVE  slots' \in Seq(Slot) /\ SlotStep({})
<1>1. /\ slots' \in Seq(Slot) /\ DOMAIN slots' = DOMAIN slots
      /\ slots'[i] = t /\ \A j \in DOMAIN slots : j # i => slots'[j] = slots[j]
  BY SlotSet
<1>2. fresh \in Nat
  BY DEF TypeInv
<1>3. Given(i) /\ \A j \in DOMAIN slots : j # i => Goes(j) /\ ~Given(j)
  BY <1>1, <1>2, StaysReflexive DEF Given, Goes
<1>4. \A j \in DOMAIN slots' : Keeps(j, {})
  BY <1>1 DEF Keeps
<1>5. \A j, k \in DOMAIN slots' : Given(j) /\ slots'[j].nonce = slots'[k].nonce => j = k
  <2> TAKE j, k \in DOMAIN slots'
  <2> HAVE Given(j) /\ slots'[j].nonce = slots'[k].nonce
  <2>1. j = i
    BY <1>1, <1>3
  <2>2. Given(k)
    BY DEF Given
  <2>3. QED
    BY <1>1, <1>3, <2>1, <2>2
<1>6. \A j \in DOMAIN slots' : Goes(j) \/ Given(j)
  BY <1>1, <1>3
<1>7. QED
  BY <1>1, <1>2, <1>4, <1>5, <1>6 DEF SlotStep

-----------------------------------------------------------------------------
(* The replay window.                                                        *)

\* Counts that are spent are those of the slot's nonce.
LEMMA SyncedSpent ==
  ASSUME NEW s \in Slot, NEW c, Spent(s, c)
  PROVE  Synced(s) = s.replay
  BY SyncedType DEF Spent

LEMMA StaysWith ==
  ASSUME NEW s, NEW t, NEW u, Stays(s, t),
         u.owner = t.owner, u.nonce = t.nonce, u.replay = t.replay
  PROVE  Stays(s, u)
  BY DEF Stays, Spent

\* A packet that is not accepted spends and frees no count.
LEMMA CountedStays ==
  ASSUME NEW s \in Slot, NEW k \in Nat
  PROVE  Stays(s, [s EXCEPT !.replay = [Synced(s) EXCEPT !.underflow = k]])
<1> DEFINE t == [s EXCEPT !.replay = [Synced(s) EXCEPT !.underflow = k]]
<1>1. /\ t.owner = s.owner /\ t.nonce = s.nonce /\ t.replay.nonce = s.nonce
      /\ t.replay.top = Synced(s).top /\ t.replay.seen = Synced(s).seen
  BY CountedType
<1> HIDE DEF t
<1>2. ASSUME NEW c \in Nat, Spent(s, c) PROVE Spent(t, c)
  <2>1. Synced(s) = s.replay
    BY <1>2, SyncedSpent
  <2>2. QED
    BY <1>1, <1>2, <2>1 DEF Spent
<1>3. Stays(s, t)
  BY <1>1, <1>2 DEF Stays
<1>4. QED
  BY <1>3 DEF t

\* A count that leaves the window stays spent: it is too old from then on.
LEMMA NotedStays ==
  ASSUME NEW s \in Slot, NEW p \in Packets
  PROVE  Stays(s, Noted(s, p))
<1> DEFINE t == Noted(s, p)
<1>1. /\ t.owner = s.owner /\ t.nonce = s.nonce /\ t.replay.nonce = s.nonce
      /\ t.replay.top = Top(s, p) /\ t.replay.seen = Seen(s, p)
  BY NotedType
<1>2. Synced(s).top \in Nat /\ p.count \in Nat /\ Window \in Nat
  BY SyncedType, EspNowAssumption DEF Replay, Packets
<1>3. Top(s, p) \in Nat /\ Top(s, p) >= Synced(s).top
  BY <1>2 DEF Top
<1> HIDE DEF t
<1>4. ASSUME NEW c \in Nat, Spent(s, c) PROVE Spent(t, c)
  <2>1. Synced(s) = s.replay
    BY <1>4, SyncedSpent
  <2>2. c <= Top(s, p)
    BY <1>2, <1>3, <1>4, <2>1 DEF Spent
  <2>3. CASE Top(s, p) - c >= Window
    BY <1>1, <2>2, <2>3 DEF Spent
  <2>4. CASE ~(Top(s, p) - c >= Window)
    <3>1. Top(s, p) - c < Window
      BY <1>2, <1>3, <2>4
    <3>2. c \in s.replay.seen
      BY <1>2, <1>3, <1>4, <2>1, <3>1 DEF Spent
    <3>3. c \in Seen(s, p)
      BY <2>1, <3>1, <3>2 DEF Seen
    <3>4. QED
      BY <1>1, <2>2, <3>3 DEF Spent
  <2>5. QED
    BY <2>3, <2>4
<1>5. Stays(s, t)
  BY <1>1, <1>4 DEF Stays
<1>6. QED
  BY <1>5 DEF t

\* A packet is accepted if its count is not spent, and spends it.
LEMMA AcceptedOnce ==
  ASSUME NEW s \in Slot, NEW p \in Packets, Accepts(s, p)
  PROVE  p.nonce = s.nonce /\ ~Spent(s, p.count) /\ Spent(Noted(s, p), p.count)
<1> DEFINE t == Noted(s, p)
<1>1. /\ t.nonce = s.nonce /\ t.replay.nonce = s.nonce
      /\ t.replay.top = Top(s, p) /\ t.replay.seen = Seen(s, p)
  BY NotedType
<1>2. Synced(s).top \in Nat /\ p.count \in Nat /\ Window \in Nat \ {0}
  BY SyncedType, EspNowAssumption DEF Replay, Packets
<1>3. p.nonce = s.nonce
  BY DEF Accepts
<1>4. ~Spent(s, p.count)
  <2> SUFFICES ASSUME Spent(s, p.count) PROVE FALSE
    OBVIOUS
  <2>1. Synced(s) = s.replay
    BY SyncedSpent
  <2>2. QED
    BY <1>2, <2>1 DEF Spent, Accepts
<1> HIDE DEF t
<1>5. p.count <= Top(s, p) /\ Top(s, p) - p.count < Window
  BY <1>2 DEF Accepts, Top
<1>6. p.count \in Seen(s, p)
  BY <1>5 DEF Seen
<1>7. Spent(t, p.count)
  BY <1>1, <1>5, <1>6 DEF Spent
<1>8. QED
  BY <1>3, <1>4, <1>7 DEF t

-----------------------------------------------------------------------------
(* The steps that leave the slots alone.                                     *)

Bounds ==
  /\ \A i \in DOMAIN slots : slots[i].nonce \in 1 .. fresh
  /\ \A p \in Pendants : pendant[p].nonce <= fresh
  /\ \A p \in Pendants : \A n \in answers[p] : n <= fresh
  /\ \A q \in Flying : q.nonce <= fresh

LEMMA Unmoved ==
  ASSUME TypeInv, UNCHANGED <<slots, fresh, acted>>
  PROVE  Quiet
<1>1. \A i \in DOMAIN slots' : Goes(i) /\ ~Given(i) /\ Keeps(i, {})
  BY StaysReflexive DEF Goes, Given, Keeps, TypeInv
<1>2. QED
  BY <1>1 DEF Quiet, SlotStep, TypeInv

\* Who holds which nonce is not changed by what happens to packets on their way.
LEMMA SentRadio ==
  ASSUME SendStep
  PROVE  RadioStep
<1>1. \A q \in Flying' : q \in Flying \/ (q.from \in Pendants /\ q.nonce = pendant[q.from].nonce)
  BY DEF SendStep, Made
<1>2. \A p \in Pendants : pendant'[p].nonce \in {0, pendant[p].nonce} \cup answers[p]
  BY DEF SendStep, GoesOn, Restarts
<1>3. \A p \in Pendants : \A n \in answers'[p] :
        n \in answers[p] \/ \E i \in DOMAIN slots : slots[i].owner = p /\ slots[i].nonce = n
  BY DEF SendStep, GoesOn, Restarts
<1>4. QED
  BY <1>1, <1>2, <1>3 DEF RadioStep

LEMMA StateType ==
  ASSUME TypeInv, NEW p \in Pendants
  PROVE  /\ pendant[p] \in State
         /\ pendant[p].run \in Nat /\ pendant[p].nonce \in Nat
         /\ pendant[p].count \in Nat /\ pendant[p].seq \in Nat
<1>1. pendant[p] \in State
  BY DEF TypeInv
<1>2. QED
  BY <1>1 DEF State

LEMMA RadioQuiet ==
  ASSUME TypeInv, UNCHANGED <<pendant, answers>>, Flying' \subseteq Flying
  PROVE  SendStep /\ RadioStep
<1>1. \A p \in Pendants : pendant[p].seq \in Nat
  BY StateType
<1>2. \A p \in Pendants : GoesOn(p)
  BY <1>1 DEF GoesOn
<1>3. SendStep
  BY <1>2 DEF SendStep
<1>4. QED
  BY <1>3, SentRadio

\* What is in the queue, and what is left when a packet is taken.
LEMMA Queue ==
  ASSUME TypeInv
  PROVE  /\ Queued \subseteq Packets
         /\ rxQueue # <<>> => /\ Head(rxQueue) \in Queued /\ Tail(rxQueue) \in Seq(Packets)
                              /\ \A i \in DOMAIN Tail(rxQueue) : Tail(rxQueue)[i] \in Queued
<1>1. rxQueue \in Seq(Packets)
  BY DEF TypeInv
<1>2. Queued \subseteq Packets
  BY <1>1 DEF Queued
<1>3. ASSUME rxQueue # <<>>
      PROVE  /\ Head(rxQueue) = rxQueue[1] /\ 1 \in DOMAIN rxQueue /\ Tail(rxQueue) \in Seq(Packets)
             /\ DOMAIN Tail(rxQueue) = 1 .. Len(rxQueue) - 1
             /\ \A i \in 1 .. Len(rxQueue) - 1 : Tail(rxQueue)[i] = rxQueue[i + 1] /\ i + 1 \in DOMAIN rxQueue
  BY <1>1, <1>3
<1>4. QED
  BY <1>2, <1>3 DEF Queued

LEMMA ProcessPacketStep ==
  ASSUME TypeInv, ProcessPacket
  PROVE  Step
<1>1. UNCHANGED <<slots, fresh, acted, pendant, answers, air>>
  BY DEF ProcessPacket, roster, radio
<1>2. rxQueue # <<>> /\ rxQueue' = Tail(rxQueue)
  BY DEF ProcessPacket
<1>3. rxQueue' \in Seq(Packets) /\ Queued' \subseteq Queued /\ Head(rxQueue) \in Queued /\ Queued \subseteq Packets
  BY <1>2, Queue DEF Queued
<1>4. step' = "handle" => packet' = Head(rxQueue)
  BY DEF ProcessPacket, poller
<1>5. TypeInv'
  BY <1>1, <1>3, <1>4 DEF TypeInv
<1>6. Flying' \subseteq Flying
  BY <1>1, <1>3, <1>4 DEF Flying
<1>7. QED
  BY <1>1, <1>5, <1>6, Unmoved, RadioQuiet DEF Step

LEMMA PollerSteps ==
  ASSUME TypeInv, HandleRemoved \/ ReadLoad \/ ReadStore
  PROVE  Step
<1>1. UNCHANGED <<slots, fresh, acted, pendant, answers, air, rxQueue>> /\ step' # "handle"
  BY DEF HandleRemoved, ReadLoad, ReadStore, Done, roster, radio
<1>2. TypeInv'
  BY <1>1 DEF TypeInv
<1>3. Flying' \subseteq Flying
  BY <1>1 DEF Flying, Queued
<1>4. QED
  BY <1>1, <1>2, <1>3, Unmoved, RadioQuiet DEF Step

LEMMA FlushSteps ==
  ASSUME TypeInv, FlushLoad \/ FlushStore
  PROVE  Step
<1>1. UNCHANGED <<slots, fresh, acted, pendant, answers, air, rxQueue, step, packet>>
  BY DEF FlushLoad, FlushStore, roster, radio, poller
<1>2. TypeInv'
  BY <1>1 DEF TypeInv
<1>3. Flying' \subseteq Flying
  BY <1>1 DEF Flying, Queued
<1>4. QED
  BY <1>1, <1>2, <1>3, Unmoved, RadioQuiet DEF Step

LEMMA OnRecvStep ==
  ASSUME TypeInv, NEW p \in air, OnRecv(p)
  PROVE  Step
<1>1. UNCHANGED <<slots, fresh, acted, pendant, answers, step, packet>> /\ rxQueue' = Received(p)
  BY DEF OnRecv, roster, poller
<1>2. air' \subseteq air
  BY DEF OnRecv
<1>3. rxQueue \in Seq(Packets) /\ p \in Packets
  BY DEF TypeInv
<1>4. rxQueue' \in Seq(Packets) /\ Queued' \subseteq Queued \cup {p}
  <2>1. CASE Received(p) = rxQueue
    BY <1>1, <1>3, <2>1 DEF Queued
  <2>2. CASE Received(p) = Append(rxQueue, p)
    BY <1>1, <1>3, <2>2 DEF Queued
  <2>3. CASE Received(p) = <<p>> \o rxQueue
    BY <1>1, <1>3, <2>3 DEF Queued
  <2>4. CASE rxQueue # <<>> /\ Received(p) = <<p>> \o Tail(rxQueue)
    <3>1. Tail(rxQueue) \in Seq(Packets) /\ \A i \in DOMAIN Tail(rxQueue) : Tail(rxQueue)[i] \in Queued
      BY <2>4, Queue
    <3>2. ASSUME NEW q \in Seq(Packets), NEW i \in DOMAIN (<<p>> \o q)
          PROVE  (<<p>> \o q)[i] = p \/ \E k \in DOMAIN q : (<<p>> \o q)[i] = q[k]
      BY <1>3
    <3>3. <<p>> \o Tail(rxQueue) \in Seq(Packets)
      BY <1>3, <3>1
    <3>4. QED
      BY <1>1, <2>4, <3>1, <3>2, <3>3 DEF Queued
  <2>5. QED
    <3>1. Len(rxQueue) = QueueDepth => rxQueue # <<>>
      BY <1>3, EspNowAssumption
    <3>2. QED
      BY <2>1, <2>2, <2>3, <2>4, <3>1 DEF Received
<1>5. TypeInv'
  BY <1>1, <1>2, <1>4 DEF TypeInv
<1>6. Flying' \subseteq Flying
  BY <1>1, <1>2, <1>4 DEF Flying
<1>7. QED
  BY <1>1, <1>5, <1>6, Unmoved, RadioQuiet DEF Step

-----------------------------------------------------------------------------
(* The pendants.                                                             *)

LEMMA PacketType ==
  ASSUME TypeInv, NEW p \in Pendants, NEW kind \in Kinds, NEW n \in Nat, NEW seq \in Nat,
         NEW part \in Nat, NEW of \in Nat
  PROVE  LET q == Packet(p, kind, n, seq, part, of) IN
         /\ q \in Packets /\ q.from = p /\ q.kind = kind
         /\ q.nonce = pendant[p].nonce /\ q.run = pendant[p].run
         /\ q.count = n /\ q.seq = seq /\ q.part = part /\ q.of = of
<1>1. pendant[p].run \in Nat /\ pendant[p].nonce \in Nat
  BY StateType
<1>2. QED
  BY <1>1 DEF Packet, Packets

\* A pendant sends packets of its own, with the nonce it has.
LEMMA Sending ==
  ASSUME TypeInv, NEW p \in Pendants, NEW new \in SUBSET Packets, air' = air \cup new, Radios,
         answers' = answers, \A q \in new : Made(q),
         pendant' \in [Pendants -> State],
         \A q \in Pendants : /\ pendant'[q].nonce = pendant[q].nonce /\ pendant'[q].run = pendant[q].run
                              /\ pendant'[q].seq >= pendant[q].seq
  PROVE  Step
<1>1. UNCHANGED <<slots, fresh, acted, rxQueue, step, packet>>
  BY DEF Radios, roster, poller
<1>2. TypeInv'
  BY <1>1 DEF TypeInv
<1>3. \A q \in Flying' : q \in Flying \/ q \in new
  BY <1>1 DEF Flying, Queued
<1>4. \A q \in Pendants : GoesOn(q)
  BY DEF GoesOn
<1>5. SendStep
  BY <1>3, <1>4 DEF SendStep
<1>6. QED
  BY <1>1, <1>2, <1>5, SentRadio, Unmoved DEF Step

LEMMA SendHelloStep ==
  ASSUME TypeInv, NEW p \in Pendants, SendHello(p)
  PROVE  Step
<1> DEFINE q == Packet(p, "hello", 0, 0, 0, 0)
<1>1. q \in Packets /\ Made(q)
  BY PacketType DEF Kinds, Made
<1>2. air' = air \cup {q} /\ Radios /\ UNCHANGED <<pendant, answers>>
  BY DEF SendHello
<1> HIDE DEF q
<1>3. /\ pendant' \in [Pendants -> State]
      /\ \A r \in Pendants : /\ pendant'[r].nonce = pendant[r].nonce /\ pendant'[r].run = pendant[r].run
                              /\ pendant'[r].seq >= pendant[r].seq
  BY <1>2, StateType DEF TypeInv
<1>4. {q} \in SUBSET Packets /\ \A r \in {q} : Made(r)
  BY <1>1
<1>5. QED
  BY <1>2, <1>3, <1>4, Sending

LEMMA SendOneStep ==
  ASSUME TypeInv, NEW p \in Pendants, NEW kind \in Kinds, kind # "message", SendOne(p, kind)
  PROVE  Step
<1> DEFINE n == pendant[p].count + 1
           q == Packet(p, kind, n, 0, 0, 0)
           s == [pendant[p] EXCEPT !.count = n]
<1>1. n \in Nat
  BY StateType
<1>2. q \in Packets /\ Made(q)
  <2>1. /\ q \in Packets /\ q.from = p /\ q.kind = kind
        /\ q.nonce = pendant[p].nonce /\ q.run = pendant[p].run
    <3> HIDE DEF n
    <3>1. QED
      BY <1>1, PacketType, 0 \in Nat
  <2> HIDE DEF q
  <2>2. QED
    BY <2>1 DEF Made
<1>3. /\ air' = air \cup {q} /\ Radios /\ answers' = answers
      /\ pendant' = [pendant EXCEPT ![p] = s]
  BY DEF SendOne
<1> HIDE DEF q, n
<1>4. s \in State /\ s.nonce = pendant[p].nonce /\ s.run = pendant[p].run /\ s.seq >= pendant[p].seq
  BY <1>1, StateType DEF State
<1> HIDE DEF s
<1>5. /\ pendant' \in [Pendants -> State]
      /\ \A r \in Pendants : /\ pendant'[r].nonce = pendant[r].nonce /\ pendant'[r].run = pendant[r].run
                              /\ pendant'[r].seq >= pendant[r].seq
  BY <1>3, <1>4, StateType DEF TypeInv
<1>6. {q} \in SUBSET Packets /\ \A r \in {q} : Made(r)
  BY <1>2
<1>7. QED
  BY <1>3, <1>5, <1>6, Sending

LEMMA SendMessageStep ==
  ASSUME TypeInv, NEW p \in Pendants, SendMessage(p)
  PROVE  Step
<1> DEFINE n == pendant[p].count
           seq == pendant[p].seq
           new == {Packet(p, "message", n + 1 + k, seq, k, 2) : k \in 0 .. 1}
           s == [pendant[p] EXCEPT !.count = n + 2, !.seq = seq + 1]
<1>1. n \in Nat /\ seq \in Nat
  BY StateType
<1>2. /\ air' = air \cup new /\ Radios /\ answers' = answers /\ pendant[p].nonce # 0
      /\ pendant' = [pendant EXCEPT ![p] = s]
  BY DEF SendMessage
<1>3. /\ s \in State /\ s.nonce = pendant[p].nonce /\ s.run = pendant[p].run
      /\ s.seq = pendant[p].seq + 1
  <2>1. ASSUME NEW t \in State, NEW c \in Nat, NEW e \in Nat
        PROVE  LET u == [t EXCEPT !.count = c, !.seq = e] IN
               u \in State /\ u.nonce = t.nonce /\ u.run = t.run /\ u.seq = e
    BY DEF State
  <2>2. n + 2 \in Nat /\ seq + 1 \in Nat /\ pendant[p] \in State
    BY <1>1, StateType
  <2>3. QED
    BY <2>1, <2>2
<1> HIDE DEF s
<1>4. /\ pendant' \in [Pendants -> State] /\ pendant'[p].seq = pendant[p].seq + 1
      /\ \A r \in Pendants : /\ pendant'[r].nonce = pendant[r].nonce /\ pendant'[r].run = pendant[r].run
                              /\ pendant'[r].seq >= pendant[r].seq
  BY <1>2, <1>3, StateType DEF TypeInv
<1>5. ASSUME NEW k \in 0 .. 1
      PROVE  LET q == Packet(p, "message", n + 1 + k, seq, k, 2) IN q \in Packets /\ Made(q)
  <2>1. n + 1 + k \in Nat /\ k \in Nat /\ "message" \in Kinds
    BY <1>1 DEF Kinds
  <2> DEFINE q == Packet(p, "message", n + 1 + k, seq, k, 2)
  <2>2. /\ q \in Packets /\ q.from = p /\ q.kind = "message"
        /\ q.nonce = pendant[p].nonce /\ q.run = pendant[p].run
        /\ q.count = n + 1 + k /\ q.seq = seq /\ q.part = k /\ q.of = 2
    <3>1. ASSUME NEW c \in Nat, NEW e \in Nat
          PROVE  LET r == Packet(p, "message", c, e, k, 2) IN
                 /\ r \in Packets /\ r.from = p /\ r.kind = "message"
                 /\ r.nonce = pendant[p].nonce /\ r.run = pendant[p].run
                 /\ r.count = c /\ r.seq = e /\ r.part = k /\ r.of = 2
      <4> HIDE DEF new, s, q
      <4>1. pendant[p].run \in Nat /\ pendant[p].nonce \in Nat
        BY StateType
      <4>2. QED
        BY <2>1, <4>1 DEF Packet, Packets
    <3> HIDE DEF n, seq
    <3>2. QED
      BY <1>1, <2>1, <3>1
  <2> HIDE DEF q
  <2>3. Made(q)
    BY <1>2, <1>4, <2>2 DEF Made
  <2>4. QED
    BY <2>2, <2>3 DEF q
<1>6. new \in SUBSET Packets /\ \A q \in new : Made(q)
  BY <1>5
<1> HIDE DEF new
<1>7. QED
  BY <1>2, <1>4, <1>6, Sending

\* A pendant gets a nonce that was sent to it, or forgets all.
LEMMA Relearning ==
  ASSUME TypeInv, NEW p \in Pendants, Radios, air' = air,
         answers' \in [Pendants -> SUBSET Nat],
         \A q \in Pendants : answers'[q] \subseteq answers[q],
         pendant' \in [Pendants -> State],
         \A q \in Pendants : GoesOn(q) \/ Restarts(q)
  PROVE  Step
<1>1. UNCHANGED <<slots, fresh, acted, rxQueue, step, packet>>
  BY DEF Radios, roster, poller
<1>2. TypeInv'
  BY <1>1 DEF TypeInv
<1>3. Flying' = Flying
  BY <1>1 DEF Flying, Queued
<1>4. SendStep
  BY <1>3 DEF SendStep
<1>5. QED
  BY <1>1, <1>2, <1>4, SentRadio, Unmoved DEF Step

LEMMA LearnStep ==
  ASSUME TypeInv, NEW p \in Pendants, NEW nonce \in answers[p], Learn(p, nonce)
  PROVE  Step
<1> DEFINE s == [pendant[p] EXCEPT !.nonce = nonce, !.count = 0]
<1>1. answers \in [Pendants -> SUBSET Nat] /\ pendant \in [Pendants -> State] /\ nonce \in Nat
  BY DEF TypeInv
<1>2. /\ answers' = [answers EXCEPT ![p] = answers[p] \ {nonce}] /\ Radios /\ air' = air
      /\ pendant' = pendant \/ pendant' = [pendant EXCEPT ![p] = s]
  BY DEF Learn
<1>3. s \in State /\ s.nonce = nonce /\ s.run = pendant[p].run /\ s.seq = pendant[p].seq
  BY <1>1, StateType DEF State
<1> HIDE DEF s
<1>4. /\ answers' \in [Pendants -> SUBSET Nat]
      /\ \A q \in Pendants : answers'[q] \subseteq answers[q]
  BY <1>1, <1>2
<1>5. /\ pendant' \in [Pendants -> State]
      /\ \A q \in Pendants : /\ pendant'[q].nonce \in {pendant[q].nonce} \cup answers[q]
                              /\ pendant'[q].run = pendant[q].run /\ pendant'[q].seq = pendant[q].seq
  BY <1>1, <1>2, <1>3
<1>6. \A q \in Pendants : GoesOn(q)
  BY <1>4, <1>5, StateType DEF GoesOn
<1>7. QED
  BY <1>2, <1>4, <1>5, <1>6, Relearning

LEMMA RestartStep ==
  ASSUME TypeInv, NEW p \in Pendants, Restart(p)
  PROVE  Step
<1> DEFINE s == [run |-> pendant[p].run + 1, nonce |-> 0, count |-> 0, seq |-> 0]
<1>1. answers \in [Pendants -> SUBSET Nat] /\ pendant \in [Pendants -> State]
  BY DEF TypeInv
<1>2. /\ answers' = [answers EXCEPT ![p] = {}] /\ Radios /\ air' = air
      /\ pendant' = [pendant EXCEPT ![p] = s]
  BY DEF Restart
<1>3. s \in State /\ s.nonce = 0 /\ s.run = pendant[p].run + 1
  BY StateType DEF State
<1> HIDE DEF s
<1>4. /\ answers' \in [Pendants -> SUBSET Nat] /\ pendant' \in [Pendants -> State]
      /\ \A q \in Pendants : answers'[q] \subseteq answers[q]
  BY <1>1, <1>2, <1>3
<1>5. Restarts(p) /\ \A q \in Pendants : q # p => GoesOn(q)
  BY <1>1, <1>2, <1>3, StateType DEF Restarts, GoesOn
<1>6. QED
  BY <1>2, <1>4, <1>5, Relearning

LEMMA PendantStep ==
  ASSUME TypeInv, NEW p \in Pendants, Pendant(p)
  PROVE  Step
<1>1. Sent[p] \subseteq Kinds
  BY EspNowAssumption DEF Kinds
<1>2. QED
  BY <1>1, SendHelloStep, SendOneStep, SendMessageStep, LearnStep, RestartStep DEF Pendant

-----------------------------------------------------------------------------
(* The steps that change slots.                                              *)

LEMMA SlotType ==
  ASSUME TypeInv, NEW i \in DOMAIN slots
  PROVE  slots[i] \in Slot
  BY DEF TypeInv

\* A handler returns.
LEMMA Finish ==
  ASSUME TypeInv, Done, UNCHANGED <<rxQueue, radio>>,
         slots' \in Seq(Slot), fresh' \in Nat, acted' \in Seq(Taken), Quiet \/ Busy
  PROVE  Step
<1>1. UNCHANGED <<pendant, answers, air, rxQueue>> /\ step' # "handle"
  BY DEF Done, radio
<1>2. TypeInv'
  BY <1>1 DEF TypeInv
<1>3. Flying' \subseteq Flying
  BY <1>1 DEF Flying, Queued
<1>4. QED
  BY <1>1, <1>2, <1>3, RadioQuiet DEF Step

CountedTo(s, k) == [s EXCEPT !.replay = [Synced(s) EXCEPT !.underflow = k]]

\* A packet that is not accepted is counted if it is too old, and may earn a new nonce.
LEMMA CountedStep ==
  ASSUME TypeInv, NEW i \in DOMAIN slots, NEW k \in Nat,
         slots' = [slots EXCEPT ![i] = CountedTo(slots[i], k)], fresh' = fresh
  PROVE  slots' \in Seq(Slot) /\ fresh' \in Nat /\ SlotStep({})
<1>1. slots[i] \in Slot /\ fresh \in Nat
  BY SlotType DEF TypeInv
<1>2. /\ CountedTo(slots[i], k) \in Slot /\ CountedTo(slots[i], k).frag = slots[i].frag
      /\ Stays(slots[i], CountedTo(slots[i], k))
  BY <1>1, CountedType, CountedStays DEF CountedTo
<1>3. CountedTo(slots[i], k).frag \subseteq slots[i].frag \cup {}
  BY <1>2
<1>4. QED
  BY <1>1, <1>2, <1>3, SlotKept

LEMMA RejectsStep ==
  ASSUME TypeInv, Bounds, NEW i \in DOMAIN slots, NEW p \in Packets, Rejects(i, p)
  PROVE  slots' \in Seq(Slot) /\ fresh' \in Nat /\ SlotStep({})
<1> DEFINE s == slots[i]
           n == Synced(s).underflow + 1
           c == CountedTo(s, 0)
           t == [c EXCEPT !.nonce = fresh + 1]
<1>1. s \in Slot /\ fresh \in Nat
  BY SlotType DEF TypeInv
<1>2. Synced(s).underflow \in Nat
  BY <1>1, SyncedType DEF Replay
<1>3. n \in Nat /\ n - 1 \in Nat
  BY <1>2
<1>4. ASSUME slots' = [slots EXCEPT ![i] = t], fresh' = fresh + 1
      PROVE  slots' \in Seq(Slot) /\ fresh' \in Nat /\ SlotStep({})
  <2>1. c \in Slot /\ c.frag = s.frag /\ c.owner = s.owner
    BY <1>1, CountedType DEF CountedTo
  <2> HIDE DEF c
  <2>2. t \in Slot /\ t.nonce = fresh + 1 /\ t.frag = s.frag /\ t.owner = s.owner
    BY <1>1, <2>1 DEF Slot
  <2> HIDE DEF t
  <2>3. \A j \in DOMAIN slots : slots[j].nonce <= fresh
    BY <1>1 DEF Bounds
  <2>4. slots' \in Seq(Slot) /\ SlotStep({})
    BY <1>4, <2>2, <2>3, SlotRenewed
  <2>5. QED
    BY <1>1, <1>4, <2>4
<1>5. \/ \E k \in {n - 1, n, 0} : slots' = [slots EXCEPT ![i] = CountedTo(s, k)] /\ fresh' = fresh
      \/ slots' = [slots EXCEPT ![i] = t] /\ fresh' = fresh + 1
  BY DEF Rejects, CountedTo
<1> HIDE DEF t, n
<1>6. \/ \E k \in Nat : slots' = [slots EXCEPT ![i] = CountedTo(slots[i], k)] /\ fresh' = fresh
      \/ slots' = [slots EXCEPT ![i] = t] /\ fresh' = fresh + 1
  BY <1>3, <1>5
<1>7. QED
  BY <1>4, <1>6, CountedStep

Greeted(c, r, f) == [c EXCEPT !.run = r, !.echo = TRUE, !.frag = f]

LEMMA GreetedType ==
  ASSUME NEW c \in Slot, NEW r \in Nat, NEW f \in SUBSET Packets
  PROVE  /\ Greeted(c, r, f) \in Slot /\ Greeted(c, r, f).owner = c.owner
         /\ Greeted(c, r, f).nonce = c.nonce /\ Greeted(c, r, f).frag = f
  BY DEF Slot, Greeted

LEMMA HandleHelloStep ==
  ASSUME TypeInv, Bounds, HandleHello
  PROVE  Step
<1> DEFINE s == slots[index]
           t == [s EXCEPT !.echo = TRUE]
           u == Greeted(Cleared(s.owner, fresh + 1), packet.run, s.frag)
<1>1. index \in DOMAIN slots /\ packet \in Packets /\ Done
  BY DEF HandleHello, Handles, Paired, TypeInv
<1>2. UNCHANGED <<rxQueue, radio, acted>>
  BY DEF HandleHello
<1>3. s \in Slot /\ s.owner \in Pendants /\ s.frag \in SUBSET Packets /\ fresh \in Nat
  BY <1>1, SlotType DEF Slot, TypeInv
<1>4. CASE slots' = [slots EXCEPT ![index] = t] /\ fresh' = fresh
  <2>1. /\ t \in Slot /\ t.owner = s.owner /\ t.nonce = s.nonce /\ t.replay = s.replay
        /\ t.frag = s.frag
    BY <1>3 DEF Slot
  <2> HIDE DEF t
  <2>2. Stays(s, t)
    BY <2>1, StaysReflexive, StaysWith
  <2>3. t.frag \subseteq slots[index].frag \cup {}
    BY <2>1
  <2>4. slots' \in Seq(Slot) /\ SlotStep({})
    BY <1>1, <1>4, <2>1, <2>2, <2>3, SlotKept
  <2>5. QED
    BY <1>1, <1>2, <1>3, <1>4, <2>4, Finish DEF Quiet, TypeInv
<1>5. CASE slots' = [slots EXCEPT ![index] = u] /\ fresh' = fresh + 1
  <2>1. fresh + 1 \in Nat
    BY <1>3
  <2>2. Cleared(s.owner, fresh + 1) \in Slot /\ Cleared(s.owner, fresh + 1).owner = s.owner
        /\ Cleared(s.owner, fresh + 1).nonce = fresh + 1
    BY <1>3, <2>1, ClearedType
  <2>3. packet.run \in Nat
    BY <1>1 DEF Packets
  <2>5. u \in Slot /\ u.nonce = fresh + 1 /\ u.frag = s.frag /\ u.owner = s.owner
    BY <1>3, <2>2, <2>3, GreetedType
  <2> HIDE DEF u
  <2>6. \A j \in DOMAIN slots : slots[j].nonce <= fresh
    BY <1>3 DEF Bounds
  <2>7. slots' \in Seq(Slot) /\ SlotStep({})
    BY <1>1, <1>5, <2>5, <2>6, SlotRenewed
  <2>8. QED
    BY <1>1, <1>2, <1>5, <2>1, <2>7, Finish DEF Quiet, TypeInv
<1>6. QED
  BY <1>4, <1>5 DEF HandleHello, Greeted

LEMMA HandleKeepaliveStep ==
  ASSUME TypeInv, Bounds, HandleKeepalive
  PROVE  Step
<1> DEFINE s == slots[index]
           m == Noted(s, packet)
           t == [m EXCEPT !.run = packet.run, !.connected = TRUE, !.echo = TRUE]
<1>1. index \in DOMAIN slots /\ packet \in Packets /\ Done
  BY DEF HandleKeepalive, Handles, Paired, TypeInv
<1>2. UNCHANGED <<rxQueue, radio, acted>>
  BY DEF HandleKeepalive
<1>3. s \in Slot /\ packet.run \in Nat /\ fresh \in Nat
  BY <1>1, SlotType DEF Packets, TypeInv
<1>4. CASE Rejects(index, packet)
  BY <1>1, <1>2, <1>4, RejectsStep, Finish DEF Quiet, TypeInv
<1>5. CASE slots' = [slots EXCEPT ![index] = t] /\ fresh' = fresh
  <2>1. m \in Slot /\ m.frag = s.frag /\ Stays(s, m)
    BY <1>1, <1>3, NotedType, NotedStays
  <2> HIDE DEF m
  <2>2. /\ t \in Slot /\ t.owner = m.owner /\ t.nonce = m.nonce /\ t.replay = m.replay
        /\ t.frag = m.frag
    BY <1>3, <2>1 DEF Slot
  <2> HIDE DEF t
  <2>3. Stays(s, t)
    BY <2>1, <2>2, StaysWith
  <2>4. t.frag \subseteq slots[index].frag \cup {}
    BY <2>1, <2>2
  <2>5. slots' \in Seq(Slot) /\ SlotStep({})
    BY <1>1, <1>5, <2>2, <2>3, <2>4, SlotKept
  <2>6. QED
    BY <1>1, <1>2, <1>3, <1>5, <2>5, Finish DEF Quiet, TypeInv
<1>6. QED
  BY <1>4, <1>5 DEF HandleKeepalive

-----------------------------------------------------------------------------
(* The steps that act on a packet.                                           *)

Connected(s) == [s EXCEPT !.connected = TRUE]
Barred(s, b) == [s EXCEPT !.barrier = b]
Fitted(s, f) == [s EXCEPT !.connected = TRUE, !.frag = f]

LEMMA DressedType ==
  ASSUME NEW s \in Slot, NEW b \in Nat, NEW f \in SUBSET Packets, NEW t \in {Connected(s), Barred(s, b), Fitted(s, f)}
  PROVE  /\ t \in Slot /\ t.owner = s.owner /\ t.nonce = s.nonce /\ t.replay = s.replay
         /\ t.frag = IF t = Fitted(s, f) THEN f ELSE s.frag
<1>1. CASE t = Connected(s)
  BY <1>1 DEF Connected, Slot, Fitted
<1>2. CASE t = Barred(s, b)
  BY <1>2 DEF Barred, Slot, Fitted
<1>3. CASE t = Fitted(s, f)
  BY <1>3 DEF Fitted, Slot
<1>4. QED
  BY <1>1, <1>2, <1>3

LEMMA ActedType ==
  ASSUME TypeInv, NEW o \in Pendants, NEW pieces \in SUBSET Packets,
         acted' = Append(acted, [owner |-> o, pieces |-> pieces])
  PROVE  acted' \in Seq(Taken)
<1>1. [owner |-> o, pieces |-> pieces] \in Taken
  BY DEF Taken
<1>2. QED
  BY <1>1 DEF TypeInv

Acts(pieces) == acted' = Append(acted, [owner |-> slots[index].owner, pieces |-> pieces])

\* What an accepted packet does to its slot, whatever else the handler sets in it.
LEMMA AcceptedStep ==
  ASSUME TypeInv, step = "handle", packet \in Packets, index \in DOMAIN slots,
         Accepts(slots[index], packet), NEW m \in Slot, m = Noted(slots[index], packet),
         NEW t \in Slot, t.owner = m.owner, t.nonce = m.nonce, t.replay = m.replay,
         t.frag \subseteq slots[index].frag \cup {packet},
         slots' = [slots EXCEPT ![index] = t], fresh' = fresh
  PROVE  /\ slots' \in Seq(Slot) /\ DOMAIN slots' = DOMAIN slots /\ slots'[index] = t
         /\ SlotStep({packet}) /\ (\A i \in DOMAIN slots : Goes(i)) /\ Spent(t, packet.count)
<1>1. slots[index] \in Slot
  BY SlotType
<1>2. Stays(slots[index], m) /\ Spent(m, packet.count)
  BY <1>1, NotedStays, AcceptedOnce
<1>3. Stays(slots[index], t)
  BY <1>2, StaysWith
<1>4. Spent(t, packet.count)
  BY <1>2 DEF Spent
<1>5. slots' \in Seq(Slot) /\ DOMAIN slots' = DOMAIN slots /\ slots'[index] = t
  BY SlotSet
<1>6. SlotStep({packet}) /\ \A i \in DOMAIN slots : Goes(i)
  BY <1>3, SlotKept
<1>7. QED
  BY <1>4, <1>5, <1>6

LEMMA GatheredFrom ==
  ASSUME NEW frag, NEW p, NEW late \in BOOLEAN
  PROVE  Gathered(frag, p, late) \subseteq frag \cup {p}
  BY DEF Gathered

LEMMA HandleDataStep ==
  ASSUME TypeInv, Bounds, HandleData
  PROVE  Step
<1> DEFINE s == slots[index]
           m == Noted(s, packet)
<1>1. step = "handle" /\ index \in DOMAIN slots /\ packet \in Packets /\ Done
  BY DEF HandleData, Handles, Paired, TypeInv
<1>2. UNCHANGED <<rxQueue, radio>>
  BY DEF HandleData
<1>3. s \in Slot /\ s.owner \in Pendants /\ s.frag \in SUBSET Packets /\ fresh \in Nat /\ acted \in Seq(Taken)
  BY <1>1, SlotType DEF Slot, TypeInv
<1>4. m \in Slot /\ m.frag = s.frag /\ Stays(s, m)
  BY <1>1, <1>3, NotedType, NotedStays
<1>5. CASE Rejects(index, packet) /\ acted' = acted
  BY <1>1, <1>2, <1>3, <1>5, RejectsStep, Finish DEF Quiet
<1>6. CASE slots' = [slots EXCEPT ![index] = m] /\ fresh' = fresh /\ acted' = acted
  <2> HIDE DEF m
  <2>1. m.frag \subseteq slots[index].frag \cup {}
    BY <1>4
  <2>2. slots' \in Seq(Slot) /\ SlotStep({})
    BY <1>1, <1>4, <1>6, <2>1, SlotKept
  <2>3. QED
    BY <1>1, <1>2, <1>3, <1>6, <2>2, Finish DEF Quiet
<1>7. ASSUME NEW late \in BOOLEAN, NEW frag, frag = Gathered(s.frag, packet, late), NEW left,
             left \in {{}, frag}, Accepts(s, packet),
             slots' = [slots EXCEPT ![index] = Fitted(m, left)], fresh' = fresh,
             acted' = acted \/ (left = {} /\ Acts(frag))
      PROVE  Step
  <2>1. frag \subseteq s.frag \cup {packet}
    BY <1>7, GatheredFrom
  <2>2. left \in SUBSET Packets /\ frag \in SUBSET Packets /\ left \subseteq s.frag \cup {packet}
    BY <1>1, <1>3, <1>7, <2>1
  <2> DEFINE t == Fitted(m, left)
  <2>3. t \in Slot /\ t.owner = m.owner /\ t.nonce = m.nonce /\ t.replay = m.replay /\ t.frag = left
    BY <1>4, <2>2, DressedType, 0 \in Nat
  <2>4. slots' = [slots EXCEPT ![index] = t]
    BY <1>7
  <2> HIDE DEF t
  <2>5. /\ slots' \in Seq(Slot) /\ DOMAIN slots' = DOMAIN slots /\ slots'[index] = t
        /\ SlotStep({packet}) /\ (\A i \in DOMAIN slots : Goes(i)) /\ Spent(t, packet.count)
    BY <1>1, <1>4, <1>7, <2>2, <2>3, <2>4, AcceptedStep
  <2>6. acted' = acted \/ (slots'[index].frag = {} /\ Acts(frag))
    BY <1>7, <2>3, <2>5
  <2>7. Busy
    BY <1>1, <1>7, <2>1, <2>5, <2>6 DEF Busy, Acts
  <2>8. acted' \in Seq(Taken)
    BY <1>3, <2>2, <2>6, ActedType DEF Acts
  <2>9. QED
    BY <1>1, <1>2, <1>3, <1>7, <2>5, <2>7, <2>8, Finish
<1>8. \/ Rejects(index, packet) /\ acted' = acted
      \/ slots' = [slots EXCEPT ![index] = m] /\ fresh' = fresh /\ acted' = acted
      \/ \E late \in BOOLEAN : \E left \in {{}, Gathered(s.frag, packet, late)} :
           /\ Accepts(s, packet)
           /\ slots' = [slots EXCEPT ![index] = Fitted(m, left)] /\ fresh' = fresh
           /\ acted' = acted \/ (left = {} /\ Acts(Gathered(s.frag, packet, late)))
  <2>1. CASE \/ ~Accepts(s, packet)
             \/ packet.count <= s.barrier
    BY <2>1 DEF HandleData
  <2>2. CASE Accepts(s, packet) /\ ~(packet.count <= s.barrier)
    <3>1. PICK late \in BOOLEAN :
            LET frag == Gathered(s.frag, packet, late) IN
            /\ slots' = [slots EXCEPT ![index] =
                  [m EXCEPT !.connected = TRUE, !.frag = IF Complete(frag) THEN {} ELSE frag]]
            /\ IF Complete(frag) /\ Room > 0 THEN Act(s.owner, frag) /\ head' = head + 1
               ELSE UNCHANGED <<acted, head>>
            /\ UNCHANGED fresh
      BY <2>2 DEF HandleData
    <3>2. CASE Complete(Gathered(s.frag, packet, late))
      BY <2>2, <3>1, <3>2 DEF Fitted, Act, Acts
    <3>3. CASE ~Complete(Gathered(s.frag, packet, late))
      BY <2>2, <3>1, <3>3 DEF Fitted
    <3>4. QED
      BY <3>2, <3>3
  <2>3. QED
    BY <2>1, <2>2
<1> HIDE DEF m
<1>9. QED
  BY <1>5, <1>6, <1>7, <1>8

Emptied(s) == [s EXCEPT !.frag = {}]

\* A handler, or the flush, drops the packets gathered in every slot.
LEMMA WithoutFragsStep ==
  ASSUME TypeInv, NEW all \in Seq(Slot), DOMAIN all = DOMAIN slots,
         \A i \in DOMAIN slots : Stays(slots[i], all[i]),
         slots' = WithoutFrags(all), fresh' = fresh
  PROVE  /\ slots' \in Seq(Slot) /\ DOMAIN slots' = DOMAIN slots
         /\ \A i \in DOMAIN slots : slots'[i].frag = {} /\ Goes(i)
                                    /\ slots'[i].nonce = all[i].nonce /\ slots'[i].replay = all[i].replay
         /\ \A new : SlotStep(new)
<1>1. fresh \in Nat /\ DOMAIN slots = 1 .. Len(all) /\ Len(all) \in Nat
  BY DEF TypeInv
<1>2. ASSUME NEW s \in Slot
      PROVE  /\ Emptied(s) \in Slot /\ Emptied(s).owner = s.owner /\ Emptied(s).nonce = s.nonce
             /\ Emptied(s).replay = s.replay /\ Emptied(s).frag = {}
  BY DEF Slot, Emptied
<1>3. /\ DOMAIN slots' = DOMAIN slots /\ slots' = [i \in 1 .. Len(all) |-> Emptied(all[i])]
      /\ \A i \in DOMAIN slots : all[i] \in Slot /\ slots'[i] = Emptied(all[i])
  BY <1>1 DEF WithoutFrags, Emptied
<1>4. \A i \in DOMAIN slots :
        /\ slots'[i] \in Slot /\ slots'[i].owner = all[i].owner /\ slots'[i].nonce = all[i].nonce
        /\ slots'[i].replay = all[i].replay /\ slots'[i].frag = {}
  BY <1>2, <1>3
<1>5. slots' \in Seq(Slot)
  BY <1>1, <1>3, <1>4
<1>6. \A i \in DOMAIN slots : Goes(i)
  BY <1>3, <1>4, StaysWith DEF Goes
<1>7. \A i \in DOMAIN slots' : ~Given(i)
  BY <1>1 DEF Given
<1>8. \A new : SlotStep(new)
  BY <1>1, <1>3, <1>4, <1>6, <1>7 DEF SlotStep, Keeps
<1>9. QED
  BY <1>3, <1>4, <1>5, <1>6, <1>8

\* A claim that is refused has its count spent and is not acted on.
LEMMA HandleRealtimeStep ==
  ASSUME TypeInv, Bounds, HandleRealtime
  PROVE  Step
<1> DEFINE s == slots[index]
           n == Noted(s, packet)
           m == Barred(n, Barrier(s, packet))
           t == Connected(m)
           taken == [slots EXCEPT ![index] = t]
<1>1. step = "handle" /\ index \in DOMAIN slots /\ packet \in Packets /\ Done
  BY DEF HandleRealtime, Handles, Paired, TypeInv
<1>2. UNCHANGED <<rxQueue, radio>>
  BY DEF HandleRealtime
<1>3. /\ s \in Slot /\ s.owner \in Pendants /\ s.frag \in SUBSET Packets /\ fresh \in Nat
      /\ acted \in Seq(Taken)
  BY <1>1, SlotType DEF Slot, TypeInv
<1>4. n \in Slot /\ n.frag = s.frag /\ Stays(s, n)
  BY <1>1, <1>3, NotedType, NotedStays
<1>5. Barrier(s, packet) \in Nat
  BY <1>1, <1>3 DEF Barrier, Packets, Slot
<1>6. /\ m \in Slot /\ m.owner = n.owner /\ m.nonce = n.nonce /\ m.replay = n.replay
      /\ m.frag = n.frag
  BY <1>4, <1>5 DEF Barred, Slot
<1>7. CASE Rejects(index, packet) /\ acted' = acted
  BY <1>1, <1>2, <1>3, <1>7, RejectsStep, Finish DEF Quiet
<1>8. CASE slots' = [slots EXCEPT ![index] = m] /\ fresh' = fresh /\ acted' = acted
  <2> HIDE DEF m, n
  <2>1. m.frag \subseteq slots[index].frag \cup {} /\ Stays(s, m)
    BY <1>4, <1>6, StaysWith
  <2>2. slots' \in Seq(Slot) /\ SlotStep({})
    BY <1>1, <1>6, <1>8, <2>1, SlotKept
  <2>3. QED
    BY <1>1, <1>2, <1>3, <1>8, <2>2, Finish DEF Quiet
<1>9. /\ t \in Slot /\ t.owner = n.owner /\ t.nonce = n.nonce /\ t.replay = n.replay
      /\ t.frag = s.frag
  <2> HIDE DEF m, n
  <2>1. t \in Slot /\ t.owner = m.owner /\ t.nonce = m.nonce /\ t.replay = m.replay /\ t.frag = m.frag
    BY <1>6 DEF Connected, Slot
  <2>2. QED
    BY <1>4, <1>6, <2>1
<1> HIDE DEF t, n, m
<1>10. CASE slots' = taken /\ fresh' = fresh /\ Accepts(s, packet) /\ Acts({packet})
  <2>1. /\ slots' \in Seq(Slot) /\ DOMAIN slots' = DOMAIN slots /\ slots'[index] = t
        /\ SlotStep({packet}) /\ (\A i \in DOMAIN slots : Goes(i)) /\ Spent(t, packet.count)
    <3>1. t.frag \subseteq slots[index].frag \cup {packet}
      BY <1>9
    <3>2. n = Noted(slots[index], packet)
      BY DEF n
    <3>3. QED
      BY <1>1, <1>4, <1>9, <1>10, <3>1, <3>2, AcceptedStep
  <2>2. {packet} \in SUBSET (s.frag \cup {packet}) /\ {packet} \in SUBSET Packets
    BY <1>1
  <2>3. Busy
    BY <1>1, <1>9, <1>10, <2>1, <2>2 DEF Busy, Acts
  <2>4. acted' \in Seq(Taken)
    BY <1>3, <1>10, <2>2, ActedType DEF Acts
  <2>5. QED
    BY <1>1, <1>2, <1>3, <1>10, <2>1, <2>3, <2>4, Finish
<1>11. CASE slots' = WithoutFrags(taken) /\ fresh' = fresh /\ Accepts(s, packet) /\ Acts({packet})
  <2>1. /\ taken \in Seq(Slot) /\ DOMAIN taken = DOMAIN slots /\ taken[index] = t
        /\ \A i \in DOMAIN slots : i # index => taken[i] = slots[i]
    BY <1>1, <1>9 DEF TypeInv
  <2>2. Stays(s, t)
    BY <1>4, <1>9, StaysWith
  <2>3. \A i \in DOMAIN slots : Stays(slots[i], taken[i])
    BY <2>1, <2>2, StaysReflexive
  <2> HIDE DEF taken
  <2>4. /\ slots' \in Seq(Slot) /\ DOMAIN slots' = DOMAIN slots
        /\ \A i \in DOMAIN slots : slots'[i].frag = {} /\ Goes(i)
                                   /\ slots'[i].nonce = taken[i].nonce /\ slots'[i].replay = taken[i].replay
        /\ SlotStep({packet})
    BY <1>11, <2>1, <2>3, WithoutFragsStep
  <2>5. Spent(n, packet.count)
    BY <1>1, <1>3, <1>11, AcceptedOnce DEF n
  <2>6. Spent(slots'[index], packet.count)
    BY <1>1, <1>9, <2>1, <2>4, <2>5 DEF Spent
  <2>7. {packet} \in SUBSET (s.frag \cup {packet}) /\ {packet} \in SUBSET Packets
    BY <1>1
  <2>8. Busy
    BY <1>1, <1>11, <2>4, <2>6, <2>7 DEF Busy, Acts
  <2>9. acted' \in Seq(Taken)
    BY <1>3, <1>11, <2>7, ActedType DEF Acts
  <2>10. QED
    BY <1>1, <1>2, <1>3, <1>11, <2>4, <2>8, <2>9, Finish
<1>12. QED
  <2>1. \/ Rejects(index, packet) /\ acted' = acted
        \/ slots' = [slots EXCEPT ![index] = m] /\ fresh' = fresh /\ acted' = acted
        \/ /\ fresh' = fresh /\ Accepts(s, packet) /\ Acts({packet})
           /\ slots' = taken \/ slots' = WithoutFrags(taken)
    BY DEF HandleRealtime, Act, Acts, t, m, n, Connected, Barred
  <2>2. QED
    BY <1>7, <1>8, <1>10, <1>11, <2>1

-----------------------------------------------------------------------------
(* The roster, the flush and the answers.                                    *)

\* A step that leaves packets and pendants alone.
LEMMA Elsewhere ==
  ASSUME TypeInv, UNCHANGED <<rxQueue, poller, radio, acted>>,
         slots' \in Seq(Slot), fresh' \in Nat, SlotStep({})
  PROVE  Step
<1>1. UNCHANGED <<pendant, answers, air, rxQueue, step, packet, acted>>
  BY DEF poller, radio
<1>2. TypeInv'
  BY <1>1 DEF TypeInv
<1>3. Flying' \subseteq Flying
  BY <1>1 DEF Flying, Queued
<1>4. QED
  BY <1>1, <1>2, <1>3, RadioQuiet DEF Step, Quiet

LEMMA TimeOutStep ==
  ASSUME TypeInv, Bounds, NEW i \in DOMAIN slots, TimeOut(i)
  PROVE  Step
<1> DEFINE t == Cleared(slots[i].owner, fresh + 1)
<1>1. slots[i] \in Slot /\ fresh \in Nat
  BY SlotType DEF TypeInv
<1>2. slots[i].owner \in Pendants /\ fresh + 1 \in Nat
  BY <1>1 DEF Slot
<1>3. t \in Slot /\ t.nonce = fresh + 1 /\ t.frag = {}
  BY <1>2, ClearedType
<1>4. slots' = [slots EXCEPT ![i] = t] /\ fresh' = fresh + 1 /\ UNCHANGED <<rxQueue, poller, radio, acted>>
  BY DEF TimeOut
<1> HIDE DEF t
<1>5. \A j \in DOMAIN slots : slots[j].nonce <= fresh
  BY <1>1 DEF Bounds
<1>6. slots' \in Seq(Slot) /\ SlotStep({})
  BY <1>3, <1>4, <1>5, SlotRenewed
<1>7. QED
  BY <1>2, <1>4, <1>6, Elsewhere

\* Only the owner of a slot is told its nonce.
LEMMA EchoStep ==
  ASSUME TypeInv, NEW i \in DOMAIN slots, Echo(i)
  PROVE  Step
<1> DEFINE t == [slots[i] EXCEPT !.echo = FALSE]
<1>1. slots[i] \in Slot /\ fresh \in Nat /\ answers \in [Pendants -> SUBSET Nat]
  BY SlotType DEF TypeInv
<1>2. slots[i].owner \in Pendants /\ slots[i].nonce \in Nat
  BY <1>1 DEF Slot
<1>3. /\ t \in Slot /\ t.owner = slots[i].owner /\ t.nonce = slots[i].nonce
      /\ t.replay = slots[i].replay /\ t.frag = slots[i].frag
  BY <1>1 DEF Slot
<1>4. /\ slots' = [slots EXCEPT ![i] = t] /\ UNCHANGED <<fresh, rxQueue, poller, pendant, air, acted>>
      /\ \/ answers' = answers
         \/ /\ slots[i].run = pendant[slots[i].owner].run
            /\ answers' = [answers EXCEPT ![slots[i].owner] = answers[slots[i].owner] \cup {slots[i].nonce}]
  BY DEF Echo
<1> HIDE DEF t
<1>5. Stays(slots[i], t) /\ t.frag \subseteq slots[i].frag \cup {}
  BY <1>3, StaysReflexive, StaysWith
<1>6. slots' \in Seq(Slot) /\ SlotStep({})
  BY <1>3, <1>4, <1>5, SlotKept
<1>7. /\ answers' \in [Pendants -> SUBSET Nat]
      /\ \A p \in Pendants : \A n \in answers'[p] :
           \/ n \in answers[p]
           \/ slots[i].owner = p /\ slots[i].nonce = n /\ slots[i].run = pendant[p].run
  BY <1>1, <1>2, <1>4
<1>8. TypeInv'
  BY <1>1, <1>4, <1>6, <1>7 DEF TypeInv, poller
<1>9. Flying' = Flying
  BY <1>4 DEF Flying, Queued, poller
<1>10. \A p \in Pendants : GoesOn(p)
  BY <1>4, <1>7, StateType DEF GoesOn
<1>11. SendStep
  BY <1>9, <1>10 DEF SendStep
<1>12. QED
  BY <1>4, <1>6, <1>8, <1>11, SentRadio DEF Step, Quiet

LEMMA FlushFragsStep ==
  ASSUME TypeInv, FlushFrags
  PROVE  Step
<1>1. slots \in Seq(Slot) /\ fresh \in Nat
  BY DEF TypeInv
<1>2. slots' = WithoutFrags(slots) /\ fresh' = fresh /\ UNCHANGED <<rxQueue, poller, radio, acted>>
  BY DEF FlushFrags
<1>3. slots' \in Seq(Slot) /\ SlotStep({})
  BY <1>1, <1>2, StaysReflexive, WithoutFragsStep
<1>4. QED
  BY <1>1, <1>2, <1>3, Elsewhere

\* Whoever moves up gets a number of his own.
LEMMA RemoveRuntimePeerStep ==
  ASSUME TypeInv, Bounds, NEW i \in DOMAIN slots, RemoveRuntimePeer(i)
  PROVE  Step
<1>1. slots \in Seq(Slot) /\ fresh \in Nat /\ Len(slots) \in Nat /\ DOMAIN slots = 1 .. Len(slots) /\ i \in Nat
  BY DEF TypeInv
<1>2. /\ slots' = [j \in 1 .. Len(slots) - 1 |-> Shifted(i, j)] /\ fresh' = fresh + Len(slots)
      /\ UNCHANGED <<rxQueue, poller, radio, acted>>
  BY DEF RemoveRuntimePeer
<1>3. DOMAIN slots' = 1 .. Len(slots) - 1 /\ Len(slots) - 1 \in Nat
  BY <1>1, <1>2
<1>4. ASSUME NEW j \in DOMAIN slots', j < i
      PROVE  slots'[j] = slots[j] /\ j \in DOMAIN slots /\ slots'[j] \in Slot /\ slots'[j].nonce <= fresh
  <2>1. slots'[j] = slots[j] /\ j \in DOMAIN slots
    BY <1>1, <1>2, <1>3, <1>4 DEF Shifted
  <2>2. QED
    BY <1>1, <2>1, SlotType DEF Bounds
<1>5. ASSUME NEW j \in DOMAIN slots', ~(j < i)
      PROVE  /\ slots'[j] \in Slot /\ slots'[j].nonce = fresh + j /\ slots'[j].frag = {}
             /\ fresh + j \in fresh + 1 .. fresh'
  <2>1. slots'[j] = Cleared(slots[j + 1].owner, fresh + j) /\ j + 1 \in DOMAIN slots /\ fresh + j \in Nat
        /\ fresh + j \in fresh + 1 .. fresh'
    BY <1>1, <1>2, <1>3, <1>5 DEF Shifted
  <2>2. slots[j + 1].owner \in Pendants
    BY <2>1, SlotType DEF Slot
  <2>3. QED
    BY <2>1, <2>2, ClearedType
<1>6. slots' \in Seq(Slot)
  <2>1. \A j \in 1 .. Len(slots) - 1 : slots'[j] \in Slot
    BY <1>3, <1>4, <1>5
  <2>2. QED
    BY <1>2, <1>3, <2>1
<1>7. \A j \in DOMAIN slots' : Goes(j) \/ Given(j)
  BY <1>4, <1>5, StaysReflexive DEF Goes, Given
<1>8. \A j, k \in DOMAIN slots' : Given(j) /\ slots'[j].nonce = slots'[k].nonce => j = k
  BY <1>1, <1>3, <1>4, <1>5 DEF Given
<1>9. \A j \in DOMAIN slots' : Keeps(j, {})
  BY <1>4, <1>5 DEF Keeps
<1>10. SlotStep({})
  BY <1>1, <1>2, <1>7, <1>8, <1>9 DEF SlotStep
<1>11. QED
  BY <1>1, <1>2, <1>6, <1>10, Elsewhere

LEMMA ActivatePairingStep ==
  ASSUME TypeInv, Bounds, NEW p \in Pendants, ActivatePairing(p)
  PROVE  Step
<1> DEFINE t == Cleared(p, fresh + 1)
<1>1. slots \in Seq(Slot) /\ fresh \in Nat /\ fresh + 1 \in Nat /\ Len(slots) \in Nat
      /\ DOMAIN slots = 1 .. Len(slots)
  BY DEF TypeInv
<1>2. t \in Slot /\ t.nonce = fresh + 1 /\ t.frag = {}
  BY <1>1, ClearedType
<1>3. \A j \in DOMAIN slots : slots[j].nonce <= fresh
  BY <1>1 DEF Bounds
<1>4. fresh' = fresh + 1 /\ UNCHANGED <<rxQueue, poller, radio, acted>>
  BY DEF ActivatePairing
<1> HIDE DEF t
<1>5. CASE IsPaired(p) /\ slots' = [slots EXCEPT ![SlotOf(p)] = t]
  <2>1. SlotOf(p) \in DOMAIN slots
    BY <1>5 DEF IsPaired, SlotOf
  <2>2. slots' \in Seq(Slot) /\ SlotStep({})
    BY <1>2, <1>3, <1>4, <1>5, <2>1, SlotRenewed
  <2>3. QED
    BY <1>1, <1>4, <2>2, Elsewhere
<1>6. CASE slots' = Append(slots, t)
  <2>1. /\ slots' \in Seq(Slot) /\ DOMAIN slots' = 1 .. Len(slots) + 1
        /\ slots'[Len(slots) + 1] = t /\ \A j \in DOMAIN slots : slots'[j] = slots[j]
    BY <1>1, <1>2, <1>6
  <2>2. \A j \in DOMAIN slots' : j \in DOMAIN slots \/ j = Len(slots) + 1
    BY <1>1, <2>1
  <2>3. Given(Len(slots) + 1) /\ \A j \in DOMAIN slots : Goes(j) /\ ~Given(j) /\ slots'[j].nonce # fresh + 1
    BY <1>1, <1>2, <1>3, <1>4, <2>1, StaysReflexive DEF Given, Goes, Bounds
  <2>4. \A j, k \in DOMAIN slots' : Given(j) /\ slots'[j].nonce = slots'[k].nonce => j = k
    BY <1>2, <2>1, <2>2, <2>3
  <2>5. \A j \in DOMAIN slots' : Keeps(j, {})
    BY <1>2, <2>1, <2>2 DEF Keeps
  <2>6. SlotStep({})
    BY <1>1, <1>4, <2>2, <2>3, <2>4, <2>5 DEF SlotStep
  <2>7. QED
    BY <1>1, <1>4, <2>1, <2>6, Elsewhere
<1>7. QED
  BY <1>5, <1>6 DEF ActivatePairing, t

-----------------------------------------------------------------------------
(* Every step, and the numbers it gives.                                     *)

LEMMA NextStep ==
  ASSUME TypeInv, Bounds, [Next]_vars
  PROVE  Step
<1>1. CASE Polling
  BY <1>1, ProcessPacketStep, PollerSteps, HandleHelloStep, HandleKeepaliveStep, HandleDataStep,
     HandleRealtimeStep, TimeOutStep, EchoStep, ActivatePairingStep DEF Polling
<1>2. CASE ProtocolTask
  BY <1>2, FlushSteps, FlushFragsStep, RemoveRuntimePeerStep DEF ProtocolTask
<1>3. CASE \E p \in air : OnRecv(p)
  BY <1>3, OnRecvStep
<1>4. CASE \E p \in Pendants : Pendant(p)
  BY <1>4, PendantStep
<1>5. CASE UNCHANGED vars
  <2>1. UNCHANGED <<slots, fresh, rxQueue, poller, radio, acted>>
    BY <1>5 DEF vars, roster
  <2>2. slots' \in Seq(Slot) /\ fresh' \in Nat
    BY <2>1 DEF TypeInv
  <2>3. SlotStep({})
    BY <2>1, Unmoved DEF Quiet
  <2>4. QED
    BY <2>1, <2>2, <2>3, Elsewhere
<1>6. QED
  BY <1>1, <1>2, <1>3, <1>4, <1>5 DEF Next

LEMMA BoundsKept ==
  ASSUME TypeInv, Bounds, Step
  PROVE  Bounds'
<1>1. fresh \in Nat /\ fresh' \in Nat /\ fresh' >= fresh /\ \A i \in DOMAIN slots' : Goes(i) \/ Given(i)
  BY DEF Step, Quiet, Busy, SlotStep, TypeInv
<1>2. ASSUME NEW n, n <= fresh, n \in Nat PROVE n <= fresh'
  BY <1>1, <1>2
<1>3. \A i \in DOMAIN slots' : slots'[i].nonce \in 1 .. fresh'
  <2> TAKE i \in DOMAIN slots'
  <2>1. CASE Goes(i)
    <3>1. slots'[i].nonce = slots[i].nonce /\ slots[i].nonce \in 1 .. fresh
      BY <2>1 DEF Goes, Stays, Bounds
    <3>2. QED
      BY <1>1, <3>1
  <2>2. CASE Given(i)
    BY <1>1, <2>2 DEF Given
  <2>3. QED
    BY <1>1, <2>1, <2>2
<1>4. \A p \in Pendants : pendant'[p].nonce \in Nat /\ answers'[p] \subseteq Nat
  BY DEF Step, TypeInv, State
<1>5. \A q \in Flying' : q.nonce \in Nat
  <2>1. (Queued \subseteq Packets)'
    BY DEF Step, TypeInv, Queued
  <2>2. (Flying \subseteq Packets)'
    BY <2>1 DEF Flying, Step, TypeInv
  <2>3. QED
    BY <2>2 DEF Packets
<1>6. \A p \in Pendants : pendant'[p].nonce <= fresh
  BY <1>1 DEF Step, RadioStep, Bounds
<1>7. \A p \in Pendants : \A n \in answers'[p] : n <= fresh
  <2> TAKE p \in Pendants
  <2> TAKE n \in answers'[p]
  <2>1. n \in answers[p] \/ \E i \in DOMAIN slots : slots[i].owner = p /\ slots[i].nonce = n
    BY DEF Step, RadioStep
  <2>2. QED
    BY <1>1, <2>1 DEF Bounds
<1>8. \A q \in Flying' : q.nonce <= fresh
  <2> TAKE q \in Flying'
  <2>1. q \in Flying \/ (q.from \in Pendants /\ q.nonce = pendant[q.from].nonce)
    BY DEF Step, RadioStep
  <2>2. QED
    BY <2>1 DEF Bounds
<1>9. QED
  BY <1>2, <1>3, <1>4, <1>5, <1>6, <1>7, <1>8 DEF Bounds

-----------------------------------------------------------------------------
(* Owners: a nonce is never with two pendants.                               *)

Holds(p, n) ==
  /\ n # 0
  /\ \/ \E i \in DOMAIN slots : slots[i].owner = p /\ slots[i].nonce = n
     \/ pendant[p].nonce = n
     \/ n \in answers[p]
     \/ \E q \in Flying : q.from = p /\ q.nonce = n

OwnInv ==
  /\ \A p, q \in Pendants : \A n \in Nat : Holds(p, n) /\ Holds(q, n) => p = q
  /\ \A i \in DOMAIN slots : \A q \in slots[i].frag : q.from = slots[i].owner
  /\ TakenFromOwner

\* A nonce somebody holds after a step he held before, or it was given by the step.
LEMMA HeldBefore ==
  ASSUME TypeInv, Bounds, Step, NEW p \in Pendants, NEW n \in Nat, Holds(p, n)'
  PROVE  Holds(p, n) \/ \E i \in DOMAIN slots' : Given(i) /\ slots'[i].nonce = n /\ slots'[i].owner = p
<1>1. n # 0 /\ \A i \in DOMAIN slots' : Goes(i) \/ Given(i)
  BY DEF Holds, Step, Quiet, Busy, SlotStep
<1>2. CASE \E i \in DOMAIN slots' : slots'[i].owner = p /\ slots'[i].nonce = n
  BY <1>1, <1>2 DEF Goes, Stays, Holds
<1>3. CASE pendant'[p].nonce = n
  BY <1>1, <1>3 DEF Step, RadioStep, Holds
<1>4. CASE n \in answers'[p]
  BY <1>1, <1>4 DEF Step, RadioStep, Holds
<1>5. CASE \E q \in Flying' : q.from = p /\ q.nonce = n
  <2>1. PICK q \in Flying' : q.from = p /\ q.nonce = n
    BY <1>5
  <2>2. q \in Flying \/ q.nonce = pendant[q.from].nonce
    BY DEF Step, RadioStep
  <2>3. QED
    BY <1>1, <2>1, <2>2 DEF Holds
<1>6. QED
  BY <1>2, <1>3, <1>4, <1>5 DEF Holds

LEMMA HeldBound ==
  ASSUME TypeInv, Bounds, NEW p \in Pendants, NEW n \in Nat, Holds(p, n)
  PROVE  n <= fresh
<1>1. fresh \in Nat
  BY DEF TypeInv
<1>2. QED
  BY <1>1 DEF Holds, Bounds

\* What is accepted comes from the pendant in the slot: the nonce was given to nobody else.
LEMMA AcceptedFromOwner ==
  ASSUME TypeInv, Bounds, OwnInv, Busy
  PROVE  packet.from = slots[index].owner
<1>1. index \in DOMAIN slots /\ packet \in Packets /\ packet \in Flying /\ packet.nonce = slots[index].nonce
  BY DEF Busy, TypeInv, Flying, Accepts
<1>2. packet.nonce \in Nat /\ packet.nonce # 0 /\ packet.from \in Pendants /\ slots[index].owner \in Pendants
  <2>1. slots[index] \in Slot /\ slots[index].nonce \in 1 .. fresh /\ fresh \in Nat
    BY <1>1, SlotType DEF Bounds, TypeInv
  <2>2. QED
    BY <1>1, <2>1 DEF Packets, Slot
<1>3. Holds(packet.from, packet.nonce) /\ Holds(slots[index].owner, packet.nonce)
  BY <1>1, <1>2 DEF Holds
<1>4. QED
  BY <1>2, <1>3 DEF OwnInv

LEMMA OwnKept ==
  ASSUME TypeInv, Bounds, OwnInv, Step
  PROVE  OwnInv'
<1>1. fresh \in Nat /\ SlotStep(IF Busy THEN {packet} ELSE {})
  BY DEF Step, Quiet, Busy, TypeInv
<1>2. ASSUME NEW p \in Pendants, NEW q \in Pendants, NEW n \in Nat, Holds(p, n)', Holds(q, n)'
      PROVE  p = q
  <2>1. Holds(p, n) \/ \E i \in DOMAIN slots' : Given(i) /\ slots'[i].nonce = n /\ slots'[i].owner = p
    BY <1>2, HeldBefore
  <2>2. Holds(q, n) \/ \E i \in DOMAIN slots' : Given(i) /\ slots'[i].nonce = n /\ slots'[i].owner = q
    BY <1>2, HeldBefore
  <2>3. (Holds(p, n) => n <= fresh) /\ (Holds(q, n) => n <= fresh)
    BY HeldBound
  <2>4. \A i \in DOMAIN slots' : Given(i) /\ slots'[i].nonce = n => ~(n <= fresh)
    BY <1>1 DEF Given
  <2>5. CASE Holds(p, n) /\ Holds(q, n)
    BY <2>5 DEF OwnInv
  <2>6. CASE ~Holds(p, n) /\ ~Holds(q, n)
    BY <1>1, <2>1, <2>2, <2>6 DEF SlotStep
  <2>7. QED
    BY <2>1, <2>2, <2>3, <2>4, <2>5, <2>6
<1>3. ASSUME NEW i \in DOMAIN slots', NEW q \in slots'[i].frag
      PROVE  q.from = slots'[i].owner
  <2>1. /\ i \in DOMAIN slots /\ slots'[i].owner = slots[i].owner
        /\ q \in slots[i].frag \/ (Busy /\ i = index /\ q = packet)
    BY <1>1, <1>3 DEF SlotStep, Keeps
  <2>2. QED
    BY <2>1, AcceptedFromOwner DEF OwnInv
<1>4. TakenFromOwner'
  <2>1. CASE acted' = acted
    BY <2>1 DEF OwnInv, TakenFromOwner
  <2>2. CASE acted' # acted
    <3>1. Busy /\ index \in DOMAIN slots
      BY <2>2 DEF Step, Quiet, Busy
    <3>2. PICK pieces \in SUBSET (slots[index].frag \cup {packet}) :
            acted' = Append(acted, [owner |-> slots[index].owner, pieces |-> pieces])
      BY <2>2, <3>1 DEF Busy
    <3>3. \A q \in pieces : q.from = slots[index].owner
      BY <3>1, AcceptedFromOwner DEF OwnInv
    <3>4. acted \in Seq(Taken)
      BY DEF TypeInv
    <3>5. \A i \in DOMAIN acted' : IF i \in DOMAIN acted THEN acted'[i] = acted[i]
                                   ELSE acted'[i] = [owner |-> slots[index].owner, pieces |-> pieces]
      BY <3>2, <3>4
    <3>6. QED
      BY <3>3, <3>5 DEF OwnInv, TakenFromOwner
  <2>3. QED
    BY <2>1, <2>2
<1>5. QED
  BY <1>2, <1>3, <1>4 DEF OwnInv

-----------------------------------------------------------------------------
(* Packets: what has been used is spent.                                     *)

Used(q) ==
  \/ \E i \in DOMAIN slots : q \in slots[i].frag
  \/ \E i \in DOMAIN acted : q \in acted[i].pieces

OnceInv ==
  /\ \A i, j \in DOMAIN slots : slots[i].nonce = slots[j].nonce => i = j
  /\ \A i, j \in DOMAIN slots : i # j => slots[i].frag \cap slots[j].frag = {}
  /\ \A i \in DOMAIN slots, j \in DOMAIN acted : slots[i].frag \cap acted[j].pieces = {}
  /\ \A q \in Packets : Used(q) =>
       /\ q.nonce <= fresh
       /\ \A i \in DOMAIN slots : slots[i].nonce = q.nonce => Spent(slots[i], q.count)
  /\ AtMostOnce

LEMMA UsedType ==
  ASSUME TypeInv
  PROVE  /\ \A i \in DOMAIN slots : slots[i].frag \subseteq Packets
         /\ \A i \in DOMAIN acted : acted[i].pieces \subseteq Packets
         /\ \A q : Used(q) => q \in Packets
<1>1. \A i \in DOMAIN slots : slots[i].frag \subseteq Packets
  BY SlotType DEF Slot
<1>2. ASSUME NEW i \in DOMAIN acted PROVE acted[i].pieces \subseteq Packets
  <2>1. acted[i] \in Taken
    BY DEF TypeInv
  <2>2. QED
    BY <2>1 DEF Taken
<1>3. QED
  BY <1>1, <1>2 DEF Used

\* No two slots have the same nonce.
LEMMA NoncesKept ==
  ASSUME TypeInv, Bounds, OnceInv, Step, NEW i \in DOMAIN slots', NEW j \in DOMAIN slots',
         slots'[i].nonce = slots'[j].nonce
  PROVE  i = j
<1>1. SlotStep(IF Busy THEN {packet} ELSE {})
  BY DEF Step, Quiet, Busy
<1>2. CASE Given(i) \/ Given(j)
  BY <1>1, <1>2 DEF SlotStep
<1>3. CASE Goes(i) /\ Goes(j)
  BY <1>3 DEF Goes, Stays, OnceInv
<1>4. QED
  BY <1>1, <1>2, <1>3 DEF SlotStep

\* A packet that has been used is never accepted, so that one that is accepted is new.
LEMMA AcceptedNew ==
  ASSUME TypeInv, OnceInv, Busy
  PROVE  ~Used(packet)
<1>1. index \in DOMAIN slots /\ packet \in Packets /\ Accepts(slots[index], packet)
  BY DEF Busy, TypeInv
<1>2. packet.nonce = slots[index].nonce /\ ~Spent(slots[index], packet.count)
  BY <1>1, SlotType, AcceptedOnce
<1>3. QED
  BY <1>1, <1>2 DEF OnceInv

\* What was spent stays spent, in a slot that keeps its nonce; the nonces given are new.
LEMMA SpentKept ==
  ASSUME TypeInv, Bounds, OnceInv, Step, NEW q \in Packets, Used(q)
  PROVE  /\ q.nonce <= fresh'
         /\ \A i \in DOMAIN slots' : slots'[i].nonce = q.nonce => Spent(slots'[i], q.count)
<1>1. /\ fresh \in Nat /\ fresh' \in Nat /\ fresh' >= fresh
      /\ \A i \in DOMAIN slots' : Goes(i) \/ Given(i)
  BY DEF Step, Quiet, Busy, SlotStep, TypeInv
<1>2. q.nonce <= fresh /\ q.nonce \in Nat /\ q.count \in Nat
  BY DEF OnceInv, Packets
<1>3. ASSUME NEW i \in DOMAIN slots', slots'[i].nonce = q.nonce
      PROVE  Spent(slots'[i], q.count)
  <2>1. ~Given(i)
    BY <1>1, <1>2, <1>3 DEF Given
  <2>2. Goes(i)
    BY <1>1, <2>1
  <2>3. slots[i].nonce = q.nonce /\ i \in DOMAIN slots
    BY <1>3, <2>2 DEF Goes, Stays
  <2>4. Spent(slots[i], q.count)
    BY <2>3 DEF OnceInv
  <2>5. QED
    BY <1>2, <2>2, <2>4 DEF Goes, Stays
<1>4. QED
  BY <1>1, <1>2, <1>3

LEMMA OnceKeptQuiet ==
  ASSUME TypeInv, Bounds, OnceInv, Step, Quiet
  PROVE  OnceInv'
<1>1. \A i \in DOMAIN slots' : slots'[i].frag = {} \/ (i \in DOMAIN slots /\ slots'[i].frag \subseteq slots[i].frag)
  BY DEF Quiet, SlotStep, Keeps
<1>2. acted' = acted
  BY DEF Quiet
<1>3. \A q : Used(q)' => Used(q)
  BY <1>1, <1>2 DEF Used
<1>4. \A i, j \in DOMAIN slots' : i # j => slots'[i].frag \cap slots'[j].frag = {}
  BY <1>1 DEF OnceInv
<1>5. \A i \in DOMAIN slots', j \in DOMAIN acted' : slots'[i].frag \cap acted'[j].pieces = {}
  BY <1>1, <1>2 DEF OnceInv
<1>6. AtMostOnce'
  BY <1>2 DEF OnceInv, AtMostOnce
<1>7. \A q \in Packets : Used(q)' =>
        /\ q.nonce <= fresh'
        /\ \A i \in DOMAIN slots' : slots'[i].nonce = q.nonce => Spent(slots'[i], q.count)
  BY <1>3, SpentKept
<1>8. \A i, j \in DOMAIN slots' : slots'[i].nonce = slots'[j].nonce => i = j
  BY NoncesKept
<1>9. QED
  BY <1>4, <1>5, <1>6, <1>7, <1>8 DEF OnceInv, Spent

\* The packet was used nowhere, and is spent in the only slot that would take it.
LEMMA OnceKeptBusy ==
  ASSUME TypeInv, Bounds, OnceInv, Step, Busy
  PROVE  OnceInv'
<1>1. index \in DOMAIN slots /\ packet \in Packets /\ ~Used(packet) /\ DOMAIN slots' = DOMAIN slots
  BY AcceptedNew DEF Busy, TypeInv
<1>2. packet.nonce = slots[index].nonce /\ packet.nonce <= fresh /\ fresh' >= fresh
      /\ fresh \in Nat /\ fresh' \in Nat /\ packet.nonce \in Nat
  BY <1>1 DEF Busy, Accepts, Bounds, SlotStep, TypeInv, Step, Packets
<1>3. \A i \in DOMAIN slots : slots'[i].frag \subseteq slots[i].frag \cup (IF i = index THEN {packet} ELSE {})
  BY <1>1 DEF Busy, SlotStep, Keeps
<1>4. \A i \in DOMAIN slots : packet \notin slots[i].frag
  BY <1>1 DEF Used
<1>5. \A j \in DOMAIN acted : packet \notin acted[j].pieces
  BY <1>1 DEF Used
<1>6. \A i, j \in DOMAIN slots' : i # j => slots'[i].frag \cap slots'[j].frag = {}
  BY <1>1, <1>3, <1>4 DEF OnceInv
<1>7. \A i \in DOMAIN slots, j \in DOMAIN acted : slots'[i].frag \cap acted[j].pieces = {}
  BY <1>3, <1>5 DEF OnceInv
<1>8. /\ \A i \in DOMAIN slots', j \in DOMAIN acted' : slots'[i].frag \cap acted'[j].pieces = {}
      /\ AtMostOnce'
      /\ \A q : Used(q)' => Used(q) \/ q = packet
  <2>1. CASE acted' = acted
    <3>1. \A q : Used(q)' => Used(q) \/ q = packet
      BY <1>1, <1>3, <2>1 DEF Used
    <3>2. QED
      BY <1>1, <1>7, <2>1, <3>1 DEF OnceInv, AtMostOnce
  <2>2. CASE acted' # acted
    <3>1. PICK pieces \in SUBSET (slots[index].frag \cup {packet}) :
            /\ acted' = Append(acted, [owner |-> slots[index].owner, pieces |-> pieces])
            /\ \/ slots'[index].frag = {}
               \/ pieces = {packet} /\ slots'[index].frag \subseteq slots[index].frag
      BY <2>2 DEF Busy
    <3>2. acted \in Seq(Taken)
      BY DEF TypeInv
    <3>3. /\ \A i \in DOMAIN acted' : i \in DOMAIN acted \/ i = Len(acted) + 1
          /\ \A i \in DOMAIN acted : acted'[i] = acted[i]
          /\ acted'[Len(acted) + 1].pieces = pieces
          /\ Len(acted) + 1 \notin DOMAIN acted
      BY <3>1, <3>2
    <3>4. \A j \in DOMAIN acted : pieces \cap acted[j].pieces = {}
      BY <1>1, <1>5, <3>1 DEF OnceInv
    <3>5. \A i \in DOMAIN slots : slots'[i].frag \cap pieces = {}
      <4> TAKE i \in DOMAIN slots
      <4>1. CASE i = index
        BY <1>4, <3>1, <4>1
      <4>2. CASE i # index
        BY <1>1, <1>3, <1>4, <3>1, <4>2 DEF OnceInv
      <4>3. QED
        BY <4>1, <4>2
    <3>6. \A q : Used(q)' => Used(q) \/ q = packet
      <4> SUFFICES ASSUME NEW q, Used(q)' PROVE Used(q) \/ q = packet
        OBVIOUS
      <4>1. CASE \E i \in DOMAIN slots' : q \in slots'[i].frag
        BY <1>1, <1>3, <4>1 DEF Used
      <4>2. CASE \E i \in DOMAIN acted' : q \in acted'[i].pieces
        <5>1. (\E i \in DOMAIN acted : q \in acted[i].pieces) \/ q \in pieces
          BY <3>3, <4>2
        <5>2. q \in pieces => q \in slots[index].frag \/ q = packet
          BY <3>1
        <5>3. QED
          BY <1>1, <5>1, <5>2 DEF Used
      <4>3. QED
        BY <4>1, <4>2 DEF Used
    <3>7. AtMostOnce'
      BY <3>3, <3>4 DEF OnceInv, AtMostOnce
    <3>8. \A i \in DOMAIN slots', j \in DOMAIN acted' : slots'[i].frag \cap acted'[j].pieces = {}
      BY <1>1, <1>7, <3>3, <3>5
    <3>9. QED
      BY <3>6, <3>7, <3>8
  <2>3. QED
    BY <2>1, <2>2
<1>9. \A i, j \in DOMAIN slots' : slots'[i].nonce = slots'[j].nonce => i = j
  BY NoncesKept
<1>10. ASSUME NEW i \in DOMAIN slots', slots'[i].nonce = packet.nonce
       PROVE  Spent(slots'[i], packet.count)
  <2>1. slots[i].nonce = slots[index].nonce
    BY <1>1, <1>2, <1>10 DEF Busy, Goes, Stays
  <2>2. i = index
    BY <1>1, <2>1 DEF OnceInv
  <2>3. QED
    BY <2>2 DEF Busy
<1>11. \A q \in Packets : Used(q)' =>
        /\ q.nonce <= fresh'
        /\ \A i \in DOMAIN slots' : slots'[i].nonce = q.nonce => Spent(slots'[i], q.count)
  <2> TAKE q \in Packets
  <2> HAVE Used(q)'
  <2>1. CASE Used(q)
    BY <2>1, SpentKept
  <2>2. CASE q = packet
    <3>1. packet.nonce <= fresh'
      BY <1>2
    <3>2. QED
      BY <1>10, <2>2, <3>1
  <2>3. QED
    BY <1>8, <2>1, <2>2
<1>12. QED
  BY <1>6, <1>8, <1>9, <1>11 DEF OnceInv, Spent

-----------------------------------------------------------------------------
(* The theorems.                                                             *)

LEMMA Initially ==
  ASSUME Init
  PROVE  TypeInv /\ Bounds /\ OwnInv /\ OnceInv
<1>1. Roster \in Seq(Pendants) /\ \A i, j \in DOMAIN Roster : Roster[i] = Roster[j] => i = j
  BY EspNowAssumption DEF IsInjective
<1>2. Len(Roster) \in Nat /\ DOMAIN Roster = 1 .. Len(Roster) /\ fresh = Len(Roster)
  BY <1>1 DEF Init
<1>3. DOMAIN slots = 1 .. Len(Roster)
  BY <1>2 DEF Init
<1>4. ASSUME NEW i \in DOMAIN slots
      PROVE  /\ slots[i] \in Slot /\ slots[i].owner = Roster[i] /\ slots[i].nonce = i
             /\ slots[i].frag = {} /\ i \in 1 .. fresh
  <2>1. slots[i] = Cleared(Roster[i], i) /\ Roster[i] \in Pendants /\ i \in Nat /\ i \in 1 .. fresh
    BY <1>1, <1>2, <1>3 DEF Init
  <2>2. QED
    BY <2>1, ClearedType
<1>5. /\ rxQueue = <<>> /\ step = "idle" /\ air = {} /\ acted = <<>>
      /\ answers = [p \in Pendants |-> {}]
      /\ pendant = [p \in Pendants |-> [run |-> 1, nonce |-> 0, count |-> 0, seq |-> 0]]
  BY DEF Init
<1>6. slots \in Seq(Slot)
  <2>1. slots = [i \in 1 .. Len(Roster) |-> Cleared(Roster[i], i)]
    BY <1>2 DEF Init
  <2>2. \A i \in 1 .. Len(Roster) : Cleared(Roster[i], i) \in Slot
    BY <1>3, <1>4, <2>1
  <2> DEFINE C(i) == Cleared(Roster[i], i)
  <2>3. slots = [i \in 1 .. Len(Roster) |-> C(i)] /\ \A i \in 1 .. Len(Roster) : C(i) \in Slot
    BY <2>1, <2>2
  <2> HIDE DEF C
  <2>4. QED
    BY <1>2, <2>3
<1>7. [run |-> 1, nonce |-> 0, count |-> 0, seq |-> 0] \in State
  BY DEF State
<1>8. TypeInv
  BY <1>2, <1>5, <1>6, <1>7 DEF TypeInv
<1>9. Flying = {}
  BY <1>5 DEF Flying, Queued
<1>10. \A p \in Pendants : pendant[p].nonce = 0 /\ answers[p] = {}
  BY <1>5
<1>11. Bounds
  BY <1>2, <1>4, <1>9, <1>10 DEF Bounds
<1>12. \A p \in Pendants, n \in Nat : Holds(p, n) => n \in DOMAIN slots /\ Roster[n] = p
  BY <1>4, <1>9, <1>10 DEF Holds
<1>13. OwnInv
  BY <1>4, <1>5, <1>12 DEF OwnInv, TakenFromOwner
<1>14. \A q : ~Used(q)
  BY <1>4, <1>5 DEF Used
<1>15. OnceInv
  BY <1>4, <1>5, <1>14 DEF OnceInv, AtMostOnce
<1>16. QED
  BY <1>8, <1>11, <1>13, <1>15

\* What the steps keep between them: neither of the two facts below is inductive, as a packet may be
\* taken long after it was sent, in a slot that has changed its owner or its nonce since.
EspNowInv == TypeInv /\ Bounds /\ OwnInv /\ OnceInv

\* The invariant holds in every state of the pendants, the radio, the slots and the queue.
THEOREM EspNowInvariant == Spec => []EspNowInv
<1>1. Init => EspNowInv
  BY Initially DEF EspNowInv
<1>2. EspNowInv /\ [Next]_vars => EspNowInv'
  <2> SUFFICES ASSUME EspNowInv, [Next]_vars PROVE EspNowInv'
    OBVIOUS
  <2>1. TypeInv /\ Bounds /\ OwnInv /\ OnceInv
    BY DEF EspNowInv
  <2>2. Step
    BY <2>1, NextStep
  <2>3. TypeInv'
    BY <2>2 DEF Step
  <2>4. Bounds' /\ OwnInv'
    BY <2>1, <2>2, BoundsKept, OwnKept
  <2>5. OnceInv'
    BY <2>1, <2>2, OnceKeptQuiet, OnceKeptBusy DEF Step
  <2>6. QED
    BY <2>3, <2>4, <2>5 DEF EspNowInv
<1>3. QED
  BY <1>1, <1>2, PTL DEF Spec

\* No packet is part of two commands or messages taken (acceptReplay()).
THEOREM NothingTwice == Spec => []AtMostOnce
<1>1. EspNowInv => AtMostOnce
  BY DEF EspNowInv, OnceInv
<1>2. QED
  BY <1>1, EspNowInvariant, PTL

\* What is taken from a slot was sent by the pendant in it (processPacket(), newSessionNonce()).
THEOREM TakenOnlyFromOwner == Spec => []TakenFromOwner
<1>1. EspNowInv => TakenFromOwner
  BY DEF EspNowInv, OwnInv
<1>2. QED
  BY <1>1, EspNowInvariant, PTL

-----------------------------------------------------------------------------
(* What a step takes, and from which session.                                *)

\* A slot keeps its session, in which the barrier never sinks.
Lasts(i) ==
  /\ i \in DOMAIN slots
  /\ slots'[i].owner = slots[i].owner /\ slots'[i].nonce = slots[i].nonce
  /\ slots'[i].run = slots[i].run /\ slots'[i].barrier >= slots[i].barrier
FragStays(i) == slots'[i].frag = {} \/ (i \in DOMAIN slots /\ slots'[i].frag = slots[i].frag)

Idle == acted' = acted /\ \A i \in DOMAIN slots' : FragStays(i)

Accepted ==
  /\ step = "handle" /\ index \in DOMAIN slots /\ packet \in Packets
  /\ Accepts(slots[index], packet)
  /\ DOMAIN slots' = DOMAIN slots /\ \A i \in DOMAIN slots : Lasts(i)

Commanded ==
  /\ Accepted /\ packet.kind \in Safety \cup Overrides /\ Acts({packet})
  /\ \A i \in DOMAIN slots : FragStays(i)
  /\ packet.kind \in Safety => slots'[index].barrier >= packet.count
  /\ packet.kind = "cancel" => \A i \in DOMAIN slots : slots'[i].frag = {}

Assembled ==
  /\ Accepted /\ packet.kind = "message" /\ packet.count > slots[index].barrier
  /\ \A i \in DOMAIN slots : i # index => FragStays(i)
  /\ \E late \in BOOLEAN :
       /\ slots'[index].frag \in {{}, Gathered(slots[index].frag, packet, late)}
       /\ \/ acted' = acted
          \/ /\ Complete(Gathered(slots[index].frag, packet, late))
             /\ Acts(Gathered(slots[index].frag, packet, late))

TakeStep == (\A i \in DOMAIN slots' : Lasts(i) \/ Given(i)) /\ (Idle \/ Commanded \/ Assembled)

LEMMA SlotFields ==
  ASSUME TypeInv, NEW i \in DOMAIN slots
  PROVE  /\ slots[i] \in Slot /\ slots[i].barrier \in Nat /\ slots[i].owner \in Pendants
         /\ slots[i].nonce \in Nat /\ slots[i].run \in Nat /\ slots[i].frag \subseteq Packets
<1>1. slots[i] \in Slot
  BY SlotType
<1>2. QED
  BY <1>1 DEF Slot

\* One slot is changed and keeps its session.
LEMMA LastsSet ==
  ASSUME TypeInv, NEW i \in DOMAIN slots, NEW t \in Slot, slots' = [slots EXCEPT ![i] = t],
         t.owner = slots[i].owner, t.nonce = slots[i].nonce, t.run = slots[i].run,
         t.barrier >= slots[i].barrier
  PROVE  /\ DOMAIN slots' = DOMAIN slots /\ slots'[i] = t
         /\ \A j \in DOMAIN slots' : Lasts(j)
         /\ \A j \in DOMAIN slots : j # i => FragStays(j)
         /\ t.frag \in {{}, slots[i].frag} => \A j \in DOMAIN slots' : FragStays(j)
<1>1. /\ DOMAIN slots' = DOMAIN slots /\ slots'[i] = t
      /\ \A j \in DOMAIN slots : j # i => slots'[j] = slots[j]
  BY SlotSet
<1>2. \A j \in DOMAIN slots : slots[j].barrier >= slots[j].barrier
  BY SlotFields
<1>3. QED
  BY <1>1, <1>2 DEF Lasts, FragStays

LEMMA RenewedSet ==
  ASSUME TypeInv, NEW i \in DOMAIN slots, NEW t \in Slot, slots' = [slots EXCEPT ![i] = t],
         fresh' = fresh + 1, t.nonce = fresh + 1, t.frag \in {{}, slots[i].frag}, acted' = acted
  PROVE  TakeStep
<1>1. /\ DOMAIN slots' = DOMAIN slots /\ slots'[i] = t
      /\ \A j \in DOMAIN slots : j # i => slots'[j] = slots[j]
  BY SlotSet
<1>2. \A j \in DOMAIN slots : slots[j].barrier >= slots[j].barrier
  BY SlotFields
<1>3. Given(i)
  BY <1>1 DEF Given, TypeInv
<1>4. QED
  BY <1>1, <1>2, <1>3 DEF TakeStep, Lasts, Idle, FragStays

LEMMA TakesNothing ==
  ASSUME TypeInv, UNCHANGED <<slots, acted>>
  PROVE  TakeStep
<1>1. \A i \in DOMAIN slots : slots[i].barrier >= slots[i].barrier
  BY SlotFields
<1>2. QED
  BY <1>1 DEF TakeStep, Lasts, Idle, FragStays

LEMMA NotedRest ==
  ASSUME NEW s \in Slot, NEW p \in Packets
  PROVE  Noted(s, p).run = s.run
<1>1. ASSUME NEW r PROVE [s EXCEPT !.replay = r].run = s.run
  BY DEF Slot
<1>2. QED
  BY <1>1 DEF Noted

LEMMA CountedRest ==
  ASSUME NEW s \in Slot, NEW k \in Nat
  PROVE  /\ CountedTo(s, k) \in Slot
         /\ CountedTo(s, k).owner = s.owner /\ CountedTo(s, k).nonce = s.nonce
         /\ CountedTo(s, k).run = s.run /\ CountedTo(s, k).barrier = s.barrier
         /\ CountedTo(s, k).frag = s.frag
<1>1. ASSUME NEW r PROVE [s EXCEPT !.replay = r].run = s.run /\ [s EXCEPT !.replay = r].barrier = s.barrier
  BY DEF Slot
<1>2. QED
  BY <1>1, CountedType DEF CountedTo

LEMMA RejectsTakes ==
  ASSUME TypeInv, NEW i \in DOMAIN slots, NEW p \in Packets, Rejects(i, p), acted' = acted
  PROVE  TakeStep
<1> DEFINE s == slots[i]
           n == Synced(s).underflow + 1
           c == CountedTo(s, 0)
           t == [c EXCEPT !.nonce = fresh + 1]
<1>1. s \in Slot /\ fresh \in Nat /\ s.barrier \in Nat
  BY SlotFields DEF TypeInv
<1>2. n \in Nat /\ n - 1 \in Nat
  BY <1>1, SyncedType DEF Replay
<1>3. ASSUME slots' = [slots EXCEPT ![i] = t], fresh' = fresh + 1
      PROVE  TakeStep
  <2>1. c \in Slot /\ c.frag = s.frag
    BY <1>1, CountedRest
  <2> HIDE DEF c
  <2>2. t \in Slot /\ t.nonce = fresh + 1 /\ t.frag = s.frag
    BY <1>1, <2>1 DEF Slot
  <2> HIDE DEF t
  <2>3. QED
    BY <1>3, <2>2, RenewedSet
<1>4. ASSUME NEW k \in Nat, slots' = [slots EXCEPT ![i] = CountedTo(s, k)]
      PROVE  TakeStep
  <2>1. /\ CountedTo(s, k) \in Slot
        /\ CountedTo(s, k).owner = s.owner /\ CountedTo(s, k).nonce = s.nonce
        /\ CountedTo(s, k).run = s.run /\ CountedTo(s, k).barrier >= s.barrier
        /\ CountedTo(s, k).frag = s.frag
    BY <1>1, CountedRest
  <2>2. \A j \in DOMAIN slots' : Lasts(j) /\ FragStays(j)
    BY <1>4, <2>1, LastsSet
  <2>3. QED
    BY <2>2 DEF TakeStep, Idle
<1>5. \/ \E k \in {n - 1, n, 0} : slots' = [slots EXCEPT ![i] = CountedTo(s, k)]
      \/ slots' = [slots EXCEPT ![i] = t] /\ fresh' = fresh + 1
  BY DEF Rejects, CountedTo
<1> HIDE DEF t, n
<1>6. QED
  BY <1>2, <1>3, <1>4, <1>5

\* A keepalive of a session is of the run the session is with.
RunKnown ==
  Handles({"keepalive"}) /\ Paired /\ Accepts(slots[index], packet) => packet.run = slots[index].run

LEMMA HandleHelloTakes ==
  ASSUME TypeInv, HandleHello
  PROVE  TakeStep
<1> DEFINE s == slots[index]
           t == [s EXCEPT !.echo = TRUE]
           u == Greeted(Cleared(s.owner, fresh + 1), packet.run, s.frag)
<1>1. index \in DOMAIN slots /\ packet \in Packets /\ acted' = acted
  BY DEF HandleHello, Handles, Paired, TypeInv
<1>2. s \in Slot /\ s.owner \in Pendants /\ s.frag \in SUBSET Packets /\ fresh \in Nat /\ s.barrier \in Nat
  BY <1>1, SlotFields DEF TypeInv
<1>3. CASE slots' = [slots EXCEPT ![index] = t]
  <2>1. /\ t \in Slot /\ t.owner = s.owner /\ t.nonce = s.nonce /\ t.run = s.run
        /\ t.barrier = s.barrier /\ t.frag = s.frag
    BY <1>2 DEF Slot
  <2> HIDE DEF t
  <2>2. t.barrier >= s.barrier
    BY <1>2, <2>1
  <2>3. \A j \in DOMAIN slots' : Lasts(j) /\ FragStays(j)
    BY <1>1, <1>3, <2>1, <2>2, LastsSet
  <2>4. QED
    BY <1>1, <2>3 DEF TakeStep, Idle
<1>4. CASE slots' = [slots EXCEPT ![index] = u] /\ fresh' = fresh + 1
  <2>1. fresh + 1 \in Nat /\ packet.run \in Nat
    BY <1>1, <1>2 DEF Packets
  <2>2. Cleared(s.owner, fresh + 1) \in Slot /\ Cleared(s.owner, fresh + 1).nonce = fresh + 1
    BY <1>2, <2>1, ClearedType
  <2>3. u \in Slot /\ u.nonce = fresh + 1 /\ u.frag = s.frag
    BY <1>2, <2>1, <2>2, GreetedType
  <2> HIDE DEF u
  <2>4. QED
    BY <1>1, <1>4, <2>3, RenewedSet
<1>5. QED
  BY <1>3, <1>4 DEF HandleHello, Greeted

LEMMA HandleKeepaliveTakes ==
  ASSUME TypeInv, RunKnown, HandleKeepalive
  PROVE  TakeStep
<1> DEFINE s == slots[index]
           m == Noted(s, packet)
           t == [m EXCEPT !.run = packet.run, !.connected = TRUE, !.echo = TRUE]
<1>1. index \in DOMAIN slots /\ packet \in Packets /\ acted' = acted
  BY DEF HandleKeepalive, Handles, Paired, TypeInv
<1>2. s \in Slot /\ packet.run \in Nat /\ s.barrier \in Nat
  BY <1>1, SlotFields DEF Packets
<1>3. CASE Rejects(index, packet)
  BY <1>1, <1>3, RejectsTakes
<1>4. CASE slots' = [slots EXCEPT ![index] = t] /\ Accepts(s, packet)
  <2>1. packet.run = s.run
    BY <1>4 DEF RunKnown, HandleKeepalive
  <2>2. m \in Slot /\ m.frag = s.frag /\ m.owner = s.owner /\ m.nonce = s.nonce /\ m.barrier = s.barrier
    BY <1>1, <1>2, NotedType
  <2> HIDE DEF m
  <2>3. /\ t \in Slot /\ t.owner = m.owner /\ t.nonce = m.nonce /\ t.run = packet.run
        /\ t.frag = m.frag /\ t.barrier = m.barrier
    BY <1>2, <2>2 DEF Slot
  <2> HIDE DEF t
  <2>4. t.barrier >= s.barrier
    BY <1>2, <2>2, <2>3
  <2>5. \A j \in DOMAIN slots' : Lasts(j) /\ FragStays(j)
    BY <1>1, <1>4, <2>1, <2>2, <2>3, <2>4, LastsSet
  <2>6. QED
    BY <1>1, <2>5 DEF TakeStep, Idle
<1>5. QED
  BY <1>3, <1>4 DEF HandleKeepalive

LEMMA DressedRest ==
  ASSUME NEW s \in Slot, NEW b \in Nat, NEW f \in SUBSET Packets
  PROVE  /\ Connected(s).run = s.run /\ Connected(s).barrier = s.barrier
         /\ Barred(s, b).run = s.run /\ Barred(s, b).barrier = b
         /\ Fitted(s, f).run = s.run /\ Fitted(s, f).barrier = s.barrier /\ Fitted(s, f).frag = f
         /\ Fitted(s, f) \in Slot /\ Fitted(s, f).owner = s.owner /\ Fitted(s, f).nonce = s.nonce
<1>1. Connected(s).run = s.run /\ Connected(s).barrier = s.barrier
  BY DEF Connected, Slot
<1>2. Barred(s, b).run = s.run /\ Barred(s, b).barrier = b
  BY DEF Barred, Slot
<1>3. /\ Fitted(s, f).run = s.run /\ Fitted(s, f).barrier = s.barrier /\ Fitted(s, f).frag = f
      /\ Fitted(s, f) \in Slot /\ Fitted(s, f).owner = s.owner /\ Fitted(s, f).nonce = s.nonce
  BY DEF Fitted, Slot
<1>4. QED
  BY <1>1, <1>2, <1>3

LEMMA HandleDataTakes ==
  ASSUME TypeInv, HandleData
  PROVE  TakeStep
<1> DEFINE s == slots[index]
           m == Noted(s, packet)
<1>1. step = "handle" /\ index \in DOMAIN slots /\ packet \in Packets /\ packet.kind = "message"
  BY DEF HandleData, Handles, Paired, TypeInv
<1>2. s \in Slot /\ s.frag \in SUBSET Packets /\ s.barrier \in Nat /\ packet.count \in Nat
  BY <1>1, SlotFields DEF Packets
<1>3. /\ m \in Slot /\ m.frag = s.frag /\ m.owner = s.owner /\ m.nonce = s.nonce /\ m.barrier = s.barrier
      /\ m.run = s.run /\ m.barrier >= s.barrier
  BY <1>1, <1>2, NotedType, NotedRest
<1>4. CASE ~Accepts(s, packet)
  BY <1>1, <1>4, RejectsTakes DEF HandleData
<1>5. CASE Accepts(s, packet) /\ packet.count <= s.barrier
  <2>1. slots' = [slots EXCEPT ![index] = m] /\ acted' = acted
    BY <1>5 DEF HandleData
  <2> HIDE DEF m
  <2>2. \A j \in DOMAIN slots' : Lasts(j) /\ FragStays(j)
    BY <1>1, <1>3, <2>1, LastsSet
  <2>3. QED
    BY <2>1, <2>2 DEF TakeStep, Idle
<1>6. CASE Accepts(s, packet) /\ ~(packet.count <= s.barrier)
  <2>1. PICK late \in BOOLEAN :
          LET frag == Gathered(s.frag, packet, late) IN
          /\ slots' = [slots EXCEPT ![index] =
                [m EXCEPT !.connected = TRUE, !.frag = IF Complete(frag) THEN {} ELSE frag]]
          /\ IF Complete(frag) /\ Room > 0 THEN Act(s.owner, frag) /\ head' = head + 1
             ELSE UNCHANGED <<acted, head>>
    BY <1>6 DEF HandleData
  <2> DEFINE g == Gathered(s.frag, packet, late)
             left == IF Complete(g) THEN {} ELSE g
             t == Fitted(m, left)
  <2>2. /\ slots' = [slots EXCEPT ![index] = t] /\ left \in {{}, g}
        /\ acted' = acted \/ (Complete(g) /\ Acts(g))
    BY <2>1 DEF Fitted, Act, Acts
  <2>3. g \in SUBSET Packets
    BY <1>1, <1>2, GatheredFrom
  <2>4. left \in SUBSET Packets
    BY <2>3
  <2> HIDE DEF m, left
  <2>5. /\ t \in Slot /\ t.owner = s.owner /\ t.nonce = s.nonce /\ t.run = s.run
        /\ t.barrier >= s.barrier /\ t.frag = left
    BY <1>2, <1>3, <2>4, DressedRest, 0 \in Nat
  <2> HIDE DEF t
  <2>6. /\ DOMAIN slots' = DOMAIN slots /\ slots'[index] = t
        /\ \A j \in DOMAIN slots' : Lasts(j)
        /\ \A j \in DOMAIN slots : j # index => FragStays(j)
    BY <1>1, <2>2, <2>5, LastsSet
  <2>7. Accepted
    BY <1>1, <1>6, <2>6 DEF Accepted
  <2>8. packet.count > s.barrier
    BY <1>2, <1>6
  <2>9. Assembled
    BY <1>1, <2>2, <2>5, <2>6, <2>7, <2>8 DEF Assembled
  <2>10. QED
    BY <2>6, <2>9 DEF TakeStep
<1>7. QED
  BY <1>4, <1>5, <1>6

\* The slots without the packets gathered.
LEMMA EmptiedTakes ==
  ASSUME TypeInv, NEW all \in Seq(Slot), DOMAIN all = DOMAIN slots, slots' = WithoutFrags(all),
         \A i \in DOMAIN slots :
           /\ all[i].owner = slots[i].owner /\ all[i].nonce = slots[i].nonce
           /\ all[i].run = slots[i].run /\ all[i].barrier >= slots[i].barrier
  PROVE  /\ DOMAIN slots' = DOMAIN slots
         /\ \A i \in DOMAIN slots : Lasts(i) /\ slots'[i].frag = {} /\ slots'[i].barrier = all[i].barrier
<1>1. ASSUME NEW s \in Slot
      PROVE  /\ Emptied(s).owner = s.owner /\ Emptied(s).nonce = s.nonce /\ Emptied(s).run = s.run
             /\ Emptied(s).barrier = s.barrier /\ Emptied(s).frag = {}
  BY DEF Slot, Emptied
<1>2. /\ DOMAIN slots' = DOMAIN slots
      /\ \A i \in DOMAIN slots : all[i] \in Slot /\ slots'[i] = Emptied(all[i])
  BY DEF WithoutFrags, Emptied
<1>3. QED
  BY <1>1, <1>2 DEF Lasts

LEMMA BarrierRises ==
  ASSUME NEW s \in Slot, NEW p \in Packets
  PROVE  /\ Barrier(s, p) \in Nat /\ Barrier(s, p) >= s.barrier
         /\ p.kind \in Safety => Barrier(s, p) >= p.count
<1>1. s.barrier \in Nat /\ p.count \in Nat
  BY DEF Slot, Packets
<1>2. QED
  BY <1>1 DEF Barrier

LEMMA HandleRealtimeTakes ==
  ASSUME TypeInv, HandleRealtime
  PROVE  TakeStep
<1> DEFINE s == slots[index]
           n == Noted(s, packet)
           m == Barred(n, Barrier(s, packet))
           t == Connected(m)
           taken == [slots EXCEPT ![index] = t]
<1>1. /\ step = "handle" /\ index \in DOMAIN slots /\ packet \in Packets
      /\ packet.kind \in Safety \cup Overrides
  BY DEF HandleRealtime, Handles, Paired, TypeInv
<1>2. s \in Slot /\ s.frag \in SUBSET Packets /\ slots \in Seq(Slot)
  BY <1>1, SlotFields DEF TypeInv
<1>3. /\ Barrier(s, packet) \in Nat /\ Barrier(s, packet) >= s.barrier
      /\ packet.kind \in Safety => Barrier(s, packet) >= packet.count
  BY <1>1, <1>2, BarrierRises
<1>4. n \in Slot /\ n.frag = s.frag /\ n.owner = s.owner /\ n.nonce = s.nonce /\ n.run = s.run
  BY <1>1, <1>2, NotedType, NotedRest
<1>5. /\ m \in Slot /\ m.owner = s.owner /\ m.nonce = s.nonce /\ m.frag = s.frag
      /\ m.run = s.run /\ m.barrier = Barrier(s, packet)
  <2> HIDE DEF n
  <2>1. /\ m \in Slot /\ m.owner = n.owner /\ m.nonce = n.nonce /\ m.frag = n.frag
        /\ m.run = n.run /\ m.barrier = Barrier(s, packet)
    BY <1>3, <1>4 DEF Barred, Slot
  <2>2. QED
    BY <1>4, <2>1
<1>6. /\ t \in Slot /\ t.owner = s.owner /\ t.nonce = s.nonce /\ t.frag = s.frag
      /\ t.run = s.run /\ t.barrier = Barrier(s, packet)
  <2> HIDE DEF m
  <2>1. /\ t \in Slot /\ t.owner = m.owner /\ t.nonce = m.nonce /\ t.frag = m.frag
        /\ t.run = m.run /\ t.barrier = m.barrier
    BY <1>5 DEF Connected, Slot
  <2>2. QED
    BY <1>5, <2>1
<1>7. CASE Rejects(index, packet) /\ acted' = acted
  BY <1>1, <1>7, RejectsTakes
<1>8. CASE slots' = [slots EXCEPT ![index] = m] /\ acted' = acted
  <2> HIDE DEF m
  <2>1. m.barrier >= s.barrier
    BY <1>3, <1>5
  <2>2. \A j \in DOMAIN slots' : Lasts(j) /\ FragStays(j)
    BY <1>1, <1>5, <1>8, <2>1, LastsSet
  <2>3. QED
    BY <1>8, <2>2 DEF TakeStep, Idle
<1>9. t.barrier >= s.barrier /\ (packet.kind \in Safety => t.barrier >= packet.count)
  BY <1>3, <1>6
<1> HIDE DEF t, n, m
<1>10. CASE slots' = taken /\ Accepts(s, packet) /\ Acts({packet}) /\ packet.kind # "cancel"
  <2>1. /\ DOMAIN slots' = DOMAIN slots /\ slots'[index] = t
        /\ \A j \in DOMAIN slots' : Lasts(j) /\ FragStays(j)
    BY <1>1, <1>6, <1>9, <1>10, LastsSet
  <2>2. Accepted
    BY <1>1, <1>10, <2>1 DEF Accepted
  <2>3. Commanded
    BY <1>1, <1>9, <1>10, <2>1, <2>2 DEF Commanded
  <2>4. QED
    BY <2>1, <2>3 DEF TakeStep
<1>11. CASE slots' = WithoutFrags(taken) /\ Accepts(s, packet) /\ Acts({packet})
  <2>1. /\ taken \in Seq(Slot) /\ DOMAIN taken = DOMAIN slots /\ taken[index] = t
        /\ \A i \in DOMAIN slots : i # index => taken[i] = slots[i]
    BY <1>1, <1>2, <1>6
  <2>2. \A i \in DOMAIN slots : slots[i].barrier >= slots[i].barrier
    BY SlotFields
  <2>3. \A i \in DOMAIN slots :
           /\ taken[i].owner = slots[i].owner /\ taken[i].nonce = slots[i].nonce
           /\ taken[i].run = slots[i].run /\ taken[i].barrier >= slots[i].barrier
    BY <1>6, <1>9, <2>1, <2>2
  <2> HIDE DEF taken
  <2>4. /\ DOMAIN slots' = DOMAIN slots
        /\ \A i \in DOMAIN slots : Lasts(i) /\ slots'[i].frag = {} /\ slots'[i].barrier = taken[i].barrier
    BY <1>11, <2>1, <2>3, EmptiedTakes
  <2>5. Accepted
    BY <1>1, <1>11, <2>4 DEF Accepted
  <2>6. Commanded
    BY <1>1, <1>9, <1>11, <2>1, <2>4, <2>5 DEF Commanded, FragStays
  <2>7. QED
    BY <2>4, <2>6 DEF TakeStep
<1>12. QED
  <2>1. \/ Rejects(index, packet) /\ acted' = acted
        \/ slots' = [slots EXCEPT ![index] = m] /\ acted' = acted
        \/ /\ Accepts(s, packet) /\ Acts({packet})
           /\ \/ slots' = taken /\ packet.kind # "cancel"
              \/ slots' = WithoutFrags(taken)
    BY DEF HandleRealtime, Act, Acts, t, m, n, Connected, Barred
  <2>2. QED
    BY <1>7, <1>8, <1>10, <1>11, <2>1

LEMMA TimeOutTakes ==
  ASSUME TypeInv, NEW i \in DOMAIN slots, TimeOut(i)
  PROVE  TakeStep
<1> DEFINE t == Cleared(slots[i].owner, fresh + 1)
<1>1. slots[i].owner \in Pendants /\ fresh + 1 \in Nat
  BY SlotFields DEF TypeInv
<1>2. t \in Slot /\ t.nonce = fresh + 1 /\ t.frag = {}
  BY <1>1, ClearedType
<1>3. slots' = [slots EXCEPT ![i] = t] /\ fresh' = fresh + 1 /\ acted' = acted
  BY DEF TimeOut
<1> HIDE DEF t
<1>4. QED
  BY <1>2, <1>3, RenewedSet

LEMMA EchoTakes ==
  ASSUME TypeInv, NEW i \in DOMAIN slots, Echo(i)
  PROVE  TakeStep
<1> DEFINE s == slots[i]
           t == [s EXCEPT !.echo = FALSE]
<1>1. s \in Slot /\ s.barrier \in Nat
  BY SlotFields
<1>2. /\ t \in Slot /\ t.owner = s.owner /\ t.nonce = s.nonce /\ t.run = s.run
      /\ t.barrier = s.barrier /\ t.frag = s.frag
  BY <1>1 DEF Slot
<1>3. slots' = [slots EXCEPT ![i] = t] /\ acted' = acted
  BY DEF Echo
<1> HIDE DEF t
<1>4. t.barrier >= s.barrier
  BY <1>1, <1>2
<1>5. \A j \in DOMAIN slots' : Lasts(j) /\ FragStays(j)
  BY <1>2, <1>3, <1>4, LastsSet
<1>6. QED
  BY <1>3, <1>5 DEF TakeStep, Idle

LEMMA FlushFragsTakes ==
  ASSUME TypeInv, FlushFrags
  PROVE  TakeStep
<1>1. slots \in Seq(Slot) /\ slots' = WithoutFrags(slots) /\ acted' = acted
  BY DEF FlushFrags, TypeInv
<1>2. \A i \in DOMAIN slots : slots[i].barrier >= slots[i].barrier
  BY SlotFields
<1>3. DOMAIN slots' = DOMAIN slots /\ \A i \in DOMAIN slots : Lasts(i) /\ slots'[i].frag = {}
  BY <1>1, <1>2, EmptiedTakes
<1>4. QED
  BY <1>1, <1>3 DEF TakeStep, Idle, FragStays

LEMMA RemoveRuntimePeerTakes ==
  ASSUME TypeInv, NEW i \in DOMAIN slots, RemoveRuntimePeer(i)
  PROVE  TakeStep
<1>1. fresh \in Nat /\ Len(slots) \in Nat /\ DOMAIN slots = 1 .. Len(slots) /\ i \in Nat
  BY DEF TypeInv
<1>2. /\ slots' = [j \in 1 .. Len(slots) - 1 |-> Shifted(i, j)] /\ fresh' = fresh + Len(slots)
      /\ acted' = acted
  BY DEF RemoveRuntimePeer
<1>3. DOMAIN slots' = 1 .. Len(slots) - 1
  BY <1>1, <1>2
<1>4. ASSUME NEW j \in DOMAIN slots', j < i
      PROVE  Lasts(j) /\ FragStays(j)
  <2>1. slots'[j] = slots[j] /\ j \in DOMAIN slots
    BY <1>1, <1>2, <1>3, <1>4 DEF Shifted
  <2>2. slots[j].barrier >= slots[j].barrier
    BY <2>1, SlotFields
  <2>3. QED
    BY <2>1, <2>2 DEF Lasts, FragStays
<1>5. ASSUME NEW j \in DOMAIN slots', ~(j < i)
      PROVE  Given(j) /\ FragStays(j)
  <2>1. slots'[j] = Cleared(slots[j + 1].owner, fresh + j) /\ j + 1 \in DOMAIN slots /\ fresh + j \in Nat
        /\ fresh + j \in fresh + 1 .. fresh'
    BY <1>1, <1>2, <1>3, <1>5 DEF Shifted
  <2>2. slots[j + 1].owner \in Pendants
    BY <2>1, SlotFields
  <2>3. slots'[j].nonce = fresh + j /\ slots'[j].frag = {}
    BY <2>1, <2>2, ClearedType
  <2>4. QED
    BY <2>1, <2>3 DEF Given, FragStays
<1>6. QED
  BY <1>2, <1>4, <1>5 DEF TakeStep, Idle

LEMMA ActivatePairingTakes ==
  ASSUME TypeInv, NEW p \in Pendants, ActivatePairing(p)
  PROVE  TakeStep
<1> DEFINE t == Cleared(p, fresh + 1)
<1>1. slots \in Seq(Slot) /\ fresh \in Nat /\ fresh + 1 \in Nat /\ Len(slots) \in Nat
      /\ DOMAIN slots = 1 .. Len(slots)
  BY DEF TypeInv
<1>2. t \in Slot /\ t.nonce = fresh + 1 /\ t.frag = {}
  BY <1>1, ClearedType
<1>3. fresh' = fresh + 1 /\ acted' = acted
  BY DEF ActivatePairing
<1> HIDE DEF t
<1>4. CASE IsPaired(p) /\ slots' = [slots EXCEPT ![SlotOf(p)] = t]
  <2>1. SlotOf(p) \in DOMAIN slots
    BY <1>4 DEF IsPaired, SlotOf
  <2>2. QED
    BY <1>2, <1>3, <1>4, <2>1, RenewedSet
<1>5. CASE slots' = Append(slots, t)
  <2>1. /\ DOMAIN slots' = 1 .. Len(slots) + 1
        /\ slots'[Len(slots) + 1] = t /\ \A j \in DOMAIN slots : slots'[j] = slots[j]
    BY <1>1, <1>2, <1>5
  <2>2. \A j \in DOMAIN slots' : j \in DOMAIN slots \/ j = Len(slots) + 1
    BY <1>1, <2>1
  <2>3. Given(Len(slots) + 1) /\ FragStays(Len(slots) + 1)
    BY <1>1, <1>2, <1>3, <2>1 DEF Given, FragStays
  <2>4. \A j \in DOMAIN slots : slots[j].barrier >= slots[j].barrier
    BY SlotFields
  <2>5. \A j \in DOMAIN slots : Lasts(j) /\ FragStays(j)
    BY <2>1, <2>4 DEF Lasts, FragStays
  <2>6. QED
    BY <1>3, <2>2, <2>3, <2>5 DEF TakeStep, Idle
<1>6. QED
  BY <1>4, <1>5 DEF ActivatePairing, t

\* The pendants, the radio and the ring change nothing here.
LEMMA OthersTake ==
  ASSUME TypeInv,
         \/ ProcessPacket \/ HandleRemoved \/ ReadLoad \/ ReadStore \/ FlushLoad \/ FlushStore
         \/ \E p \in air : OnRecv(p)
         \/ \E p \in Pendants : Pendant(p)
         \/ UNCHANGED vars
  PROVE  TakeStep
<1>1. CASE ProcessPacket \/ HandleRemoved \/ ReadLoad \/ ReadStore
  BY <1>1, TakesNothing DEF ProcessPacket, HandleRemoved, ReadLoad, ReadStore, roster
<1>2. CASE FlushLoad \/ FlushStore
  BY <1>2, TakesNothing DEF FlushLoad, FlushStore, roster
<1>3. CASE \E p \in air : OnRecv(p)
  BY <1>3, TakesNothing DEF OnRecv, roster
<1>4. CASE \E p \in Pendants : Pendant(p)
  <2>1. PICK p \in Pendants : Pendant(p)
    BY <1>4
  <2>2. Radios
    BY <2>1 DEF Pendant, SendHello, Restart, SendMessage, SendOne, Learn
  <2>3. QED
    BY <2>2, TakesNothing DEF Radios, roster
<1>5. CASE UNCHANGED vars
  BY <1>5, TakesNothing DEF vars, roster
<1>6. QED
  BY <1>1, <1>2, <1>3, <1>4, <1>5

LEMMA NextTakes ==
  ASSUME TypeInv, RunKnown, [Next]_vars
  PROVE  TakeStep
<1>1. CASE Polling
  BY <1>1, OthersTake, HandleHelloTakes, HandleKeepaliveTakes, HandleDataTakes, HandleRealtimeTakes,
     TimeOutTakes, EchoTakes, ActivatePairingTakes DEF Polling
<1>2. CASE ProtocolTask
  BY <1>2, OthersTake, FlushFragsTakes, RemoveRuntimePeerTakes DEF ProtocolTask
<1>3. QED
  BY <1>1, <1>2, OthersTake DEF Next

-----------------------------------------------------------------------------
(* Sessions and messages.                                                    *)

Known(q) == q \in Flying \/ Used(q)

\* A run of a pendant that knows of a nonce, or is known by it.
Tied(p, n, r) ==
  \/ \E i \in DOMAIN slots : slots[i].owner = p /\ slots[i].nonce = n /\ slots[i].run = r
  \/ pendant[p].run = r /\ (pendant[p].nonce = n \/ n \in answers[p])
  \/ \E q \in Packets : Known(q) /\ q.from = p /\ q.nonce = n /\ q.run = r

\* A nonce is for one run of its pendant.
OneRun ==
  \A p \in Pendants : \A n \in Nat \ {0} : \A r, s \in Nat : Tied(p, n, r) /\ Tied(p, n, s) => r = s

\* Messages have two packets, and numbers below that of their pendant's next.
Numbered ==
  \A q \in Packets : Known(q) /\ q.kind = "message" =>
    /\ q.nonce # 0 /\ q.of = 2 /\ q.part \in 0 .. 1
    /\ q.run <= pendant[q.from].run
    /\ q.run = pendant[q.from].run => q.seq < pendant[q.from].seq

\* A message is known by its session and its number, and its packets have counts in a row.
OneSend ==
  \A q, r \in Packets :
    /\ Known(q) /\ q.kind = "message" /\ Known(r) /\ r.kind = "message"
    /\ q.from = r.from /\ q.nonce = r.nonce /\ q.seq = r.seq
    => q.count - q.part = r.count - r.part

\* The packets gathered in a slot are of one number.
OneMessage == \A i \in DOMAIN slots : \A q, r \in slots[i].frag : q.kind = "message" /\ q.seq = r.seq

\* No two packets that are gathered or taken have the same count of the same nonce.
OneCount == \A q, r \in Packets : Used(q) /\ Used(r) /\ q.nonce = r.nonce /\ q.count = r.count => q = r

\* A safety command that has been taken bars what its sender sent before it in the session.
Stop(p) == p.kind \in Safety /\ \E i \in DOMAIN acted : p \in acted[i].pieces
BarsBefore ==
  \A i \in DOMAIN slots : \A p \in Packets : Stop(p) =>
    /\ p.nonce = slots[i].nonce => p.count <= slots[i].barrier
    /\ p.kind = "cancel" => \A q \in slots[i].frag : q.nonce = p.nonce => q.count > p.count

SessionInv ==
  OneRun /\ Numbered /\ OneSend /\ OneMessage /\ OneCount /\ BarsBefore /\ StopsHold /\ MessagesWhole

LEMMA KnownType ==
  ASSUME TypeInv, NEW q, Known(q)
  PROVE  /\ q \in Packets /\ q.from \in Pendants /\ q.nonce \in Nat /\ q.run \in Nat
         /\ q.count \in Nat /\ q.seq \in Nat /\ q.part \in Nat
<1>1. q \in Flying => q \in Packets
  BY Queue DEF Flying, TypeInv
<1>2. q \in Packets
  BY <1>1, UsedType DEF Known
<1>3. QED
  BY <1>2 DEF Packets

\* Who may be accepted is the owner of the slot.
LEMMA AcceptedOwner ==
  ASSUME TypeInv, Bounds, OwnInv, step = "handle", index \in DOMAIN slots, Accepts(slots[index], packet)
  PROVE  packet.from = slots[index].owner /\ packet.nonce = slots[index].nonce /\ Known(packet)
<1>1. packet \in Flying /\ packet \in Packets
  BY DEF Flying, TypeInv
<1>2. packet.nonce = slots[index].nonce
  BY DEF Accepts
<1>3. slots[index].nonce \in 1 .. fresh /\ packet.from \in Pendants /\ slots[index].owner \in Pendants
      /\ fresh \in Nat
  BY <1>1, SlotFields DEF Bounds, Packets, TypeInv
<1>4. Holds(packet.from, packet.nonce) /\ Holds(slots[index].owner, packet.nonce)
  BY <1>1, <1>2, <1>3 DEF Holds
<1>5. packet.nonce \in Nat
  BY <1>1 DEF Packets
<1>6. QED
  BY <1>1, <1>2, <1>3, <1>4, <1>5 DEF OwnInv, Known

LEMMA RunsKnown ==
  ASSUME EspNowInv, OneRun
  PROVE  RunKnown
<1> SUFFICES ASSUME Handles({"keepalive"}), Paired, Accepts(slots[index], packet)
             PROVE  packet.run = slots[index].run
  BY DEF RunKnown
<1>1. step = "handle" /\ index \in DOMAIN slots /\ TypeInv /\ Bounds /\ OwnInv
  BY DEF Handles, Paired, EspNowInv
<1>2. packet.from = slots[index].owner /\ packet.nonce = slots[index].nonce /\ Known(packet)
  BY <1>1, AcceptedOwner
<1>3. packet \in Packets /\ packet.from \in Pendants /\ packet.run \in Nat /\ packet.nonce \in Nat
  BY <1>1, <1>2, KnownType
<1>4. slots[index].nonce # 0 /\ slots[index].run \in Nat
  BY <1>1, SlotFields DEF Bounds
<1>5. Tied(packet.from, packet.nonce, packet.run) /\ Tied(packet.from, packet.nonce, slots[index].run)
  BY <1>1, <1>2, <1>3 DEF Tied
<1>6. QED
  BY <1>2, <1>3, <1>4, <1>5 DEF OneRun

\* What a step uses it had, or has accepted.
LEMMA UsedBefore ==
  ASSUME TypeInv, TakeStep, NEW q, Used(q)'
  PROVE  Used(q) \/ (Accepted /\ q = packet)
<1>1. CASE Idle
  BY <1>1 DEF Idle, FragStays, Used
<1>2. ASSUME NEW pieces, Acts(pieces), NEW j \in DOMAIN acted', q \in acted'[j].pieces
      PROVE  Used(q) \/ q \in pieces
  <2>1. acted \in Seq(Taken)
    BY DEF TypeInv
  <2>2. IF j \in DOMAIN acted THEN acted'[j] = acted[j]
        ELSE acted'[j] = [owner |-> slots[index].owner, pieces |-> pieces]
    BY <1>2, <2>1 DEF Acts
  <2>3. QED
    BY <1>2, <2>2 DEF Used
<1>3. CASE Commanded
  BY <1>2, <1>3 DEF Commanded, Accepted, FragStays, Used
<1>4. CASE Assembled
  <2>1. PICK late \in BOOLEAN :
          /\ slots'[index].frag \in {{}, Gathered(slots[index].frag, packet, late)}
          /\ acted' = acted \/ Acts(Gathered(slots[index].frag, packet, late))
    BY <1>4 DEF Assembled
  <2>2. Accepted /\ index \in DOMAIN slots /\ DOMAIN slots' = DOMAIN slots
        /\ \A i \in DOMAIN slots : i # index => FragStays(i)
    BY <1>4 DEF Assembled, Accepted
  <2>3. Gathered(slots[index].frag, packet, late) \subseteq slots[index].frag \cup {packet}
    BY <2>1, GatheredFrom
  <2>4. CASE \E i \in DOMAIN slots' : q \in slots'[i].frag
    BY <2>1, <2>2, <2>3, <2>4 DEF FragStays, Used
  <2>5. CASE \E j \in DOMAIN acted' : q \in acted'[j].pieces
    <3>1. CASE acted' = acted
      BY <2>5, <3>1 DEF Used
    <3>2. CASE Acts(Gathered(slots[index].frag, packet, late))
      <4>1. Used(q) \/ q \in Gathered(slots[index].frag, packet, late)
        BY <1>2, <2>5, <3>2
      <4>2. QED
        BY <2>2, <2>3, <4>1 DEF Used
    <3>3. QED
      BY <2>1, <3>1, <3>2
  <2>6. QED
    BY <2>4, <2>5 DEF Used
<1>5. QED
  BY <1>1, <1>3, <1>4 DEF TakeStep

LEMMA KnownBefore ==
  ASSUME TypeInv, Step, TakeStep, NEW q, Known(q)'
  PROVE  Known(q) \/ Made(q)
<1>1. CASE q \in Flying'
  BY <1>1 DEF Step, SendStep, Known
<1>2. CASE Used(q)'
  <2>1. Used(q) \/ (Accepted /\ q = packet)
    BY <1>2, UsedBefore
  <2>2. Accepted => packet \in Flying
    BY DEF Accepted, Flying
  <2>3. QED
    BY <2>1, <2>2 DEF Known
<1>3. QED
  BY <1>1, <1>2 DEF Known

LEMMA TiedBefore ==
  ASSUME TypeInv, Step, TakeStep, NEW p \in Pendants, NEW n \in Nat \ {0}, NEW r \in Nat, Tied(p, n, r)'
  PROVE  \/ Tied(p, n, r)
         \/ \E i \in DOMAIN slots' : Given(i) /\ slots'[i].nonce = n /\ slots'[i].run = r
<1>1. CASE \E i \in DOMAIN slots' : slots'[i].owner = p /\ slots'[i].nonce = n /\ slots'[i].run = r
  BY <1>1 DEF TakeStep, Lasts, Tied
<1>2. CASE pendant'[p].run = r /\ (pendant'[p].nonce = n \/ n \in answers'[p])
  <2>1. GoesOn(p)
    BY <1>2 DEF Step, SendStep, Restarts
  <2>2. QED
    BY <1>2, <2>1 DEF GoesOn, Tied
<1>3. CASE \E q \in Packets : Known(q)' /\ q.from = p /\ q.nonce = n /\ q.run = r
  <2>1. PICK q \in Packets : Known(q)' /\ q.from = p /\ q.nonce = n /\ q.run = r
    BY <1>3
  <2>2. Known(q) \/ Made(q)
    BY <2>1, KnownBefore
  <2>3. QED
    BY <2>1, <2>2 DEF Made, Tied
<1>4. QED
  BY <1>1, <1>2, <1>3 DEF Tied

LEMMA TiedBound ==
  ASSUME EspNowInv, NEW p \in Pendants, NEW n \in Nat, NEW r \in Nat, Tied(p, n, r)
  PROVE  n <= fresh
<1>1. TypeInv /\ Bounds /\ OnceInv /\ fresh \in Nat
  BY DEF EspNowInv, TypeInv
<1>2. CASE \E i \in DOMAIN slots : slots[i].nonce = n
  BY <1>1, <1>2 DEF Bounds
<1>3. CASE pendant[p].nonce = n \/ n \in answers[p]
  BY <1>1, <1>3 DEF Bounds
<1>4. CASE \E q \in Packets : Known(q) /\ q.nonce = n
  BY <1>1, <1>4 DEF Known, Bounds, OnceInv
<1>5. QED
  BY <1>2, <1>3, <1>4 DEF Tied

LEMMA OneRunKept ==
  ASSUME EspNowInv, Step, TakeStep, OneRun
  PROVE  OneRun'
<1> SUFFICES ASSUME NEW p \in Pendants, NEW n \in Nat \ {0}, NEW r \in Nat, NEW s \in Nat,
                    Tied(p, n, r)', Tied(p, n, s)'
             PROVE  r = s
  BY DEF OneRun
<1>1. TypeInv /\ fresh \in Nat
  BY DEF EspNowInv, TypeInv
<1>2. \/ Tied(p, n, r)
      \/ \E i \in DOMAIN slots' : Given(i) /\ slots'[i].nonce = n /\ slots'[i].run = r
  BY <1>1, TiedBefore
<1>3. \/ Tied(p, n, s)
      \/ \E i \in DOMAIN slots' : Given(i) /\ slots'[i].nonce = n /\ slots'[i].run = s
  BY <1>1, TiedBefore
<1>4. (Tied(p, n, r) => n <= fresh) /\ (Tied(p, n, s) => n <= fresh)
  BY TiedBound
<1>5. \A i \in DOMAIN slots' : Given(i) /\ slots'[i].nonce = n => ~(n <= fresh)
  BY <1>1 DEF Given
<1>6. \A i, j \in DOMAIN slots' : Given(i) /\ slots'[i].nonce = slots'[j].nonce => i = j
  BY DEF Step, Quiet, Busy, SlotStep
<1>7. CASE Tied(p, n, r) /\ Tied(p, n, s)
  BY <1>7 DEF OneRun
<1>8. CASE ~Tied(p, n, r) /\ ~Tied(p, n, s)
  BY <1>2, <1>3, <1>6, <1>8
<1>9. QED
  BY <1>2, <1>3, <1>4, <1>5, <1>7, <1>8

LEMMA NumberedKept ==
  ASSUME TypeInv, Step, TakeStep, Numbered
  PROVE  Numbered'
<1> SUFFICES ASSUME NEW q \in Packets, Known(q)', q.kind = "message"
             PROVE  /\ q.nonce # 0 /\ q.of = 2 /\ q.part \in 0 .. 1
                    /\ q.run <= pendant'[q.from].run
                    /\ q.run = pendant'[q.from].run => q.seq < pendant'[q.from].seq
  BY DEF Numbered
<1>1. q.from \in Pendants /\ q.run \in Nat /\ q.seq \in Nat
  BY DEF Packets
<1>2. pendant[q.from].run \in Nat /\ pendant[q.from].seq \in Nat
  BY <1>1, StateType
<1>3. /\ pendant'[q.from].run \in Nat /\ pendant'[q.from].seq \in Nat
      /\ \/ pendant'[q.from].run = pendant[q.from].run /\ pendant'[q.from].seq >= pendant[q.from].seq
         \/ pendant'[q.from].run = pendant[q.from].run + 1
  <2>1. TypeInv'
    BY DEF Step
  <2>2. pendant'[q.from].run \in Nat /\ pendant'[q.from].seq \in Nat
    BY <1>1, <2>1 DEF TypeInv, State
  <2>3. QED
    BY <1>1, <2>2 DEF Step, SendStep, GoesOn, Restarts
<1>4. CASE Known(q)
  BY <1>1, <1>2, <1>3, <1>4 DEF Numbered
<1>5. CASE Made(q)
  BY <1>1, <1>2, <1>3, <1>5 DEF Made
<1>6. QED
  BY <1>4, <1>5, KnownBefore

\* A message that is new has a number that no other of its run has had.
LEMMA MadeNew ==
  ASSUME EspNowInv, OneRun, Numbered, NEW q \in Packets, Known(q), q.kind = "message",
         NEW r \in Packets, Made(r), r.kind = "message",
         q.from = r.from, q.nonce = r.nonce, q.seq = r.seq
  PROVE  FALSE
<1>1. /\ r.from \in Pendants /\ r.nonce = pendant[r.from].nonce /\ r.run = pendant[r.from].run
      /\ r.nonce # 0 /\ r.seq = pendant[r.from].seq
  BY DEF Made
<1>2. q.run \in Nat /\ r.run \in Nat /\ r.nonce \in Nat \ {0} /\ q.seq \in Nat
  BY <1>1 DEF Packets
<1>3. Tied(r.from, r.nonce, q.run)
  BY DEF Tied
<1>4. Tied(r.from, r.nonce, r.run)
  BY <1>1 DEF Tied
<1>5. q.run = r.run
  BY <1>1, <1>2, <1>3, <1>4 DEF OneRun
<1>6. q.seq < r.seq
  BY <1>1, <1>5 DEF Numbered
<1>7. QED
  BY <1>2, <1>6

LEMMA OneSendKept ==
  ASSUME EspNowInv, Step, TakeStep, OneRun, Numbered, OneSend
  PROVE  OneSend'
<1> SUFFICES ASSUME NEW q \in Packets, NEW r \in Packets,
                    Known(q)', q.kind = "message", Known(r)', r.kind = "message",
                    q.from = r.from, q.nonce = r.nonce, q.seq = r.seq
             PROVE  q.count - q.part = r.count - r.part
  BY DEF OneSend
<1>1. TypeInv
  BY DEF EspNowInv
<1>2. (Known(q) \/ Made(q)) /\ (Known(r) \/ Made(r))
  BY <1>1, KnownBefore
<1>3. CASE Known(q) /\ Known(r)
  BY <1>3 DEF OneSend
<1>4. CASE Known(q) /\ Made(r)
  BY <1>4, MadeNew
<1>5. CASE Made(q) /\ Known(r)
  BY <1>5, MadeNew
<1>6. CASE Made(q) /\ Made(r)
  <2>1. /\ q.count = pendant[q.from].count + 1 + q.part
        /\ r.count = pendant[q.from].count + 1 + r.part
        /\ q.part \in 0 .. 1 /\ r.part \in 0 .. 1 /\ q.from \in Pendants
    BY <1>6 DEF Made
  <2>2. pendant[q.from].count \in Nat
    BY <1>1, <2>1, StateType
  <2>3. QED
    BY <2>1, <2>2
<1>7. QED
  BY <1>2, <1>3, <1>4, <1>5, <1>6

LEMMA GatheredSame ==
  ASSUME NEW frag, NEW p, NEW late \in BOOLEAN, p.kind = "message",
         \A q, r \in frag : q.kind = "message" /\ q.seq = r.seq,
         NEW q \in Gathered(frag, p, late), NEW r \in Gathered(frag, p, late)
  PROVE  q.kind = "message" /\ q.seq = r.seq
<1>1. CASE late \/ \E x \in frag : x.seq # p.seq
  BY <1>1 DEF Gathered
<1>2. CASE ~(late \/ \E x \in frag : x.seq # p.seq)
  <2>1. \A x \in frag : x.kind = "message" /\ x.seq = p.seq
    BY <1>2
  <2>2. Gathered(frag, p, late) \subseteq frag \cup {p}
    BY GatheredFrom
  <2>3. QED
    BY <2>1, <2>2
<1>3. QED
  BY <1>1, <1>2

LEMMA OneMessageKept ==
  ASSUME TypeInv, TakeStep, OneMessage
  PROVE  OneMessage'
<1> SUFFICES ASSUME NEW i \in DOMAIN slots', NEW q \in slots'[i].frag, NEW r \in slots'[i].frag
             PROVE  q.kind = "message" /\ q.seq = r.seq
  BY DEF OneMessage
<1>1. CASE FragStays(i)
  BY <1>1 DEF FragStays, OneMessage
<1>2. CASE Assembled /\ i = index
  <2>1. PICK late \in BOOLEAN : slots'[index].frag \in {{}, Gathered(slots[index].frag, packet, late)}
    BY <1>2 DEF Assembled
  <2>2. index \in DOMAIN slots /\ packet.kind = "message"
    BY <1>2 DEF Assembled, Accepted
  <2>3. \A x, y \in slots[index].frag : x.kind = "message" /\ x.seq = y.seq
    BY <2>2 DEF OneMessage
  <2>4. q \in Gathered(slots[index].frag, packet, late) /\ r \in Gathered(slots[index].frag, packet, late)
    BY <1>2, <2>1
  <2>5. QED
    BY <2>1, <2>2, <2>3, <2>4, GatheredSame
<1>3. QED
  BY <1>1, <1>2 DEF TakeStep, Idle, Commanded, Assembled, Accepted

LEMMA OneCountKept ==
  ASSUME EspNowInv, TakeStep, OneCount
  PROVE  OneCount'
<1>1. TypeInv /\ OnceInv
  BY DEF EspNowInv
<1>2. ASSUME NEW q \in Packets, Used(q), Accepted, q.nonce = packet.nonce, q.count = packet.count
      PROVE  FALSE
  <2>1. index \in DOMAIN slots /\ packet \in Packets /\ Accepts(slots[index], packet)
    BY <1>2 DEF Accepted
  <2>2. packet.nonce = slots[index].nonce /\ ~Spent(slots[index], packet.count)
    BY <1>1, <2>1, SlotType, AcceptedOnce
  <2>3. QED
    BY <1>1, <1>2, <2>1, <2>2 DEF OnceInv
<1> SUFFICES ASSUME NEW q \in Packets, NEW r \in Packets, Used(q)', Used(r)',
                    q.nonce = r.nonce, q.count = r.count
             PROVE  q = r
  BY DEF OneCount, Used
<1>3. (Used(q) \/ (Accepted /\ q = packet)) /\ (Used(r) \/ (Accepted /\ r = packet))
  BY <1>1, UsedBefore
<1>4. CASE Used(q) /\ Used(r)
  BY <1>4 DEF OneCount
<1>5. QED
  BY <1>2, <1>3, <1>4

\* A stop is taken by the step that accepts it.
LEMMA StopBefore ==
  ASSUME TypeInv, TakeStep, OneMessage, NEW p \in Packets, Stop(p)'
  PROVE  Stop(p) \/ (Commanded /\ p = packet)
<1>1. p.kind \in Safety
  BY DEF Stop
<1>2. PICK j \in DOMAIN acted' : p \in acted'[j].pieces
  BY DEF Stop
<1>3. CASE acted' = acted
  BY <1>1, <1>2, <1>3 DEF Stop
<1>4. ASSUME NEW pieces, Acts(pieces)
      PROVE  Stop(p) \/ p \in pieces
  <2>1. acted \in Seq(Taken)
    BY DEF TypeInv
  <2>2. IF j \in DOMAIN acted THEN acted'[j] = acted[j]
        ELSE acted'[j] = [owner |-> slots[index].owner, pieces |-> pieces]
    BY <1>2, <1>4, <2>1 DEF Acts
  <2>3. QED
    BY <1>1, <1>2, <2>2 DEF Stop
<1>5. CASE Commanded
  BY <1>4, <1>5 DEF Commanded
<1>6. CASE Assembled
  <2>1. PICK late \in BOOLEAN : acted' = acted \/ Acts(Gathered(slots[index].frag, packet, late))
    BY <1>6 DEF Assembled
  <2>2. index \in DOMAIN slots /\ packet.kind = "message"
    BY <1>6 DEF Assembled, Accepted
  <2>3. \A x, y \in slots[index].frag : x.kind = "message" /\ x.seq = y.seq
    BY <2>2 DEF OneMessage
  <2>4. p \notin Gathered(slots[index].frag, packet, late)
    BY <1>1, <2>1, <2>2, <2>3, GatheredSame DEF Safety
  <2>5. QED
    BY <1>3, <1>4, <2>1, <2>4
<1>7. QED
  BY <1>3, <1>5, <1>6 DEF TakeStep, Idle

LEMMA BarsBeforeKept ==
  ASSUME EspNowInv, EspNowInv', Step, TakeStep, OneMessage, BarsBefore
  PROVE  BarsBefore'
<1> SUFFICES ASSUME NEW i \in DOMAIN slots', NEW p \in Packets, Stop(p)'
             PROVE  /\ p.nonce = slots'[i].nonce => p.count <= slots'[i].barrier
                    /\ p.kind = "cancel" =>
                         \A q \in slots'[i].frag : q.nonce = p.nonce => q.count > p.count
  BY DEF BarsBefore
<1>1. TypeInv /\ TypeInv' /\ Bounds /\ OnceInv /\ OnceInv' /\ fresh \in Nat
  BY DEF EspNowInv, TypeInv
<1>2. p.count \in Nat /\ p.nonce \in Nat
  BY DEF Packets
<1>3. Stop(p) \/ (Commanded /\ p = packet)
  BY <1>1, StopBefore
<1>4. p.nonce <= fresh
  <2>1. CASE Stop(p)
    BY <1>1, <2>1 DEF Stop, Used, OnceInv
  <2>2. CASE Commanded /\ p = packet
    BY <1>1, <2>2 DEF Commanded, Accepted, Bounds, Flying
  <2>3. QED
    BY <1>3, <2>1, <2>2
<1>5. ASSUME p.nonce = slots'[i].nonce PROVE p.count <= slots'[i].barrier
  <2>1. Lasts(i)
    BY <1>1, <1>4, <1>5 DEF TakeStep, Given
  <2>2. slots[i].barrier \in Nat /\ slots'[i].barrier \in Nat /\ i \in DOMAIN slots
    <3>1. i \in DOMAIN slots
      BY <2>1 DEF Lasts
    <3>2. slots'[i] \in Slot
      BY <1>1 DEF TypeInv
    <3>3. slots'[i].barrier \in Nat
      BY <3>2 DEF Slot
    <3>4. QED
      BY <1>1, <3>1, <3>3, SlotFields
  <2>3. CASE Stop(p)
    BY <1>2, <1>5, <2>1, <2>2, <2>3 DEF BarsBefore, Lasts
  <2>4. CASE Commanded /\ p = packet
    <3>1. packet.nonce = slots[index].nonce /\ index \in DOMAIN slots
      BY <2>4 DEF Commanded, Accepted, Accepts
    <3>2. i = index
      BY <1>1, <1>5, <2>1, <2>4, <3>1 DEF OnceInv, Lasts
    <3>3. p.kind \in Safety
      BY DEF Stop
    <3>4. QED
      BY <1>2, <2>2, <2>4, <3>2, <3>3 DEF Commanded
  <2>5. QED
    BY <1>3, <2>3, <2>4
<1>6. ASSUME p.kind = "cancel", NEW q \in slots'[i].frag, q.nonce = p.nonce
      PROVE  q.count > p.count
  <2>1. CASE Stop(p) /\ FragStays(i)
    BY <1>6, <2>1 DEF FragStays, BarsBefore
  <2>2. CASE Stop(p) /\ Assembled /\ i = index
    <3>1. PICK late \in BOOLEAN : slots'[index].frag \in {{}, Gathered(slots[index].frag, packet, late)}
      BY <2>2 DEF Assembled
    <3>2. /\ index \in DOMAIN slots /\ packet \in Packets /\ packet.count > slots[index].barrier
          /\ packet.nonce = slots[index].nonce
      BY <2>2 DEF Assembled, Accepted, Accepts
    <3>3. q \in slots[index].frag \cup {packet}
      BY <1>6, <2>2, <3>1, GatheredFrom
    <3>4. CASE q \in slots[index].frag
      BY <1>6, <2>2, <3>2, <3>4 DEF BarsBefore
    <3>5. CASE q = packet
      <4>1. p.count <= slots[index].barrier
        BY <1>6, <2>2, <3>2, <3>5 DEF BarsBefore
      <4>2. slots[index].barrier \in Nat /\ packet.count \in Nat
        BY <1>1, <3>2, SlotFields DEF Packets
      <4>3. QED
        BY <1>2, <3>2, <3>5, <4>1, <4>2
    <3>6. QED
      BY <3>3, <3>4, <3>5
  <2>3. CASE Commanded /\ p = packet
    BY <1>6, <2>3 DEF Commanded, Accepted
  <2>4. QED
    BY <1>3, <2>1, <2>2, <2>3 DEF TakeStep, Idle, Commanded, Assembled, Accepted
<1>7. QED
  BY <1>5, <1>6

\* The packets of one session a message is put together from are those of one message sent.
LEMMA AssembledWhole ==
  ASSUME EspNowInv, Assembled, OneSend, OneMessage, NEW late \in BOOLEAN,
         NEW q \in Gathered(slots[index].frag, packet, late), NEW r \in Gathered(slots[index].frag, packet, late)
  PROVE  /\ q \in Packets /\ Known(q) /\ q.kind = "message" /\ q.seq = r.seq
         /\ q.nonce = r.nonce => q.count - q.part = r.count - r.part
<1>1. TypeInv /\ Bounds /\ OwnInv
  BY DEF EspNowInv
<1>2. /\ index \in DOMAIN slots /\ step = "handle" /\ Accepts(slots[index], packet)
      /\ packet \in Packets /\ packet.kind = "message"
  BY DEF Assembled, Accepted
<1>3. packet.from = slots[index].owner /\ Known(packet)
  BY <1>1, <1>2, AcceptedOwner
<1>4. ASSUME NEW x \in Gathered(slots[index].frag, packet, late)
      PROVE  x \in Packets /\ Known(x) /\ x.from = slots[index].owner
  <2>1. x \in slots[index].frag \/ x = packet
    BY <1>4, GatheredFrom
  <2>2. CASE x \in slots[index].frag
    <3>1. x \in Packets /\ Known(x)
      BY <1>1, <1>2, <2>2, SlotFields DEF Known, Used
    <3>2. x.from = slots[index].owner
      BY <1>1, <1>2, <2>2 DEF OwnInv
    <3>3. QED
      BY <3>1, <3>2
  <2>3. QED
    BY <1>2, <1>3, <2>1, <2>2
<1>5. \A x, y \in slots[index].frag : x.kind = "message" /\ x.seq = y.seq
  BY <1>2 DEF OneMessage
<1>6. q.kind = "message" /\ r.kind = "message" /\ q.seq = r.seq
  BY <1>2, <1>5, GatheredSame
<1>7. q.nonce = r.nonce => q.count - q.part = r.count - r.part
  BY <1>4, <1>6 DEF OneSend
<1>8. QED
  BY <1>4, <1>6, <1>7

LEMMA MessagesWholeKept ==
  ASSUME EspNowInv, TakeStep, OneSend, OneMessage, MessagesWhole
  PROVE  MessagesWhole'
<1> SUFFICES ASSUME NEW j \in DOMAIN acted', NEW q \in acted'[j].pieces, NEW r \in acted'[j].pieces,
                    q.nonce = r.nonce
             PROVE  q.seq = r.seq /\ q.count - q.part = r.count - r.part
  BY DEF MessagesWhole
<1>1. acted \in Seq(Taken)
  BY DEF EspNowInv, TypeInv
<1>2. CASE acted' = acted
  BY <1>2 DEF MessagesWhole
<1>3. ASSUME NEW pieces, Acts(pieces)
      PROVE  \/ q.seq = r.seq /\ q.count - q.part = r.count - r.part
             \/ q \in pieces /\ r \in pieces
  <2>1. IF j \in DOMAIN acted THEN acted'[j] = acted[j]
        ELSE acted'[j] = [owner |-> slots[index].owner, pieces |-> pieces]
    BY <1>1, <1>3 DEF Acts
  <2>2. QED
    BY <2>1 DEF MessagesWhole
<1>4. CASE Commanded
  BY <1>3, <1>4 DEF Commanded
<1>5. CASE Assembled
  <2>1. PICK late \in BOOLEAN : acted' = acted \/ Acts(Gathered(slots[index].frag, packet, late))
    BY <1>5 DEF Assembled
  <2>2. ASSUME q \in Gathered(slots[index].frag, packet, late), r \in Gathered(slots[index].frag, packet, late)
        PROVE  q.seq = r.seq /\ q.count - q.part = r.count - r.part
    BY <1>5, <2>1, <2>2, AssembledWhole
  <2>3. QED
    BY <1>2, <1>3, <2>1, <2>2
<1>6. QED
  BY <1>2, <1>4, <1>5 DEF TakeStep, Idle

\* A message that is put together now was sent after every stop taken before.
LEMMA AssembledAfter ==
  ASSUME EspNowInv, SessionInv, Assembled, NEW late \in BOOLEAN,
         NEW p \in Packets, Stop(p), NEW q \in Gathered(slots[index].frag, packet, late), p.nonce = q.nonce,
         \/ p.kind = "cancel"
         \/ \A r \in Gathered(slots[index].frag, packet, late) : r.nonce = q.nonce
  PROVE  q.count > p.count
<1>1. /\ TypeInv /\ OneSend /\ OneMessage /\ OneCount /\ BarsBefore /\ Numbered
      /\ Bounds /\ OwnInv
  BY DEF EspNowInv, SessionInv
<1>2. /\ index \in DOMAIN slots /\ packet.nonce = slots[index].nonce /\ packet \in Packets
      /\ packet.count > slots[index].barrier /\ packet.kind = "message"
      /\ step = "handle" /\ Accepts(slots[index], packet)
  BY DEF Assembled, Accepted, Accepts
<1>3. /\ p.count \in Nat /\ packet.count \in Nat /\ slots[index].barrier \in Nat
      /\ q \in Packets /\ q.count \in Nat /\ q.kind = "message" /\ Known(q)
  BY <1>1, <1>2, SlotFields, AssembledWhole DEF Packets
<1>4. q \in slots[index].frag \/ q = packet
  BY GatheredFrom
<1>5. packet.nonce = p.nonce => packet.count > p.count
  <2>1. packet.nonce = p.nonce => p.count <= slots[index].barrier
    BY <1>1, <1>2 DEF BarsBefore
  <2>2. QED
    BY <1>2, <1>3, <2>1
<1>6. CASE q = packet
  BY <1>5, <1>6
<1>7. CASE q \in slots[index].frag /\ p.kind = "cancel"
  BY <1>1, <1>2, <1>7 DEF BarsBefore
<1>8. CASE /\ q \in slots[index].frag
           /\ \A r \in Gathered(slots[index].frag, packet, late) : r.nonce = q.nonce
  <2>1. packet \in Gathered(slots[index].frag, packet, late)
    <3>1. \A x \in slots[index].frag : x \in Packets /\ Known(x) /\ x.kind = "message"
      BY <1>1, <1>2, SlotFields DEF Known, Used, OneMessage
    <3>2. \A x \in slots[index].frag : x.of = 2
      BY <1>1, <3>1 DEF Numbered
    <3>3. Known(packet)
      BY <1>1, <1>2, AcceptedOwner
    <3>4. packet.of = 2
      BY <1>1, <1>2, <3>3 DEF Numbered
    <3>5. QED
      BY <3>2, <3>4 DEF Gathered
  <2>2. packet.nonce = q.nonce
    BY <1>8, <2>1
  <2>3. packet.count > p.count
    BY <1>5, <2>2
  <2>4. q.count - q.part = packet.count - packet.part /\ Known(packet)
    BY <1>1, <2>1, <2>2, AssembledWhole
  <2>5. q.part \in 0 .. 1 /\ packet.part \in 0 .. 1
    BY <1>1, <1>2, <1>3, <2>4 DEF Numbered
  <2>6. p.count # q.count
    <3>1. Used(p) /\ Used(q) /\ p.kind \in Safety
      BY <1>2, <1>8 DEF Stop, Used
    <3>2. p # q
      BY <1>3, <3>1 DEF Safety
    <3>3. QED
      BY <1>1, <1>3, <3>1, <3>2 DEF OneCount
  <2>7. QED
    BY <1>3, <2>3, <2>4, <2>5, <2>6
<1>9. QED
  BY <1>4, <1>6, <1>7, <1>8

LEMMA StopsHoldKept ==
  ASSUME EspNowInv, SessionInv, TakeStep
  PROVE  StopsHold'
<1> SUFFICES ASSUME NEW i \in DOMAIN acted', NEW j \in DOMAIN acted', i < j,
                    NEW p \in acted'[i].pieces, NEW q \in acted'[j].pieces,
                    p.kind \in Safety, q.kind = "message", p.nonce = q.nonce,
                    p.kind = "cancel" \/ \A r \in acted'[j].pieces : r.nonce = q.nonce
             PROVE  q.count > p.count
  BY DEF StopsHold
<1>1. TypeInv /\ acted \in Seq(Taken) /\ StopsHold /\ OneMessage
  BY DEF EspNowInv, TypeInv, SessionInv
<1>2. CASE acted' = acted
  BY <1>1, <1>2 DEF StopsHold
<1>3. ASSUME NEW pieces, Acts(pieces)
      PROVE  \/ q.count > p.count
             \/ i \in DOMAIN acted /\ p \in acted[i].pieces /\ acted'[j].pieces = pieces
  <2>1. /\ i \in 1 .. Len(acted) + 1 /\ j \in 1 .. Len(acted) + 1 /\ i < j /\ Len(acted) \in Nat
        /\ i \in DOMAIN acted /\ acted'[i] = acted[i]
        /\ IF j \in DOMAIN acted THEN acted'[j] = acted[j]
           ELSE acted'[j] = [owner |-> slots[index].owner, pieces |-> pieces]
    BY <1>1, <1>3 DEF Acts
  <2>2. CASE j \in DOMAIN acted
    BY <1>1, <2>1, <2>2 DEF StopsHold
  <2>3. QED
    BY <2>1, <2>2
<1>4. CASE Commanded
  <2>1. q.count > p.count \/ acted'[j].pieces = {packet}
    BY <1>3, <1>4 DEF Commanded
  <2>2. packet.kind # "message"
    BY <1>4 DEF Commanded, Safety, Overrides
  <2>3. QED
    BY <2>1, <2>2
<1>5. CASE Assembled
  <2>1. PICK late \in BOOLEAN : acted' = acted \/ Acts(Gathered(slots[index].frag, packet, late))
    BY <1>5 DEF Assembled
  <2>2. ASSUME i \in DOMAIN acted, p \in acted[i].pieces,
               acted'[j].pieces = Gathered(slots[index].frag, packet, late)
        PROVE  q.count > p.count
    <3>1. p \in Packets /\ Stop(p)
      BY <1>1, <2>2, UsedType DEF Stop
    <3>2. QED
      BY <1>5, <2>1, <2>2, <3>1, AssembledAfter
  <2>3. QED
    BY <1>2, <1>3, <2>1, <2>2
<1>6. QED
  BY <1>2, <1>4, <1>5 DEF TakeStep, Idle

LEMMA SessionKept ==
  ASSUME EspNowInv, EspNowInv', SessionInv, [Next]_vars
  PROVE  SessionInv'
<1>1. TypeInv /\ Bounds
  BY DEF EspNowInv
<1>2. OneRun /\ Numbered /\ OneSend /\ OneMessage /\ OneCount /\ BarsBefore /\ MessagesWhole
  BY DEF SessionInv
<1>3. RunKnown
  BY <1>2, RunsKnown
<1>4. Step /\ TakeStep
  BY <1>1, <1>3, NextStep, NextTakes
<1>5. OneRun' /\ Numbered' /\ OneSend'
  BY <1>1, <1>2, <1>4, OneRunKept, NumberedKept, OneSendKept
<1>6. OneMessage' /\ OneCount' /\ BarsBefore'
  BY <1>1, <1>2, <1>4, OneMessageKept, OneCountKept, BarsBeforeKept
<1>7. StopsHold' /\ MessagesWhole'
  BY <1>2, <1>4, StopsHoldKept, MessagesWholeKept
<1>8. QED
  BY <1>5, <1>6, <1>7 DEF SessionInv

LEMMA SessionInitially ==
  ASSUME Init
  PROVE  SessionInv
<1>1. EspNowInv
  BY Initially DEF EspNowInv
<1>2. TypeInv /\ OnceInv
  BY <1>1 DEF EspNowInv
<1>3. /\ rxQueue = <<>> /\ step = "idle" /\ air = {} /\ acted = <<>>
      /\ answers = [p \in Pendants |-> {}]
      /\ \A p \in Pendants : pendant[p].nonce = 0
  BY DEF Init
<1>4. Flying = {}
  BY <1>3 DEF Flying, Queued
<1>5. \A i \in DOMAIN slots : slots[i].frag = {}
  <2>1. Roster \in Seq(Pendants)
    BY EspNowAssumption
  <2>2. slots = [i \in DOMAIN Roster |-> Cleared(Roster[i], i)]
    BY DEF Init
  <2>3. ASSUME NEW i \in DOMAIN slots PROVE slots[i].frag = {}
    <3>1. i \in DOMAIN Roster /\ i \in Nat /\ Roster[i] \in Pendants /\ slots[i] = Cleared(Roster[i], i)
      BY <2>1, <2>2
    <3>2. QED
      BY <3>1, ClearedType
  <2>4. QED
    BY <2>3
<1>6. \A q : ~Used(q) /\ ~Known(q)
  BY <1>3, <1>4, <1>5 DEF Used, Known
<1>7. OneRun
  <2> SUFFICES ASSUME NEW p \in Pendants, NEW n \in Nat \ {0}, NEW r \in Nat, NEW s \in Nat,
                      Tied(p, n, r), Tied(p, n, s)
               PROVE  r = s
    BY DEF OneRun
  <2>1. \E i \in DOMAIN slots : slots[i].nonce = n /\ slots[i].run = r
    BY <1>3, <1>6 DEF Tied
  <2>2. \E i \in DOMAIN slots : slots[i].nonce = n /\ slots[i].run = s
    BY <1>3, <1>6 DEF Tied
  <2>3. QED
    BY <1>2, <2>1, <2>2 DEF OnceInv
<1>8. Numbered /\ OneSend /\ OneCount
  BY <1>6 DEF Numbered, OneSend, OneCount
<1>9. OneMessage
  BY <1>5 DEF OneMessage
<1>10. BarsBefore /\ StopsHold /\ MessagesWhole
  BY <1>3 DEF BarsBefore, Stop, StopsHold, MessagesWhole
<1>11. QED
  BY <1>7, <1>8, <1>9, <1>10 DEF SessionInv

\* The counts of a session say which packets were sent before a stop, as a session is for one run of
\* its pendant and a message's packets have counts in a row.
LEMMA SessionInvariant == Spec => [](EspNowInv /\ SessionInv)
<1>1. Init => EspNowInv /\ SessionInv
  BY Initially, SessionInitially DEF EspNowInv
<1>2. EspNowInv /\ SessionInv /\ EspNowInv' /\ [Next]_vars => SessionInv'
  BY SessionKept
<1>3. QED
  BY <1>1, <1>2, EspNowInvariant, PTL DEF Spec

\* What was sent before a safety command is not taken after it (motion_barrier_counter, flushRx()).
THEOREM NothingAfterStop == Spec => []StopsHold
<1>1. SessionInv => StopsHold
  BY DEF SessionInv
<1>2. QED
  BY <1>1, SessionInvariant, PTL

\* The packets a message is put together from were sent as one message (handleData()).
THEOREM MessagesAsSent == Spec => []MessagesWhole
<1>1. SessionInv => MessagesWhole
  BY DEF SessionInv
<1>2. QED
  BY <1>1, SessionInvariant, PTL

=============================================================================
