------------------------------- MODULE EspNow -------------------------------
(***************************************************************************)
(* The ESP-NOW channel (esp32/ESPNow/ESPNowChannel.cpp): pendants send     *)
(* commands and jog messages over a radio that loses, repeats and reorders *)
(* packets.  The Wi-Fi task queues what arrives; the polling task takes    *)
(* packets from the queue and bytes from the receive ring; the protocol    *)
(* task flushes the ring after a reset and changes the roster.             *)
(*                                                                         *)
(* A pendant is external: it says hello until it has the nonce of its slot *)
(* here, tags each packet with that nonce and the next count, and numbers  *)
(* its messages from 0.  A nonce is a number never given before.  Timeouts *)
(* may happen whenever what they time allows.  Left out: pairing before it *)
(* is activated, and what the channel sends beside its answers to hellos   *)
(* and keepalives.  Messages are jogs of two packets, and the ring holds   *)
(* messages, not bytes.  A hold stands for every safety command that does  *)
(* not flush, a start for every command that claims control.               *)
(*                                                                         *)
(* Where an operator has a second version just above it, that version is a *)
(* mistake the properties are to catch: it stands for no code.             *)
(***************************************************************************)
EXTENDS Integers, SequencesExt

CONSTANTS
  Pendants,
  Roster,          \* the pendants paired at start-up, a sequence
  MaxPairings,     \* MAX_SERVER_PAIRINGS
  QueueDepth,      \* RX_PACKET_QUEUE_DEPTH
  RingSize,        \* RX_BUF_SIZE, in messages
  Window,          \* width of the bitmap of counts, 64
  UnderflowLimit,  \* kReplayUnderflowLimit
  Sent,            \* what a pendant sends beside hellos: "keepalive", "message" and commands
  MaxSends,        \* bound, by pendant: hellos, keepalives, messages and commands sent
  Disturbances,    \* what happens beside: "repeat", "restart", "timeout", "roster", "flush"
  MaxDisturbances  \* bound: how often

ASSUME EspNowAssumption ==
  /\ Roster \in Seq(Pendants) /\ IsInjective(Roster) /\ Len(Roster) <= MaxPairings
  /\ {MaxPairings, QueueDepth, Window, UnderflowLimit} \subseteq Nat \ {0}
  /\ RingSize \in Nat \ {0, 1}
  /\ Sent \in [Pendants -> SUBSET {"keepalive", "message", "hold", "cancel", "start"}]
  /\ MaxSends \in [Pendants -> Nat]
  /\ Disturbances \subseteq {"repeat", "restart", "timeout", "roster", "flush"}
  /\ MaxDisturbances \in Nat

VARIABLES
  slots,     \* _paired_peers, up to _paired_count
  active,    \* _active_peer_index, 0 if none
  fresh,     \* nonces given so far
  rxQueue,   \* _packet_queue
  step,      \* the polling task: "idle", a packet to "handle", or in a "read"
  index, packet, \* the packet being handled and the slot found for it
  loaded,    \* the tail a read has loaded
  head, tail,\* _rx_head and _rx_tail, counted without their wrap
  flushing,  \* the protocol task's flush: "no", its head "loaded", the "frags" left to free
  flushHead, \* the head it has loaded
  pendant,   \* the pendants' own state
  air,       \* packets sent to the channel and not yet delivered: [kind, from, run, nonce, count,
             \* seq, part, of]
  answers,   \* nonces sent to each pendant
  acted,     \* history: the packets each command or message taken was made of, and their slot's owner
  sends, disturbed \* counts of packets sent and of disturbances

roster == <<slots, active, fresh>>
poller == <<step, index, packet, loaded>>
ring == <<head, tail>>
flush == <<flushing, flushHead>>
radio == <<pendant, air, answers>>
counts == <<sends, disturbed>>
vars == <<roster, rxQueue, poller, ring, flush, radio, acted, counts>>

Safety == {"hold", "cancel"}
Overrides == {"start"}

NoReplay == [nonce |-> 0, top |-> 0, seen |-> {}, underflow |-> 0]

\* A slot that has forgotten its session and has a nonce of its own.
Cleared(owner, nonce) ==
  [owner |-> owner, nonce |-> nonce, run |-> 0, connected |-> FALSE, echo |-> FALSE,
   replay |-> NoReplay, barrier |-> 0, frag |-> {}]

NoPacket == [kind |-> "none", from |-> "", run |-> 0, nonce |-> 0, count |-> 0, seq |-> 0, part |-> 0, of |-> 0]
Disturbs(kind) == kind \in Disturbances /\ disturbed < MaxDisturbances /\ disturbed' = disturbed + 1
Done == step' = "idle" /\ index' = 0 /\ packet' = NoPacket /\ loaded' = 0
Buffered == (head - tail) % RingSize
Room == RingSize - 1 - Buffered

\* findPairedPeerIndexLocked(): no pendant is in two slots.
IsPaired(p) == \E i \in DOMAIN slots : slots[i].owner = p
SlotOf(p) == CHOOSE i \in DOMAIN slots : slots[i].owner = p

----------------------------------------------------------------------------
(* Which packets are new.                                                  *)

\* The counts of the session, forgotten when the slot's nonce has changed.
Synced(s) == IF s.replay.nonce = s.nonce THEN s.replay ELSE [NoReplay EXCEPT !.nonce = s.nonce]

AcceptsTop(s, p) ==
  /\ p.nonce = s.nonce
  /\ \/ p.count >= Synced(s).top
     \/ Synced(s).top - p.count < Window /\ p.count \notin Synced(s).seen
Accepts(s, p) ==
  /\ p.nonce = s.nonce
  /\ \/ p.count > Synced(s).top
     \/ Synced(s).top - p.count < Window /\ p.count \notin Synced(s).seen

TooOld(s, p) == p.nonce = s.nonce /\ Synced(s).top - p.count >= Window

Noted(s, p) ==
  LET r == Synced(s)
      top == IF p.count > r.top THEN p.count ELSE r.top
  IN [s EXCEPT !.replay = [r EXCEPT !.top = top,
                                    !.seen = {c \in @ \cup {p.count} : top - c < Window},
                                    !.underflow = IF p.count > r.top THEN 0 ELSE @]]

\* Enough packets too old for the window, at most once in a while, earn the slot a new nonce.
Rejects(i, p) ==
  LET s == slots[i]
      n == Synced(s).underflow + 1
      Counted(k) == [s EXCEPT !.replay = [Synced(s) EXCEPT !.underflow = k]]
  IN IF ~TooOld(s, p)
     THEN slots' = [slots EXCEPT ![i] = Counted(n - 1)] /\ UNCHANGED fresh
     ELSE IF n < UnderflowLimit
     THEN slots' = [slots EXCEPT ![i] = Counted(n)] /\ UNCHANGED fresh
     ELSE \/ slots' = [slots EXCEPT ![i] = Counted(0)] /\ UNCHANGED fresh
          \/ /\ slots' = [slots EXCEPT ![i] = [Counted(0) EXCEPT !.nonce = fresh + 1]]
             /\ fresh' = fresh + 1

----------------------------------------------------------------------------
(* The Wi-Fi task.                                                         *)

\* Safety commands go to the front, and push a packet out if they must.
Received(p) ==
  IF slots = <<>> THEN rxQueue
  ELSE IF p.kind \in Safety THEN <<p>> \o (IF Len(rxQueue) = QueueDepth THEN Tail(rxQueue) ELSE rxQueue)
  ELSE IF Len(rxQueue) = QueueDepth THEN rxQueue
  ELSE Append(rxQueue, p)

OnRecv(p) ==
  /\ rxQueue' = Received(p)
  /\ \/ air' = air \ {p} /\ UNCHANGED disturbed
     \/ Disturbs("repeat") /\ UNCHANGED air
  /\ UNCHANGED <<roster, poller, ring, flush, pendant, answers, acted, sends>>

----------------------------------------------------------------------------
(* The polling task: packets.                                              *)

\* The slot is looked up, and the lock let go before the packet is handled.
ProcessPacket ==
  /\ step = "idle" /\ rxQueue # <<>>
  /\ rxQueue' = Tail(rxQueue)
  /\ IF IsPaired(Head(rxQueue).from)
     THEN /\ step' = "handle" /\ packet' = Head(rxQueue)
          /\ index' = SlotOf(Head(rxQueue).from)
          /\ UNCHANGED loaded
     ELSE UNCHANGED poller
  /\ UNCHANGED <<roster, ring, flush, radio, acted, counts>>

Handles(kinds) == step = "handle" /\ packet.kind \in kinds
Paired == index \in DOMAIN slots

HandleRemoved ==
  /\ step = "handle" /\ ~Paired /\ Done
  /\ UNCHANGED <<roster, rxQueue, ring, flush, radio, acted, counts>>

\* An untagged keepalive of another run of its sender starts a session.
HandleHello ==
  /\ Handles({"hello"}) /\ Paired /\ Done
  /\ LET s == slots[index] IN
     IF s.run = packet.run
     THEN slots' = [slots EXCEPT ![index].echo = TRUE] /\ UNCHANGED fresh
     ELSE /\ fresh' = fresh + 1
          /\ slots' = [slots EXCEPT ![index] =
               [Cleared(s.owner, fresh + 1) EXCEPT !.run = packet.run, !.echo = TRUE, !.frag = s.frag]]
  /\ UNCHANGED <<active, rxQueue, ring, flush, radio, acted, counts>>

HandleKeepalive ==
  /\ Handles({"keepalive"}) /\ Paired /\ Done
  /\ IF Accepts(slots[index], packet)
     THEN /\ slots' = [slots EXCEPT ![index] =
                         [Noted(@, packet) EXCEPT !.run = packet.run, !.connected = TRUE, !.echo = TRUE]]
          /\ UNCHANGED fresh
     ELSE Rejects(index, packet)
  /\ UNCHANGED <<active, rxQueue, ring, flush, radio, acted, counts>>

GatheredAll(frag, p, late) ==
  IF late THEN {p} ELSE {q \in frag : q.part # p.part} \cup {p}
\* A packet of another message, or one that comes too late, starts afresh.
Gathered(frag, p, late) ==
  IF late \/ \E q \in frag : q.seq # p.seq THEN {p}
  ELSE IF \E q \in frag : q.of # p.of THEN frag
  ELSE {q \in frag : q.part # p.part} \cup {p}

Complete(frag) == \E q \in frag : {r.part : r \in frag} = 0 .. q.of - 1

Act(owner, pieces) == acted' = Append(acted, [owner |-> owner, pieces |-> pieces])

\* The last packet of a message brings it to the ring, whole or not at all.
HandleData ==
  /\ Handles({"message"}) /\ Paired /\ Done
  /\ LET s == slots[index]
         noted == Noted(s, packet)
     IN IF ~Accepts(s, packet) THEN Rejects(index, packet) /\ UNCHANGED <<active, head, acted>>
        ELSE IF packet.count <= s.barrier
        THEN slots' = [slots EXCEPT ![index] = noted] /\ UNCHANGED <<active, fresh, head, acted>>
        ELSE \E late \in BOOLEAN :
          LET frag == Gathered(s.frag, packet, late) IN
             /\ slots' = [slots EXCEPT ![index] =
                            [noted EXCEPT !.connected = TRUE, !.frag = IF Complete(frag) THEN {} ELSE frag]]
             /\ active' = IF Complete(frag) THEN index ELSE active
             /\ IF Complete(frag) /\ Room > 0 THEN Act(s.owner, frag) /\ head' = head + 1
                ELSE UNCHANGED <<acted, head>>
             /\ UNCHANGED fresh
  /\ UNCHANGED <<rxQueue, tail, flush, radio, counts>>

BarrierOfHold(s, p) == IF p.kind = "hold" /\ p.count > s.barrier THEN p.count ELSE s.barrier
\* Messages sent before a safety command are dropped from now on.
Barrier(s, p) == IF p.kind \in Safety /\ p.count > s.barrier THEN p.count ELSE s.barrier

\* The lease of another pendant that is connected stands, unless it has been idle for long.
MayClaim == active \in {0, index} \/ ~slots[active].connected

WithoutFrags(all) == [i \in DOMAIN all |-> [all[i] EXCEPT !.frag = {}]]

HandleRealtime ==
  /\ Handles(Safety \cup Overrides) /\ Paired /\ Done
  /\ LET s == slots[index]
         noted == [Noted(s, packet) EXCEPT !.barrier = Barrier(s, packet)]
         taken == [slots EXCEPT ![index] = [noted EXCEPT !.connected = TRUE]]
     IN \/ /\ ~Accepts(s, packet)
           /\ Rejects(index, packet) /\ UNCHANGED <<active, tail, acted>>
        \/ /\ Accepts(s, packet) /\ packet.kind \in Overrides /\ ~MayClaim
           /\ slots' = [slots EXCEPT ![index] = noted] /\ UNCHANGED <<active, fresh, tail, acted>>
        \/ /\ Accepts(s, packet)
           /\ slots' = IF packet.kind = "cancel" THEN WithoutFrags(taken) ELSE taken
           /\ tail' = IF packet.kind = "cancel" THEN head ELSE tail
           /\ active' = IF packet.kind \in Overrides THEN index ELSE active
           /\ Act(s.owner, {packet})
           /\ UNCHANGED fresh
  /\ UNCHANGED <<rxQueue, head, flush, radio, counts>>

\* A slot not heard of for long loses its session.
TimeOut(i) ==
  /\ step = "idle" /\ slots[i].connected
  /\ Disturbs("timeout")
  /\ slots' = [slots EXCEPT ![i] = Cleared(@.owner, fresh + 1)]
  /\ fresh' = fresh + 1
  /\ active' = IF active = i THEN 0 ELSE active
  /\ UNCHANGED <<rxQueue, poller, ring, flush, radio, acted, sends>>

\* An answer is tagged with its pendant's run, and is lost on any other.
Echo(i) ==
  /\ step = "idle" /\ slots[i].echo
  /\ slots' = [slots EXCEPT ![i].echo = FALSE]
  /\ answers' = IF slots[i].run = pendant[slots[i].owner].run
                THEN [answers EXCEPT ![slots[i].owner] = @ \cup {slots[i].nonce}] ELSE answers
  /\ UNCHANGED <<active, fresh, rxQueue, poller, ring, flush, pendant, air, acted, counts>>

----------------------------------------------------------------------------
(* The polling task reads a line.                                          *)

ReadLoad ==
  /\ step = "idle" /\ Buffered # 0
  /\ step' = "read" /\ loaded' = tail
  /\ UNCHANGED <<index, packet, roster, rxQueue, ring, flush, radio, acted, counts>>

ReadStore ==
  /\ step = "read" /\ Done
  /\ tail' = loaded + 1
  /\ UNCHANGED <<roster, rxQueue, head, flush, radio, acted, counts>>

----------------------------------------------------------------------------
(* The protocol task: a flush, and the roster.                             *)

FlushLoad ==
  /\ flushing = "no" /\ Disturbs("flush")
  /\ flushing' = "loaded" /\ flushHead' = head
  /\ UNCHANGED <<roster, rxQueue, poller, ring, radio, acted, sends>>

FlushStore ==
  /\ flushing = "loaded" /\ flushing' = "frags"
  /\ tail' = flushHead
  /\ UNCHANGED <<flushHead, roster, rxQueue, poller, head, radio, acted, counts>>

FlushFrags ==
  /\ flushing = "frags"
  /\ flushing' = "no" /\ flushHead' = 0
  /\ slots' = WithoutFrags(slots)
  /\ UNCHANGED <<active, fresh, rxQueue, poller, ring, radio, acted, counts>>

\* The index is that of the same slot or the first, whoever is in it now.
ActiveAfter(i, last) == IF active = i \/ active > last THEN (IF last > 0 THEN 1 ELSE 0) ELSE active

ShiftedAsIs(i, j) == IF j < i THEN slots[j] ELSE [slots[j] EXCEPT !.owner = slots[j + 1].owner]
\* The pendants behind the one that goes move up, into slots with nonces of their own.
Shifted(i, j) == IF j < i THEN slots[j] ELSE Cleared(slots[j + 1].owner, fresh + j)

RemoveRuntimePeer(i) ==
  /\ flushing = "no"
  /\ Disturbs("roster")
  /\ slots' = [j \in 1 .. Len(slots) - 1 |-> Shifted(i, j)]
  /\ fresh' = fresh + Len(slots)
  /\ active' = ActiveAfter(i, Len(slots) - 1)
  /\ UNCHANGED <<rxQueue, poller, ring, flush, radio, acted, sends>>

\* The end of a pairing, which the polling task comes to.
ActivatePairing(p) ==
  /\ step = "idle"
  /\ Disturbs("roster")
  /\ IF IsPaired(p)
     THEN /\ slots' = [slots EXCEPT ![SlotOf(p)] = Cleared(p, fresh + 1)]
          /\ active' = IF active = 0 THEN SlotOf(p) ELSE active
     ELSE /\ Len(slots) < MaxPairings
          /\ slots' = Append(slots, Cleared(p, fresh + 1))
          /\ active' = IF active = 0 THEN Len(slots) + 1 ELSE active
  /\ fresh' = fresh + 1
  /\ UNCHANGED <<rxQueue, poller, ring, flush, radio, acted, sends>>

----------------------------------------------------------------------------
(* The pendants.                                                           *)

Sends(p) == sends[p] < MaxSends[p] /\ sends' = [sends EXCEPT ![p] = @ + 1]
Packet(p, kind, n, seq, part, of) ==
  [kind |-> kind, from |-> p, run |-> pendant[p].run, nonce |-> pendant[p].nonce, count |-> n,
   seq |-> seq, part |-> part, of |-> of]
Radios == UNCHANGED <<roster, rxQueue, poller, ring, flush, acted>>

SendHello(p) ==
  /\ pendant[p].nonce = 0 /\ Sends(p)
  /\ air' = air \cup {Packet(p, "hello", 0, 0, 0, 0)}
  /\ Radios /\ UNCHANGED <<pendant, answers, disturbed>>

SendOne(p, kind) ==
  /\ pendant[p].nonce # 0 /\ Sends(p)
  /\ LET n == pendant[p].count + 1 IN
     /\ air' = air \cup {Packet(p, kind, n, 0, 0, 0)}
     /\ pendant' = [pendant EXCEPT ![p].count = n]
  /\ Radios /\ UNCHANGED <<answers, disturbed>>

SendMessage(p) ==
  /\ pendant[p].nonce # 0 /\ Sends(p)
  /\ LET n == pendant[p].count
         seq == pendant[p].seq
     IN /\ air' = air \cup {Packet(p, "message", n + 1 + k, seq, k, 2) : k \in 0 .. 1}
        /\ pendant' = [pendant EXCEPT ![p].count = n + 2, ![p].seq = seq + 1]
  /\ Radios /\ UNCHANGED <<answers, disturbed>>

\* A nonce it did not have starts the counts anew.
Learn(p, nonce) ==
  /\ answers' = [answers EXCEPT ![p] = @ \ {nonce}]
  /\ pendant' = IF nonce = pendant[p].nonce THEN pendant
                ELSE [pendant EXCEPT ![p].nonce = nonce, ![p].count = 0]
  /\ Radios /\ UNCHANGED <<air, counts>>

Restart(p) ==
  /\ Disturbs("restart")
  /\ pendant' = [pendant EXCEPT ![p] = [run |-> @.run + 1, nonce |-> 0, count |-> 0, seq |-> 0]]
  /\ answers' = [answers EXCEPT ![p] = {}]
  /\ Radios /\ UNCHANGED <<air, sends>>

----------------------------------------------------------------------------
Init ==
  /\ slots = [i \in DOMAIN Roster |-> Cleared(Roster[i], i)] /\ fresh = Len(Roster)
  /\ active = 0
  /\ rxQueue = <<>>
  /\ step = "idle" /\ index = 0 /\ packet = NoPacket /\ loaded = 0
  /\ head = 0 /\ tail = 0
  /\ flushing = "no" /\ flushHead = 0
  /\ pendant = [p \in Pendants |-> [run |-> 1, nonce |-> 0, count |-> 0, seq |-> 0]]
  /\ air = {} /\ answers = [p \in Pendants |-> {}]
  /\ acted = <<>>
  /\ sends = [p \in Pendants |-> 0]
  /\ disturbed = 0

Polling ==
  \/ ProcessPacket \/ HandleRemoved \/ HandleHello \/ HandleKeepalive \/ HandleData \/ HandleRealtime
  \/ ReadLoad \/ ReadStore
  \/ \E i \in DOMAIN slots : TimeOut(i) \/ Echo(i)
  \/ \E p \in Pendants : ActivatePairing(p)

ProtocolTask == FlushLoad \/ FlushStore \/ FlushFrags \/ \E i \in DOMAIN slots : RemoveRuntimePeer(i)

Pendant(p) ==
  \/ SendHello(p) \/ Restart(p)
  \/ \E kind \in Sent[p] : IF kind = "message" THEN SendMessage(p) ELSE SendOne(p, kind)
  \/ \E nonce \in answers[p] : Learn(p, nonce)

Next ==
  \/ Polling
  \/ ProtocolTask
  \/ \E p \in air : OnRecv(p)
  \/ \E p \in Pendants : Pendant(p)

Spec == Init /\ [][Next]_vars

----------------------------------------------------------------------------
(* Properties.                                                             *)

\* Nothing is done twice: no packet is part of two commands or messages taken, whatever the radio
\* repeats and reorders and whichever sessions come and go (ESPNowCrypto.cpp:214-266).
AtMostOnce ==
  \A i, j \in DOMAIN acted : i # j => acted[i].pieces \cap acted[j].pieces = {}

\* A message that is sent before a stop and has not been taken into the ring when the stop is taken is
\* never taken: a safety command overtakes messages in the queue, fragments in the slot and messages on
\* the air (handleData, handleRealtime).  What is in the ring by then is not spoken of: a hold leaves it
\* there, to be read and run after it, and only a cancel flushes it.  A hold keeps the packets gathered,
\* too, so that a message of packets of two sessions is excepted: see README.
StopsHold ==
  \A i, j \in DOMAIN acted : i < j =>
    \A p \in acted[i].pieces, q \in acted[j].pieces :
      /\ p.kind \in Safety /\ q.kind = "message" /\ p.nonce = q.nonce
      /\ p.kind = "cancel" \/ \A r \in acted[j].pieces : r.nonce = q.nonce
      => q.count > p.count

\* What is taken from a slot was sent by the pendant that is paired in it, although the roster may
\* change between the search for the slot and the handling of the packet (processPacket).
TakenFromOwner == \A i \in DOMAIN acted : \A p \in acted[i].pieces : p.from = acted[i].owner

\* A message is put together from the packets of one message sent, if they are of one session.  Packets
\* of two sessions may be mixed: see README (handleData).
MessagesWhole ==
  \A i \in DOMAIN acted : \A p, q \in acted[i].pieces :
    p.nonce = q.nonce => p.seq = q.seq /\ p.count - p.part = q.count - q.part

=============================================================================
