------------------------------- MODULE XModem -------------------------------
(***************************************************************************)
(* File transfer (xmodem.cpp, and the commands of FileCommands.cpp that    *)
(* start it): xmodemTransmit() on one machine sends a file over a serial   *)
(* line to xmodemReceive() on another.  A terminal program at either end   *)
(* speaks the same protocol.  The line keeps the order of messages, may    *)
(* lose or spoil any of them, and either side may be late, so that the     *)
(* other stops waiting for an answer that is still to come.                *)
(*                                                                         *)
(* A message is a packet or a control character.  A packet of which bytes  *)
(* are missing or wrong fails its check.  What is left of one that has     *)
(* lost its first byte, the "rest", is read byte by byte as control        *)
(* characters; what these bytes are is left open.  Left out: a byte of a   *)
(* rest that begins a packet which passes its check, a control character   *)
(* that is taken for another, and faults in a rest.  Z is CTRL-Z, the      *)
(* padding of the last packet.                                             *)
(*                                                                         *)
(* A second version just above an operator is a mistake the properties are *)
(* to catch: it stands for no code.                                        *)
(***************************************************************************)
EXTENDS Integers, SequencesExt

CONSTANTS
  Files,       \* what may be sent: sequences of bytes
  Z,           \* CTRLZ
  Bytes,       \* the other bytes
  BlockSize,   \* bytes in a packet, 1024
  Spaces,      \* bytes that may be free where the file is written
  Numbers,     \* how many packet numbers there are, 256
  MaxRetrans,  \* MAXRETRANS
  SyncTries,   \* how often either side waits for the other to begin, 16
  EndTries,    \* how often the end is sent, 10
  Faults,      \* what the line does: "lose", "spoil", "late"
  MaxFaults    \* bound: how often

ASSUME XModemAssumption ==
  /\ Files \subseteq Seq(Bytes \cup {Z}) /\ Z \notin Bytes
  /\ \A f \in Files : f = <<>> \/ Last(f) # Z
  /\ {BlockSize, MaxRetrans, SyncTries, EndTries} \subseteq Nat \ {0}
  /\ Numbers \in Nat \ {0, 1}
  /\ Spaces \subseteq Nat
  /\ Faults \subseteq {"lose", "spoil", "late"} /\ MaxFaults \in Nat

VARIABLES
  file,     \* infile
  down, up, \* messages on their way to the receiver and back
  tx,       \* xmodemTransmit: where it is, packetno, file position, crc, retry and result
  rx,       \* xmodemReceive: trychar, packetno, crc, retry, retrans, held_packet and result
  out,      \* outfile
  free,     \* bytes free there
  hits,     \* history: the faults; "last" is that of the answer to the packet with the highest number
  strays    \* history: how often the receiver has answered a byte of a rest

vars == <<file, down, up, tx, rx, out, free, hits, strays>>

Control(kind) == [kind |-> kind, no |-> 0, data |-> <<>>, crc |-> FALSE, ok |-> TRUE]
\* What the file has left, up to a block of it, padded.
Packet(t) ==
  LET rest == SubSeq(file, t.pos + 1, Len(file))
      read == SubSeq(rest, 1, Min({BlockSize, Len(rest)}))
  IN [kind |-> "packet", no |-> t.no, crc |-> t.crc, ok |-> TRUE,
      data |-> [i \in 1 .. BlockSize |-> IF i <= Len(read) THEN read[i] ELSE Z]]

\* The last n bytes of a packet, if there are any.
Rest(n) == IF n = 0 THEN <<>> ELSE <<[Control("rest") EXCEPT !.no = n]>>
Size(m) ==
  CASE m.kind = "packet" -> BlockSize + (IF m.crc THEN 5 ELSE 4)
    [] m.kind = "rest" -> m.no
    [] OTHER -> 1
\* What a line brings when one byte of it has been read.
Behead(line) == IF line = <<>> THEN <<>> ELSE Rest(Size(Head(line)) - 1) \o Tail(line)

Cancel == <<"CAN", "CAN", "CAN">>
Cause(kind) ==
  IF kind \in {"late", "start", "EOT"} THEN kind ELSE IF kind = "ACK" /\ rx.no = 0 THEN "last" ELSE "other"
Hit(kind) == Len(hits) < MaxFaults /\ hits' = Append(hits, Cause(kind))
Twice(line, c) == Len(line) >= 2 /\ line[1] = c /\ line[2] = c
Listening == rx.result = "none"
Sending == tx.result = "none"

\* Nothing is on the way that either side waits for.  A wait of the sender for an answer to a
\* packet is half as long as one of the receiver; the first packet is the receiver's to ask for.
SenderWaits == up = <<>> /\ (~Listening \/ (down = <<>> /\ tx.at # "sync"))
ReceiverWaits == down = <<>> /\ (~Sending \/ (up = <<>> /\ tx.at # "sent"))
InTime(waits) == IF waits THEN UNCHANGED hits ELSE "late" \in Faults /\ Hit("late")

----------------------------------------------------------------------------
(* The sender.                                                             *)

SenderEnds(result) == tx' = [tx EXCEPT !.at = "done", !.result = result]

\* The next packet, or the end of the file.
Transmit(t) ==
  IF t.pos < Len(file)
  THEN /\ tx' = [t EXCEPT !.at = "sent", !.retry = 0]
       /\ down' = Append(down, Packet(t))
  ELSE /\ tx' = [t EXCEPT !.at = "end", !.retry = 0]
       /\ down' = Append(down, Control("EOT"))

\* Another wait for the receiver to ask.
SyncAgain ==
  IF tx.retry + 1 < SyncTries
  THEN tx' = [tx EXCEPT !.retry = @ + 1] /\ UNCHANGED down
  ELSE SenderEnds("sync") /\ down' = down \o [i \in 1 .. 3 |-> Control("CAN")]

SendAgain ==
  IF tx.retry + 1 < MaxRetrans
  THEN tx' = [tx EXCEPT !.retry = @ + 1] /\ down' = Append(down, Packet(tx))
  ELSE SenderEnds("retries") /\ down' = down \o [i \in 1 .. 3 |-> Control("CAN")]

\* The answer to the end: none is taken for a yes.
EndAgain ==
  IF tx.retry + 1 < EndTries
  THEN tx' = [tx EXCEPT !.retry = @ + 1] /\ down' = Append(down, Control("EOT"))
  ELSE SenderEnds("unanswered") /\ UNCHANGED down

TxTimeout ==
  /\ Sending /\ InTime(SenderWaits)
  /\ CASE tx.at = "sync" -> SyncAgain
       [] tx.at = "sent" -> SendAgain
       [] tx.at = "end" -> SenderEnds("ok") /\ UNCHANGED down
  /\ UNCHANGED <<file, up, rx, out, free, strays>>

\* The receiver asks, with the check it wants.
TxStart ==
  /\ tx.at = "sync" /\ up # <<>> /\ Head(up) \in {"C", "NAK"}
  /\ up' = Tail(up)
  /\ Transmit([tx EXCEPT !.crc = Head(up) = "C"])
  /\ UNCHANGED <<file, rx, out, free, hits, strays>>

AcceptedUnlessRefused(answer) == answer # "NAK"
Accepted(answer) == answer = "ACK"

TxAck ==
  /\ up # <<>> /\ Accepted(Head(up))
  /\ up' = Tail(up)
  /\ \/ tx.at = "sent" /\ Transmit([tx EXCEPT !.no = (@ + 1) % Numbers, !.pos = @ + BlockSize])
     \/ tx.at = "end" /\ SenderEnds("ok") /\ UNCHANGED down
  /\ UNCHANGED <<file, rx, out, free, hits, strays>>

\* Two CANs end it, except at the end of the file; a CAN alone is no answer, and what follows it is lost.
TxCancel ==
  /\ tx.at \in {"sync", "sent"} /\ up # <<>> /\ Head(up) = "CAN"
  /\ up' = SubSeq(up, 3, Len(up))
  /\ IF Twice(up, "CAN") THEN SenderEnds("cancelled") /\ down' = Append(down, Control("ACK"))
     ELSE IF tx.at = "sync" THEN SyncAgain ELSE SendAgain
  /\ UNCHANGED <<file, rx, out, free, hits, strays>>

\* Whatever else comes is no answer.
TxOther ==
  /\ Sending /\ up # <<>>
  /\ CASE tx.at = "sync" -> Head(up) \notin {"C", "NAK", "CAN"}
       [] tx.at = "sent" -> ~Accepted(Head(up)) /\ Head(up) # "CAN"
       [] tx.at = "end" -> ~Accepted(Head(up))
  /\ up' = Tail(up)
  /\ CASE tx.at = "sync" -> SyncAgain
       [] tx.at = "sent" -> SendAgain
       [] tx.at = "end" -> EndAgain
  /\ UNCHANGED <<file, rx, out, free, hits, strays>>

----------------------------------------------------------------------------
(* The receiver.                                                           *)

\* The last packet's padding goes, and no other's.
Trimmed(held) ==
  LET n == Max({0} \cup {i \in DOMAIN held : held[i] # Z}) IN SubSeq(held, 1, n)

ReceiverEnds(r, result, answer) ==
  rx' = [r EXCEPT !.result = result] /\ up' = up \o answer

\* flushinput() reads on until nothing comes, or to a byte that is 0, in the middle of a packet maybe.
FlushInput(line) ==
  \E n \in 0 .. Len(line) :
    \E left \in 0 .. (IF n = 0 THEN 0 ELSE Size(line[n]) - 1) :
      down' = Rest(left) \o SubSeq(line, n + 1, Len(line))
\* What the receiver does not read any more is no concern of the transfer.
FlushAll == down' = <<>>

\* What is asked for again is what trychar says; asked too often with C, it asks for a checksum.
AskAgain ==
  IF rx.retry + 1 < SyncTries
  THEN rx' = [rx EXCEPT !.retry = @ + 1] /\ up' = up \o rx.try
  ELSE IF rx.try = <<"C">>
  THEN rx' = [rx EXCEPT !.retry = 0, !.try = <<"NAK">>] /\ up' = Append(up, "NAK")
  ELSE ReceiverEnds(rx, "sync", Cancel)

RxTimeout ==
  /\ Listening /\ InTime(ReceiverWaits)
  /\ AskAgain
  /\ UNCHANGED <<file, down, tx, out, free, strays>>

Incoming(kinds) == Listening /\ down # <<>> /\ Head(down).kind \in kinds
Counted == strays' = IF Head(down).kind = "rest" THEN strays + (Len(up') - Len(up)) ELSE strays

\* A CAN alone is ignored, and the character after it with it.
RxCancel ==
  /\ Incoming({"CAN", "rest"})
  /\ LET next == Behead(down)
     IN \/ /\ next # <<>> /\ Head(next).kind \in {"CAN", "rest"}
           /\ ReceiverEnds(rx, "cancelled", <<"ACK">>) /\ FlushAll
        \/ /\ ~(next # <<>> /\ Head(next).kind = "CAN")
           /\ AskAgain /\ down' = Behead(next)
  /\ Counted
  /\ UNCHANGED <<file, tx, out, free, hits>>

RxOther ==
  /\ Incoming({"noise", "ACK", "rest"})
  /\ down' = Behead(down) /\ AskAgain
  /\ Counted
  /\ UNCHANGED <<file, tx, out, free, hits>>

\* What is held is written if there is room; or the file is given up.
Writes(bytes) == Len(bytes) <= free /\ out' = out \o bytes /\ free' = free - Len(bytes)

RxEnd ==
  /\ Incoming({"EOT", "rest"})
  /\ LET bytes == Trimmed(rx.held)
         room == rx.held = <<>> \/ Len(bytes) <= free
     IN IF room
        THEN Writes(bytes) /\ ReceiverEnds([rx EXCEPT !.held = <<>>], "ok", <<"ACK">>)
        ELSE UNCHANGED <<out, free>> /\ ReceiverEnds(rx, "space", Cancel)
  /\ FlushAll /\ Counted
  /\ UNCHANGED <<file, tx, hits>>

\* The check that is made is that of the first packet's time, and it is not what the sender makes
\* if the two have not understood each other.
Started == [rx EXCEPT !.crc = @ \/ rx.try = <<"C">>, !.try = <<>>, !.retry = 0]
Good(p) == p.ok /\ p.crc = Started.crc

IsNewOrLast(p) == p.no \in {rx.no, rx.no - 1}
IsNew(p) == p.no = rx.no
IsLastAhead(p) == p.no = rx.no + 1
\* The number before 0 is -1, which no packet has.
IsLast(p) == p.no = rx.no - 1

Written(held) == held

\* A packet is held until the next one has come.
RxNew ==
  /\ Incoming({"packet"}) /\ Good(Head(down)) /\ IsNew(Head(down))
  /\ IF Len(Written(rx.held)) <= free
     THEN /\ Writes(Written(rx.held))
          /\ rx' = [Started EXCEPT !.held = Head(down).data, !.no = (@ + 1) % Numbers, !.retrans = MaxRetrans]
          /\ up' = Append(up, "ACK") /\ down' = Tail(down)
     ELSE UNCHANGED <<out, free>> /\ ReceiverEnds(Started, "space", Cancel) /\ FlushAll
  /\ UNCHANGED <<file, tx, hits, strays>>

\* The last one again: its answer was lost.
RxLast ==
  /\ Incoming({"packet"}) /\ Good(Head(down)) /\ IsLast(Head(down)) /\ ~IsNew(Head(down))
  /\ IF rx.retrans > 1
     THEN /\ rx' = [Started EXCEPT !.retrans = @ - 1]
          /\ up' = Append(up, "ACK") /\ down' = Tail(down)
     ELSE ReceiverEnds([Started EXCEPT !.retrans = 0], "retries", Cancel) /\ FlushAll
  /\ UNCHANGED <<file, tx, out, free, hits, strays>>

\* A byte of a rest may be a SOH or a STX, too.
RxReject ==
  /\ \/ /\ Incoming({"packet"})
        /\ ~(Good(Head(down)) /\ (IsNew(Head(down)) \/ IsLast(Head(down))))
        /\ FlushInput(Tail(down))
     \/ Incoming({"rest"}) /\ FlushInput(Behead(down))
  /\ rx' = Started /\ up' = Append(up, "NAK")
  /\ Counted
  /\ UNCHANGED <<file, tx, out, free, hits>>

\* xmodem_receive(): a file that was not received is removed.
Kept == IF rx.result = "ok" THEN <<out>> ELSE <<>>

----------------------------------------------------------------------------
(* The line.                                                               *)

\* A message is lost, or the first byte of a packet is.
Lose ==
  /\ "lose" \in Faults
  /\ \/ /\ down # <<>> /\ Head(down).kind # "rest" /\ UNCHANGED up
        /\ \/ down' = Tail(down) /\ Hit(Head(down).kind)
           \/ Head(down).kind = "packet" /\ down' = Behead(down) /\ Hit("start")
     \/ up # <<>> /\ up' = Tail(up) /\ Hit(Head(up)) /\ UNCHANGED down
  /\ UNCHANGED <<file, tx, rx, out, free, strays>>

\* A packet of which the first byte is wrong is all read as control characters.
Spoil ==
  /\ "spoil" \in Faults
  /\ \/ /\ down # <<>> /\ Head(down).kind # "rest" /\ UNCHANGED up
        /\ IF Head(down).kind # "packet"
           THEN down' = <<Control("noise")>> \o Tail(down) /\ Hit(Head(down).kind)
           ELSE \/ down' = [down EXCEPT ![1].ok = FALSE] /\ Hit("packet")
                \/ down' = Rest(Size(Head(down))) \o Tail(down) /\ Hit("start")
     \/ up # <<>> /\ up' = [up EXCEPT ![1] = "noise"] /\ Hit(Head(up)) /\ UNCHANGED down
  /\ UNCHANGED <<file, tx, rx, out, free, strays>>

----------------------------------------------------------------------------
Init ==
  /\ file \in Files
  /\ down = <<>> /\ up = <<"C">>
  /\ tx = [at |-> "sync", no |-> 1, pos |-> 0, crc |-> FALSE, retry |-> 0, result |-> "none"]
  /\ rx = [try |-> <<"C">>, no |-> 1, crc |-> FALSE, retry |-> 0, retrans |-> MaxRetrans,
           held |-> <<>>, result |-> "none"]
  /\ out = <<>> /\ free \in Spaces
  /\ hits = <<>> /\ strays = 0

Transmitter == TxTimeout \/ TxStart \/ TxAck \/ TxCancel \/ TxOther
Receiver == RxTimeout \/ RxCancel \/ RxOther \/ RxEnd \/ RxNew \/ RxLast \/ RxReject

Next == Transmitter \/ Receiver \/ Lose \/ Spoil

Spec == Init /\ [][Next]_vars
FairSpec == Spec /\ WF_vars(Transmitter) /\ WF_vars(Receiver)

----------------------------------------------------------------------------
(* Properties.                                                             *)

Were(kind) == \E i \in DOMAIN hits : hits[i] = kind

\* The answers that no packet waits for any more: those that came too late, at most, and those to
\* single bytes.
Extra == (IF Were("late") THEN Len(hits) ELSE 0) + strays

\* Whatever is lost, spoilt, repeated or late, no block is written twice, left out or in another's
\* place, and no byte of it but the padding of the last is dropped (xmodemReceive, write_packet):
\* as long as there are more numbers than answers that no packet waits for.
InOrder == Extra + 1 < Numbers => IsPrefix(out \o Trimmed(rx.held), file)

\* A file that is kept is whole ("Don't leave a truncated, incomplete file behind",
\* FileCommands.cpp:629), unless an answer came too late or was one to a byte of a packet that has
\* lost its start.  An answer of that kind is taken for that of the next packet, and the file may
\* end with it missing; or the byte is taken for the end: see README.
KeptWhole == Extra = 0 => Kept \in {<<>>, <<file>>}

\* Late answers alone do no harm: the sender is ahead of the answers then, but it takes a packet that
\* is lost or spoilt, too, for a file to be kept without it.  Nor does what flushinput() leaves,
\* unless that is a part of a packet, of which a byte is taken for the end.
LateLosesNothing ==
  strays = 0 /\ (\A i \in DOMAIN hits : hits[i] = "late") => Kept \in {<<>>, <<file>>}

\* A transfer outlasts as many faults as there are repetitions, and both sides know that it has;
\* in any case both come to their end.  It does not outlast that a packet loses its first byte, nor
\* a lost end of file, nor a lost answer to the packet with the highest number: see README.
Outlasts ==
  \/ Were("late") \/ Were("start") \/ Were("EOT") \/ Were("last")
  \/ Len(out) + free < Len(file)
  \/ Kept = <<file>> /\ tx.result = "ok"
Recovers == <>(~Sending /\ ~Listening /\ Outlasts)
=============================================================================
