---------------------------- MODULE XModemProofs ----------------------------
(***************************************************************************)
(* What a transfer writes is the file's beginning, however often messages  *)
(* are lost, spoilt or repeated, and a file that is kept is whole: for     *)
(* every file, size of packets, bound on the repetitions and number of     *)
(* faults, and for as many answers that no packet waits for as the packets'*)
(* numbers can tell apart; a file that is kept, if there are none.         *)
(*                                                                         *)
(* The argument: sender and receiver each stand at a block of the file, the*)
(* packets between them are blocks in order, and there is one message on   *)
(* the way, with another for each answer that came too late or was one to  *)
(* a byte of a packet without its start.  So the blocks that a packet may  *)
(* hold are fewer than the numbers, and a number that fits is that of the  *)
(* block that fits.                                                        *)
(***************************************************************************)
EXTENDS XModem, SequenceTheorems, FiniteSetTheorems, WellFoundedInduction, TLAPS

-----------------------------------------------------------------------------
(* The invariant.                                                           *)

(* The j-th block of the file, counting from 0: where it starts, the number  *)
(* of its packet, and its bytes.                                             *)
Start(j) == j * BlockSize
Number(j) == (j + 1) % Numbers
Block(j) == [i \in 1..BlockSize |-> IF Start(j) + i <= Len(file) THEN file[Start(j) + i] ELSE Z]

Characters == Bytes \cup {Z}
Kinds == {"packet", "EOT", "CAN", "ACK", "noise", "rest"}
Answers == {"C", "NAK", "ACK", "CAN", "noise"}
Causes == {"late", "start", "EOT", "last", "other"}
Results == {"none", "ok", "sync", "retries", "unanswered", "cancelled", "space"}
Message == [kind : Kinds, no : Int, data : Seq(Characters), crc : BOOLEAN, ok : BOOLEAN]

Tx == [at : {"sync", "sent", "end", "done"}, no : Nat, pos : Nat, crc : BOOLEAN,
       retry : Nat, result : Results]
Rx == [try : {<<>>, <<"C">>, <<"NAK">>}, no : Nat, crc : BOOLEAN, retry : Nat,
       retrans : Int, held : Seq(Characters), result : Results]

Types ==
    /\ file \in Files
    /\ down \in Seq(Message)
    /\ up \in Seq(Answers)
    /\ tx \in Tx
    /\ Sending <=> tx.at # "done"
    /\ rx \in Rx
    /\ out \in Seq(Characters) /\ free \in Int
    /\ hits \in Seq(Causes) /\ Len(hits) <= MaxFaults
    /\ strays \in Nat

(* The sender sends the s-th block, or has found it beyond the end.          *)
SenderAt(s) ==
    /\ s \in Nat
    /\ tx.pos = Start(s) /\ tx.no = Number(s)
    /\ tx.at = "sync" => s = 0
    /\ tx.at = "sent" => Start(s) < Len(file)
    /\ tx.at = "end" => Len(file) <= Start(s)

(* The receiver has the first k blocks: it holds the last of them, and has   *)
(* written the others.                                                       *)
ReceiverAt(k) ==
    /\ k \in Nat
    /\ rx.no = Number(k)
    /\ k = 0 => out = <<>> /\ rx.held = <<>>
    /\ k # 0 => /\ Start(k - 1) < Len(file)
                /\ out = SubSeq(file, 1, Start(k - 1))
                /\ rx.held = Block(k - 1)

(* The receiver is a block ahead, or level; or the sender is ahead, by no    *)
(* more than there are answers that no packet waits for.                     *)
Apart(s, k) == k <= s + 1 /\ s <= k + Extra

(* A packet on its way is a block, J[i] the i-th; they keep the order in     *)
(* which they were sent, and the receiver has none that comes after the      *)
(* first.                                                                    *)
Packets(s, k, J) ==
    /\ J \in [1..Len(down) -> Nat]
    /\ \A i \in 1..Len(down) : down[i].kind = "packet" =>
         /\ down[i].no = Number(J[i]) /\ down[i].data = Block(J[i])
         /\ Start(J[i]) < Len(file)
         /\ k <= J[i] + 1 /\ J[i] <= s
         /\ \A h \in 1..i : down[h].kind = "packet" => J[h] <= J[i]

(* While both sides are at it, there is one message on the way, and another  *)
(* for each answer too many.  A packet lags no further behind the sender than  *)
(* messages were sent since, or lost; an acknowledgement, no further behind  *)
(* the receiver.                                                             *)
InTurn(s, k, J) ==
    /\ Len(up) + Len(down) <= 1 + Extra
    /\ \A i \in 1..Len(down) : down[i].kind = "packet" => s + Len(up) + i <= J[i] + 1 + Extra
    /\ \A i \in 1..Len(up) : up[i] = "ACK" => s + i <= k + Extra

(* The end of the file follows its last block.                               *)
EndSent(s) == \A i \in 1..Len(down) : down[i].kind = "EOT" => Len(file) <= Start(s)

Matched(s, k, J) ==
    /\ SenderAt(s) /\ ReceiverAt(k) /\ Apart(s, k)
    /\ Packets(s, k, J) /\ EndSent(s)
    /\ Sending => InTurn(s, k, J)

Matching == \E s, k \in Nat : \E J \in [1..Len(down) -> Nat] : Matched(s, k, J)

(* The numbers tell the packets on their way apart.                          *)
Distinct == Extra + 1 < Numbers

(* What is written, with what is held, is the file's beginning.              *)
Begun == IsPrefix(out \o Trimmed(rx.held), file)

Inv ==
    /\ Types
    /\ Distinct => Begun /\ (Listening => Matching)
    /\ KeptWhole

-----------------------------------------------------------------------------
(* Blocks and their numbers.                                                *)

LEMMA Starts ==
    /\ Start(0) = 0
    /\ \A j \in Nat : Start(j) \in Nat /\ Start(j + 1) = Start(j) + BlockSize
    /\ \A i, j \in Nat : i <= j => Start(i) <= Start(j)
<1>1. BlockSize \in Nat \ {0}
  BY XModemAssumption
<1>2. Start(0) = 0
  BY <1>1 DEF Start
<1>3. ASSUME NEW j \in Nat PROVE Start(j) \in Nat /\ Start(j + 1) = Start(j) + BlockSize
  BY <1>1 DEF Start
<1>4. ASSUME NEW i \in Nat, NEW j \in Nat, i <= j PROVE Start(i) <= Start(j)
  <2>1. PICK d \in Nat : j = i + d
    <3>1. j - i \in Nat /\ j = i + (j - i) BY <1>4
    <3> QED BY <3>1
  <2>2. j * BlockSize = i * BlockSize + d * BlockSize /\ d * BlockSize \in Nat /\ i * BlockSize \in Nat
    BY <1>1, <2>1
  <2> QED BY <2>2 DEF Start
<1> QED BY <1>2, <1>3, <1>4

(* A remainder and what it leaves determine each other.                      *)
LEMMA Remainder ==
    ASSUME NEW a \in Nat
    PROVE  /\ a % Numbers \in 0..Numbers - 1
           /\ \E q \in Nat : a = q * Numbers + (a % Numbers)
<1>1. Numbers \in Nat \ {0, 1}
  BY XModemAssumption
<1>2. a \div Numbers \in Nat /\ a = (a \div Numbers) * Numbers + (a % Numbers)
  BY <1>1
<1>3. a % Numbers \in 0..Numbers - 1
  BY <1>1
<1> QED BY <1>2, <1>3

LEMMA SameRemainder ==
    ASSUME NEW a \in Nat, NEW c \in Nat, a % Numbers = c % Numbers,
           a - c < Numbers, c - a < Numbers
    PROVE  a = c
<1>1. Numbers \in Nat \ {0, 1}
  BY XModemAssumption
<1>2. PICK q \in Nat : a = q * Numbers + (a % Numbers)
  BY Remainder
<1>3. PICK r \in Nat : c = r * Numbers + (c % Numbers)
  BY Remainder
<1>4. a - c = (q - r) * Numbers
  <2> DEFINE m == a % Numbers
  <2>1. m \in Nat
    BY Remainder
  <2>2. a = q * Numbers + m /\ c = r * Numbers + m
    BY <1>2, <1>3
  <2> HIDE DEF m
  <2>3. (q - r) * Numbers = q * Numbers - r * Numbers
    BY <1>1
  <2>4. q * Numbers \in Nat /\ r * Numbers \in Nat
    BY <1>1
  <2> QED BY <2>1, <2>2, <2>3, <2>4
<1>5. ASSUME NEW d \in Nat, d # 0 PROVE d * Numbers >= Numbers
  <2>1. d - 1 \in Nat /\ d * Numbers = (d - 1) * Numbers + Numbers /\ (d - 1) * Numbers \in Nat
    BY <1>1, <1>5
  <2> QED BY <2>1, <1>1
<1>6. ~(q - r > 0)
  <2> SUFFICES ASSUME q - r > 0 PROVE FALSE
    OBVIOUS
  <2>1. (q - r) * Numbers >= Numbers
    BY <1>5
  <2> QED BY <2>1, <1>4, <1>1
<1>7. ~(r - q > 0)
  <2> SUFFICES ASSUME r - q > 0 PROVE FALSE
    OBVIOUS
  <2>1. (r - q) * Numbers >= Numbers
    BY <1>5
  <2>2. (r - q) * Numbers = -((q - r) * Numbers) /\ (r - q) * Numbers \in Int
    BY <1>1
  <2> QED BY <2>1, <2>2, <1>4, <1>1
<1>8. q - r = 0
  BY <1>6, <1>7
<1>9. a - c = 0
  BY <1>4, <1>8, <1>1
<1> QED BY <1>9

LEMMA RemainderOf ==
    ASSUME NEW q \in Nat, NEW r \in 0..Numbers - 1
    PROVE  (q * Numbers + r) % Numbers = r
<1>1. Numbers \in Nat \ {0, 1}
  BY XModemAssumption
<1> DEFINE a == q * Numbers + r
           c == a % Numbers
<1>2. a \in Nat /\ q * Numbers \in Nat
  BY <1>1
<1>3. PICK p \in Nat : a = p * Numbers + c
  BY <1>2, Remainder
<1>4. c \in 0..Numbers - 1
  BY <1>2, Remainder
<1>5. (p - q) * Numbers = r - c
  <2>1. (p - q) * Numbers = p * Numbers - q * Numbers
    BY <1>1
  <2>2. p * Numbers \in Nat
    BY <1>1
  <2> HIDE DEF c
  <2> QED BY <2>1, <2>2, <1>2, <1>3, <1>4
<1>6. ASSUME NEW d \in Nat, d # 0 PROVE d * Numbers >= Numbers
  <2>1. d - 1 \in Nat /\ d * Numbers = (d - 1) * Numbers + Numbers /\ (d - 1) * Numbers \in Nat
    BY <1>1, <1>6
  <2> QED BY <2>1, <1>1
<1> HIDE DEF c
<1>7. ~(p - q > 0)
  <2> SUFFICES ASSUME p - q > 0 PROVE FALSE
    OBVIOUS
  <2>1. (p - q) * Numbers >= Numbers
    BY <1>6
  <2> QED BY <2>1, <1>5, <1>4, <1>1
<1>8. ~(q - p > 0)
  <2> SUFFICES ASSUME q - p > 0 PROVE FALSE
    OBVIOUS
  <2>1. (q - p) * Numbers >= Numbers
    BY <1>6
  <2>2. (q - p) * Numbers = -((p - q) * Numbers)
    BY <1>1
  <2> QED BY <2>1, <2>2, <1>5, <1>4, <1>1
<1>9. p - q = 0
  BY <1>7, <1>8
<1>10. r - c = 0
  BY <1>5, <1>9, <1>1
<1> QED BY <1>10, <1>4 DEF c

(* The numbers begin with 1 and follow each other; within a round of them     *)
(* each stands for one block.                                                *)
LEMMA FirstNumber == Number(0) = 1
<1>1. Numbers \in Nat \ {0, 1}
  BY XModemAssumption
<1>2. (0 * Numbers + 1) % Numbers = 1
  BY <1>1, RemainderOf
<1>3. 0 * Numbers + 1 = 0 + 1
  BY <1>1
<1> QED BY <1>2, <1>3 DEF Number

LEMMA NumberNatural == ASSUME NEW j \in Nat PROVE Number(j) \in Nat
<1>1. (j + 1) % Numbers \in 0..Numbers - 1
  BY Remainder
<1>2. Numbers \in Nat
  BY XModemAssumption
<1> QED BY <1>1, <1>2 DEF Number

(* The number after x; the number of a block is a remainder.                 *)
LEMMA After ==
    ASSUME NEW x \in Nat
    PROVE  ((x % Numbers) + 1) % Numbers = (x + 1) % Numbers
<1>1. Numbers \in Nat \ {0, 1}
  BY XModemAssumption
<1> DEFINE m == x % Numbers
<1>2. PICK q \in Nat : x = q * Numbers + m
  BY Remainder
<1>3. m \in 0..Numbers - 1
  BY Remainder
<1> HIDE DEF m
<1>4. CASE m + 1 < Numbers
  <2>1. x + 1 = q * Numbers + (m + 1) /\ m + 1 \in 0..Numbers - 1 /\ m + 1 = 0 * Numbers + (m + 1)
    <3>1. q * Numbers \in Nat BY <1>1
    <3> QED BY <3>1, <1>1, <1>2, <1>3, <1>4
  <2>2. (q * Numbers + (m + 1)) % Numbers = m + 1
    BY <2>1, RemainderOf
  <2>3. (0 * Numbers + (m + 1)) % Numbers = m + 1
    BY <2>1, RemainderOf
  <2>4. (m + 1) % Numbers = m + 1
    BY <2>1, <2>3
  <2>5. (x + 1) % Numbers = m + 1
    BY <2>1, <2>2
  <2> QED BY <2>4, <2>5 DEF m
<1>5. CASE ~(m + 1 < Numbers)
  <2>1. m + 1 = Numbers
    BY <1>1, <1>3, <1>5
  <2>2. x + 1 = (q + 1) * Numbers + 0 /\ Numbers = 1 * Numbers + 0 /\ 0 \in 0..Numbers - 1
    <3>1. q * Numbers \in Nat BY <1>1
    <3>2. (q + 1) * Numbers = q * Numbers + Numbers BY <1>1
    <3> QED BY <3>1, <3>2, <1>1, <1>2, <1>3, <2>1
  <2>3. ((q + 1) * Numbers + 0) % Numbers = 0
    BY <2>2, RemainderOf
  <2>4. (1 * Numbers + 0) % Numbers = 0
    BY <2>2, RemainderOf
  <2>5. (m + 1) % Numbers = 0
    BY <2>1, <2>2, <2>4
  <2>6. (x + 1) % Numbers = 0
    BY <2>2, <2>3
  <2> QED BY <2>5, <2>6 DEF m
<1> QED BY <1>4, <1>5

LEMMA NextNumber ==
    ASSUME NEW j \in Nat
    PROVE  Number(j + 1) = (Number(j) + 1) % Numbers
BY After DEF Number

LEMMA OneBlock ==
    ASSUME NEW i \in Nat, NEW j \in Nat, Number(i) = Number(j), i - j < Numbers, j - i < Numbers
    PROVE  i = j
<1>1. Numbers \in Nat
  BY XModemAssumption
<1>2. i + 1 = j + 1
  <2>1. (i + 1) - (j + 1) < Numbers /\ (j + 1) - (i + 1) < Numbers
    BY <1>1
  <2>2. (i + 1) % Numbers = (j + 1) % Numbers
    BY DEF Number
  <2> QED BY <2>1, <2>2, SameRemainder
<1> QED BY <1>2

(* The number before that of the k-th block, unless it is -1, is that of the *)
(* block before.                                                             *)
LEMMA BlockBefore ==
    ASSUME NEW i \in Nat, NEW k \in Nat, Number(i) = Number(k) - 1,
           k <= i + 1, i + 1 < k + Numbers
    PROVE  i + 1 = k
<1>1. Numbers \in Nat \ {0, 1}
  BY XModemAssumption
<1>2. Number(i) + 1 = Number(k)
  BY NumberNatural
<1>3. Number(k) \in 0..Numbers - 1
  <2>1. (k + 1) % Numbers \in 0..Numbers - 1
    BY Remainder
  <2> QED BY <2>1 DEF Number
<1>4. Number(i + 1) = Number(k)
  <2>1. 0 * Numbers + Number(k) = Number(k)
    BY <1>1, <1>3
  <2>2. (0 * Numbers + Number(k)) % Numbers = Number(k)
    BY <1>3, RemainderOf
  <2> QED BY <2>1, <2>2, <1>2, NextNumber
<1>5. (i + 1) - k < Numbers /\ k - (i + 1) < Numbers
  BY <1>1
<1> QED BY <1>4, <1>5, OneBlock

(* A set of natural numbers that is not empty has a least member.            *)
LEMMA Least == ASSUME NEW T \in SUBSET Nat, T # {} PROVE \E n \in T : \A m \in T : n <= m
<1> DEFINE I == {0 .. n : n \in T}
<1>1. I \subseteq FiniteSubsetsOf(Nat) /\ I # {}
  <2>1. ASSUME NEW n \in Nat PROVE 0 .. n \in SUBSET Nat /\ IsFiniteSet(0 .. n)
    BY FS_Interval
  <2>2. ASSUME NEW n \in Nat PROVE 0 .. n \in FiniteSubsetsOf(Nat)
    BY <2>1 DEF FiniteSubsetsOf
  <2> QED BY <2>2
<1> HIDE DEF I
<1>2. IsWellFoundedOn(StrictSubsetOrdering(Nat), FiniteSubsetsOf(Nat))
  BY FS_StrictSubsetOrderingWellFounded
<1>3. PICK x \in I : \A y \in I : ~(<<y, x>> \in StrictSubsetOrdering(Nat))
  BY <1>1, <1>2, WFMin
<1>4. PICK n \in T : x = 0 .. n
  BY DEF I
<1>5. ASSUME NEW m \in T, m < n PROVE FALSE
  <2>1. 0 .. m \in I
    BY DEF I
  <2>2. /\ <<0 .. m, 0 .. n>> \in (SUBSET Nat) \X (SUBSET Nat)
        /\ 0 .. m \subseteq 0 .. n /\ 0 .. m # 0 .. n
    <3>1. n \in 0 .. n /\ n \notin 0 .. m BY <1>5
    <3> QED BY <1>5, <3>1
  <2>3. <<0 .. m, x>> \in StrictSubsetOrdering(Nat)
    BY <2>2, <1>4 DEF StrictSubsetOrdering
  <2> QED BY <1>3, <2>1, <2>3
<1>6. \A m \in T : n <= m
  BY <1>5
<1> QED BY <1>6


-----------------------------------------------------------------------------
(* Bytes.                                                                   *)

LEMMA FileIs == ASSUME file \in Files
                PROVE  /\ file \in Seq(Characters) /\ Len(file) \in Nat
                       /\ \A i \in 1..Len(file) : file[i] \in Characters
                       /\ file # <<>> => file[Len(file)] # Z
<1>1. file \in Seq(Characters)
  BY XModemAssumption DEF Characters
<1>2. file # <<>> => file[Len(file)] # Z
  BY XModemAssumption DEF Last
<1> QED BY <1>1, <1>2

LEMMA BlockIs ==
    ASSUME file \in Files, NEW j \in Nat
    PROVE  /\ Block(j) \in Seq(Characters) /\ Len(Block(j)) = BlockSize
           /\ \A i \in 1..BlockSize :
                Block(j)[i] = IF Start(j) + i <= Len(file) THEN file[Start(j) + i] ELSE Z
<1>1. BlockSize \in Nat /\ Start(j) \in Nat
  BY XModemAssumption, Starts
<1>2. \A i \in 1..BlockSize :
        (IF Start(j) + i <= Len(file) THEN file[Start(j) + i] ELSE Z) \in Characters
  BY <1>1, FileIs DEF Characters
<1> QED BY <1>1, <1>2 DEF Block

LEMMA Least2 ==
    ASSUME NEW a \in Int, NEW c \in Int
    PROVE  Min({a, c}) = IF a <= c THEN a ELSE c
<1>1. \A x \in {a, c} : (\A y \in {a, c} : x =< y) <=> x = IF a <= c THEN a ELSE c
  OBVIOUS
<1>2. (IF a <= c THEN a ELSE c) \in {a, c}
  OBVIOUS
<1> QED BY <1>1, <1>2 DEF Min

(* What a packet holds is a block of the file.                               *)
LEMMA PacketIs ==
    ASSUME file \in Files, NEW s \in Nat, NEW t, t.pos = Start(s), Start(s) < Len(file)
    PROVE  Packet(t) = [kind |-> "packet", no |-> t.no, data |-> Block(s), crc |-> t.crc, ok |-> TRUE]
<1>1. BlockSize \in Nat \ {0} /\ Start(s) \in Nat /\ Len(file) \in Nat
  BY XModemAssumption, Starts, FileIs
<1> DEFINE rest == SubSeq(file, t.pos + 1, Len(file))
           size == Min({BlockSize, Len(rest)})
           read == SubSeq(rest, 1, size)
<1>2. /\ rest \in Seq(Characters) /\ Len(rest) = Len(file) - Start(s)
      /\ \A i \in 1..Len(rest) : rest[i] = file[Start(s) + i]
  <2>1. \A i \in Start(s) + 1..Len(file) : file[i] \in Characters
    BY <1>1, FileIs
  <2>2. /\ Len(rest) = Len(file) - (Start(s) + 1) + 1
        /\ rest \in Seq(Characters)
        /\ \A i \in 1..Len(file) - (Start(s) + 1) + 1 : rest[i] = file[Start(s) + 1 + i - 1]
    BY <1>1, <2>1, SubSeqProperties
  <2> HIDE DEF rest
  <2>3. ASSUME NEW i \in 1..Len(rest) PROVE rest[i] = file[Start(s) + i]
    <3>1. rest[i] = file[Start(s) + 1 + i - 1] BY <2>2
    <3>2. Start(s) + 1 + i - 1 = Start(s) + i BY <1>1, <2>2
    <3> QED BY <3>1, <3>2
  <2> QED BY <2>2, <2>3, <1>1
<1> HIDE DEF rest
<1>3. /\ size \in Nat
      /\ size = IF BlockSize <= Len(file) - Start(s) THEN BlockSize ELSE Len(file) - Start(s)
  BY <1>1, <1>2, Least2
<1> HIDE DEF size
<1>4. Len(read) = size /\ \A i \in 1..size : read[i] = file[Start(s) + i]
  <2>1. \A i \in 1..size : rest[i] \in Characters
    BY <1>1, <1>2, <1>3
  <2>2. /\ Len(read) = IF 1 <= size THEN size - 1 + 1 ELSE 0
        /\ \A i \in 1..size - 1 + 1 : read[i] = rest[1 + i - 1]
    BY <1>3, <2>1, SubSeqProperties
  <2> HIDE DEF read
  <2>3. ASSUME NEW i \in 1..size PROVE read[i] = file[Start(s) + i]
    <3>1. read[i] = rest[i] BY <2>2, <1>3
    <3> QED BY <3>1, <1>1, <1>2, <1>3
  <2>4. Len(read) = size BY <2>2, <1>3
  <2> QED BY <2>3, <2>4
<1> HIDE DEF read
<1>5. [i \in 1..BlockSize |-> IF i <= Len(read) THEN read[i] ELSE Z] = Block(s)
  <2>1. ASSUME NEW i \in 1..BlockSize
        PROVE  (IF i <= Len(read) THEN read[i] ELSE Z)
                 = IF Start(s) + i <= Len(file) THEN file[Start(s) + i] ELSE Z
    <3>1. i <= size <=> Start(s) + i <= Len(file)
      BY <1>1, <1>3
    <3> QED BY <3>1, <1>4, <1>3
  <2> QED BY <2>1 DEF Block
<1>6. Packet(t) = [kind |-> "packet", no |-> t.no, crc |-> t.crc, ok |-> TRUE,
                   data |-> [i \in 1..BlockSize |-> IF i <= Len(read) THEN read[i] ELSE Z]]
  BY DEF Packet, read, size, rest
<1> QED BY <1>5, <1>6

(* The blocks of a file, one after the other.                                *)
LEMMA Joined ==
    ASSUME file \in Files, NEW j \in Nat, Start(j + 1) <= Len(file)
    PROVE  SubSeq(file, 1, Start(j)) \o Block(j) = SubSeq(file, 1, Start(j + 1))
<1>1. /\ BlockSize \in Nat \ {0} /\ Start(j) \in Nat /\ Len(file) \in Nat
      /\ Start(j + 1) = Start(j) + BlockSize
  BY XModemAssumption, Starts, FileIs
<1> DEFINE u == SubSeq(file, 1, Start(j))
           v == SubSeq(file, 1, Start(j + 1))
           w == Block(j)
<1>2. u \in Seq(Characters) /\ Len(u) = Start(j) /\ \A i \in 1..Start(j) : u[i] = file[i]
  BY <1>1, FileIs
<1>3. v \in Seq(Characters) /\ Len(v) = Start(j + 1) /\ \A i \in 1..Start(j + 1) : v[i] = file[i]
  <2>1. Start(j + 1) \in 0..Len(file)
    BY <1>1
  <2> QED BY <2>1, FileIs
<1>4. w \in Seq(Characters) /\ Len(w) = BlockSize /\ \A i \in 1..BlockSize : w[i] = file[Start(j) + i]
  BY <1>1, BlockIs
<1> HIDE DEF u, v, w
<1>5. /\ u \o w \in Seq(Characters) /\ Len(u \o w) = Start(j) + BlockSize
      /\ \A i \in 1..Start(j) : (u \o w)[i] = u[i]
      /\ \A i \in 1..BlockSize : (u \o w)[Start(j) + i] = w[i]
  <2>1. /\ u \o w \in Seq(Characters) /\ Len(u \o w) = Len(u) + Len(w)
        /\ \A i \in 1..Len(u) + Len(w) :
             (u \o w)[i] = IF i <= Len(u) THEN u[i] ELSE w[i - Len(u)]
    BY <1>2, <1>4, ConcatProperties
  <2> DEFINE z == u \o w
  <2>2. \A i \in 1..Start(j) + BlockSize : z[i] = IF i <= Start(j) THEN u[i] ELSE w[i - Start(j)]
    BY <2>1, <1>2, <1>4
  <2>3. Len(z) = Start(j) + BlockSize /\ z \in Seq(Characters)
    BY <2>1, <1>2, <1>4
  <2> HIDE DEF z
  <2>4. \A i \in 1..Start(j) : i \in 1..Start(j) + BlockSize /\ i <= Start(j)
    BY <1>1, <1>4
  <2>5. \A i \in 1..BlockSize : /\ Start(j) + i \in 1..Start(j) + BlockSize /\ ~(Start(j) + i <= Start(j))
                         /\ (Start(j) + i) - Start(j) = i
    BY <1>1, <1>4
  <2>6. \A i \in 1..Start(j) : z[i] = u[i]
    BY <2>2, <2>4
  <2>7. \A i \in 1..BlockSize : z[Start(j) + i] = w[i]
    BY <2>2, <2>5
  <2> QED BY <2>3, <2>6, <2>7 DEF z
<1> DEFINE y == u \o w
<1>6. ASSUME NEW i \in 1..Start(j) + BlockSize PROVE y[i] = v[i]
  <2> HIDE DEF y
  <2>1. CASE i <= Start(j)
    <3>1. i \in 1..Start(j) /\ i \in 1..Start(j + 1)
      BY <2>1, <1>1
    <3> QED BY <3>1, <1>2, <1>3, <1>5 DEF y
  <2>2. CASE ~(i <= Start(j))
    <3>1. PICK h \in 1..BlockSize : i = Start(j) + h
      <4>1. i - Start(j) \in 1..BlockSize /\ Start(j) + (i - Start(j)) = i
        BY <2>2, <1>1
      <4> QED BY <4>1
    <3>2. i \in 1..Start(j + 1)
      BY <1>1
    <3>3. w[h] = file[i]
      BY <3>1, <1>4
    <3>4. y[i] = w[h]
      BY <3>1, <1>5 DEF y
    <3> QED BY <3>2, <3>3, <3>4, <1>3
  <2> QED BY <2>1, <2>2
<1>7. u \o w = v
  BY <1>1, <1>3, <1>5, <1>6, SeqEqual
<1> QED BY <1>7 DEF u, v, w

(* What is left of a sequence of bytes without its padding.                  *)
LEMMA TrimmedIs ==
    ASSUME NEW held \in Seq(Characters)
    PROVE  \E n \in 0..Len(held) :
             /\ Trimmed(held) = SubSeq(held, 1, n)
             /\ n # 0 => held[n] # Z
             /\ \A i \in 1..Len(held) : held[i] # Z => i <= n
<1> DEFINE S == {0} \cup {i \in DOMAIN held : held[i] # Z}
           L == {x \in 0..Len(held) : \A y \in S : y <= x}
<1>1. DOMAIN held = 1..Len(held) /\ Len(held) \in Nat
  OBVIOUS
<1>2. L \in SUBSET Nat /\ Len(held) \in L
  BY <1>1
<1>3. PICK n \in L : \A m \in L : n <= m
  <2> HIDE DEF L
  <2> QED BY <1>2, Least
<1>4. n \in 0..Len(held) /\ \A y \in S : y <= n
  BY <1>3
<1>5. n \in S
  <2> SUFFICES ASSUME n \notin S PROVE FALSE
    OBVIOUS
  <2>1. n # 0 /\ n - 1 \in 0..Len(held) /\ n \in Nat
    BY <1>4
  <2>2. ASSUME NEW y \in S PROVE y <= n - 1
    <3>1. y <= n /\ y # n /\ y \in Nat BY <1>4, <1>1
    <3> QED BY <3>1, <2>1
  <2>3. n - 1 \in L
    BY <2>1, <2>2
  <2>4. n <= n - 1
    BY <2>3, <1>3
  <2> QED BY <2>1, <2>4
<1>6. Max(S) = n
  <2>1. n \in S /\ \A y \in S : n >= y
    <3>1. \A y \in S : y \in Nat BY <1>1
    <3> QED BY <3>1, <1>4, <1>5
  <2>2. ASSUME NEW x \in S, \A y \in S : x >= y PROVE x = n
    <3>1. x \in Nat /\ n \in Nat BY <1>1, <1>4
    <3>2. x >= n /\ n >= x BY <2>1, <2>2
    <3> QED BY <3>1, <3>2
  <2> HIDE DEF S
  <2> QED BY <2>1, <2>2 DEF Max
<1>7. Trimmed(held) = SubSeq(held, 1, n)
  BY <1>6 DEF Trimmed
<1>8. n # 0 => held[n] # Z
  BY <1>5
<1>9. \A i \in 1..Len(held) : held[i] # Z => i <= n
  BY <1>1, <1>4
<1> QED BY <1>4, <1>7, <1>8, <1>9

(* Behind its beginning, a block without its padding continues the file, to  *)
(* its end if this is the last.                                              *)
LEMMA Continues ==
    ASSUME file \in Files, NEW j \in Nat, Start(j) < Len(file)
    PROVE  /\ IsPrefix(SubSeq(file, 1, Start(j)) \o Trimmed(Block(j)), file)
           /\ Len(file) <= Start(j + 1) => SubSeq(file, 1, Start(j)) \o Trimmed(Block(j)) = file
<1>1. /\ BlockSize \in Nat \ {0} /\ Start(j) \in Nat /\ Len(file) \in Nat
      /\ Start(j + 1) = Start(j) + BlockSize
  BY XModemAssumption, Starts, FileIs
<1> DEFINE u == SubSeq(file, 1, Start(j))
           w == Block(j)
           x == Trimmed(w)
<1>2. u \in Seq(Characters) /\ Len(u) = Start(j) /\ \A i \in 1..Start(j) : u[i] = file[i]
  BY <1>1, FileIs
<1>3. /\ w \in Seq(Characters) /\ Len(w) = BlockSize
      /\ \A i \in 1..BlockSize : w[i] = IF Start(j) + i <= Len(file) THEN file[Start(j) + i] ELSE Z
  BY BlockIs
<1> HIDE DEF u, w
<1>4. PICK n \in 0..Len(w) :
        /\ x = SubSeq(w, 1, n)
        /\ n # 0 => w[n] # Z
        /\ \A i \in 1..Len(w) : w[i] # Z => i <= n
  BY <1>3, TrimmedIs
<1>5. x \in Seq(Characters) /\ Len(x) = n /\ \A i \in 1..n : x[i] = w[i]
  BY <1>3, <1>4
<1> HIDE DEF x
<1>6. n \in Nat /\ n <= BlockSize /\ Start(j) + n <= Len(file)
  <2>1. n \in Nat /\ n <= BlockSize
    BY <1>1, <1>3, <1>4
  <2>2. CASE n = 0
    BY <2>1, <2>2, <1>1
  <2>3. CASE n # 0
    <3>1. n \in 1..BlockSize /\ w[n] # Z
      BY <2>1, <2>3, <1>4, <1>1
    <3> QED BY <2>1, <3>1, <1>3, <1>1
  <2> QED BY <2>1, <2>2, <2>3
<1>7. /\ u \o x \in Seq(Characters) /\ Len(u \o x) = Start(j) + n
      /\ \A i \in 1..Start(j) : (u \o x)[i] = u[i]
      /\ \A i \in 1..n : (u \o x)[Start(j) + i] = x[i]
  <2>1. /\ u \o x \in Seq(Characters) /\ Len(u \o x) = Len(u) + Len(x)
        /\ \A i \in 1..Len(u) + Len(x) :
             (u \o x)[i] = IF i <= Len(u) THEN u[i] ELSE x[i - Len(u)]
    BY <1>2, <1>5, <1>6, ConcatProperties
  <2> DEFINE z == u \o x
  <2>2. \A i \in 1..Start(j) + n : z[i] = IF i <= Start(j) THEN u[i] ELSE x[i - Start(j)]
    BY <2>1, <1>2, <1>5, <1>6
  <2>3. Len(z) = Start(j) + n /\ z \in Seq(Characters)
    BY <2>1, <1>2, <1>5, <1>6
  <2> HIDE DEF z
  <2>4. \A i \in 1..Start(j) : i \in 1..Start(j) + n /\ i <= Start(j)
    BY <1>1, <1>5, <1>6
  <2>5. \A i \in 1..n : /\ Start(j) + i \in 1..Start(j) + n /\ ~(Start(j) + i <= Start(j))
                         /\ (Start(j) + i) - Start(j) = i
    BY <1>1, <1>5, <1>6
  <2>6. \A i \in 1..Start(j) : z[i] = u[i]
    BY <2>2, <2>4
  <2>7. \A i \in 1..n : z[Start(j) + i] = x[i]
    BY <2>2, <2>5
  <2> QED BY <2>3, <2>6, <2>7 DEF z
<1> DEFINE y == u \o x
<1>8. ASSUME NEW i \in 1..Start(j) + n PROVE y[i] = file[i]
  <2> HIDE DEF y
  <2>1. CASE i <= Start(j)
    <3>1. i \in 1..Start(j)
      BY <2>1, <1>1, <1>6
    <3> QED BY <3>1, <1>2, <1>7 DEF y
  <2>2. CASE ~(i <= Start(j))
    <3>1. PICK h \in 1..n : i = Start(j) + h
      <4>1. i - Start(j) \in 1..n /\ Start(j) + (i - Start(j)) = i
        BY <2>2, <1>1, <1>6
      <4> QED BY <4>1
    <3>2. h \in 1..BlockSize /\ i <= Len(file)
      BY <3>1, <1>1, <1>6
    <3>3. w[h] = file[i]
      BY <3>1, <3>2, <1>3
    <3>4. y[i] = x[h] /\ x[h] = w[h]
      BY <3>1, <1>5, <1>7 DEF y
    <3> QED BY <3>3, <3>4
  <2> QED BY <2>1, <2>2
<1>9. y \in Seq(Characters) /\ Len(y) = Start(j) + n /\ \A i \in 1..Start(j) + n : y[i] = file[i]
  BY <1>7, <1>8
<1> HIDE DEF y
<1>10. Len(y) <= Len(file) /\ Len(y) \in Nat
  BY <1>1, <1>6, <1>9
<1>11. SubSeq(y, 1, Len(y)) = y
  BY <1>9, SubSeqFull
<1>12. SubSeq(file, 1, Len(y)) = y
  <2> DEFINE z == SubSeq(file, 1, Len(y))
  <2>1. z \in Seq(Characters) /\ Len(z) = Len(y) /\ \A i \in 1..Len(y) : z[i] = file[i]
    <3>1. Len(y) \in 0..Len(file)
      BY <1>10, FileIs
    <3> HIDE DEF y
    <3> QED BY <3>1, FileIs
  <2> HIDE DEF z
  <2>2. \A i \in 1..Len(y) : z[i] = y[i]
    BY <2>1, <1>9
  <2>3. z = y
    BY <2>1, <2>2, <1>9, SeqEqual
  <2> QED BY <2>3 DEF z
<1>13. IsPrefix(y, file)
  BY <1>10, <1>11, <1>12 DEF IsPrefix
<1>14. ASSUME Len(file) <= Start(j + 1) PROVE y = file
  <2> DEFINE e == Len(file) - Start(j)
  <2>1. e \in 1..BlockSize /\ Start(j) + e = Len(file) /\ file # <<>>
    BY <1>1, <1>14
  <2>2. w[e] = file[Len(file)] /\ file[Len(file)] # Z
    BY <2>1, <1>3, FileIs
  <2>3. e <= n
    BY <2>1, <2>2, <1>3, <1>4
  <2> HIDE DEF e
  <2>4. Len(y) = Len(file)
    BY <2>1, <2>3, <1>1, <1>6, <1>9
  <2>5. SubSeq(file, 1, Len(file)) = file
    BY FileIs, SubSeqFull
  <2> QED BY <2>4, <2>5, <1>12
<1> QED BY <1>13, <1>14 DEF y, x, u, w

-----------------------------------------------------------------------------
(* Types.                                                                   *)

LEMMA ControlType == ASSUME NEW kind \in Kinds PROVE Control(kind) \in Message
<1>1. <<>> \in Seq(Characters)
  OBVIOUS
<1> QED BY <1>1 DEF Control, Message, Kinds

LEMMA PacketType ==
    ASSUME file \in Files, NEW t \in Tx
    PROVE  Packet(t) \in Message
<1> DEFINE rest == SubSeq(file, t.pos + 1, Len(file))
           size == Min({BlockSize, Len(rest)})
           read == SubSeq(rest, 1, size)
<1>1. BlockSize \in Nat /\ t.pos \in Nat /\ t.no \in Nat /\ t.crc \in BOOLEAN
  BY XModemAssumption DEF Tx
<1>2. rest \in Seq(Characters)
  <2>1. \A i \in t.pos + 1..Len(file) : file[i] \in Characters
    BY <1>1, FileIs
  <2> QED BY <1>1, <2>1, FileIs, SubSeqProperties
<1> HIDE DEF rest
<1>3. size \in 0..Len(rest)
  BY <1>1, <1>2, Least2
<1> HIDE DEF size
<1>4. read \in Seq(Characters)
  <2>1. \A i \in 1..size : rest[i] \in Characters
    BY <1>2, <1>3
  <2> QED BY <1>3, <2>1, SubSeqProperties
<1> HIDE DEF read
<1> DEFINE data == [i \in 1..BlockSize |-> IF i <= Len(read) THEN read[i] ELSE Z]
<1>5. data \in Seq(Characters)
  <2>1. \A i \in 1..BlockSize : (IF i <= Len(read) THEN read[i] ELSE Z) \in Characters
    BY <1>4 DEF Characters
  <2> QED BY <2>1, <1>1
<1>6. Packet(t) = [kind |-> "packet", no |-> t.no, data |-> data, crc |-> t.crc, ok |-> TRUE]
  BY DEF Packet, read, size, rest
<1> HIDE DEF data
<1> QED BY <1>1, <1>5, <1>6 DEF Message, Kinds

LEMMA TypesInit == Init => Types
<1> SUFFICES ASSUME Init PROVE Types
  OBVIOUS
<1>1. tx \in Tx
  <2>1. tx = [at |-> "sync", no |-> 1, pos |-> 0, crc |-> FALSE, retry |-> 0, result |-> "none"]
    BY DEF Init
  <2> QED BY <2>1 DEF Tx, Results
<1>2. rx \in Rx
  <2>1. <<>> \in Seq(Characters) /\ MaxRetrans \in Int
    BY XModemAssumption
  <2>2. rx = [try |-> <<"C">>, no |-> 1, crc |-> FALSE, retry |-> 0, retrans |-> MaxRetrans,
              held |-> <<>>, result |-> "none"]
    BY DEF Init
  <2> QED BY <2>1, <2>2 DEF Rx, Results
<1>3. down \in Seq(Message) /\ up \in Seq(Answers) /\ out \in Seq(Characters)
  BY DEF Init, Answers
<1>4. hits \in Seq(Causes) /\ Len(hits) <= MaxFaults /\ strays \in Nat
  BY XModemAssumption DEF Init
<1>5. free \in Int /\ file \in Files
  BY XModemAssumption DEF Init
<1>6. Sending <=> tx.at # "done"
  BY DEF Init, Sending
<1> QED BY <1>1, <1>2, <1>3, <1>4, <1>5, <1>6 DEF Types

(* What the sender does to its own state and to the line.                    *)
SenderTyped == down' \in Seq(Message) /\ tx' \in Tx /\ (Sending' <=> tx'.at # "done")

LEMMA Cans == [i \in 1..3 |-> Control("CAN")] \in Seq(Message)
<1> DEFINE c == Control("CAN")
<1>1. c \in Message
  BY ControlType DEF Kinds
<1> HIDE DEF c
<1>2. [i \in 1..3 |-> c] \in Seq(Message)
  BY <1>1
<1> QED BY <1>2 DEF c

LEMMA EndsTyped ==
    ASSUME Types, NEW result \in Results, result # "none", SenderEnds(result)
    PROVE  tx' \in Tx /\ (Sending' <=> tx'.at # "done")
<1>1. tx' = [tx EXCEPT !.at = "done", !.result = result] /\ tx \in Tx
  BY DEF SenderEnds, Types
<1>2. tx' \in Tx
  BY <1>1 DEF Tx
<1>3. tx'.at = "done" /\ tx'.result = result
  BY <1>1 DEF Tx
<1> QED BY <1>2, <1>3 DEF Sending

LEMMA GoesOnTyped ==
    ASSUME Types, Sending, NEW n \in Nat, tx' = [tx EXCEPT !.retry = n]
    PROVE  tx' \in Tx /\ (Sending' <=> tx'.at # "done")
<1>1. tx \in Tx /\ tx.at # "done"
  BY DEF Types
<1>2. tx' \in Tx /\ tx'.at = tx.at /\ tx'.result = tx.result
  BY <1>1 DEF Tx
<1> QED BY <1>1, <1>2 DEF Sending

LEMMA RetryTyped == Types => tx.retry + 1 \in Nat
BY DEF Types, Tx

LEMMA SyncTyped == Types /\ Sending /\ SyncAgain => SenderTyped
<1> SUFFICES ASSUME Types, Sending, SyncAgain PROVE SenderTyped
  OBVIOUS
<1>1. down \in Seq(Message)
  BY DEF Types
<1>2. CASE tx.retry + 1 < SyncTries
  <2>1. tx' = [tx EXCEPT !.retry = tx.retry + 1] /\ UNCHANGED down
    BY <1>2 DEF SyncAgain
  <2> QED BY <1>1, <2>1, GoesOnTyped, RetryTyped DEF SenderTyped
<1>3. CASE ~(tx.retry + 1 < SyncTries)
  <2>1. SenderEnds("sync") /\ down' = down \o [i \in 1 .. 3 |-> Control("CAN")]
    BY <1>3 DEF SyncAgain
  <2> QED BY <1>1, <2>1, EndsTyped, Cans DEF SenderTyped, Results
<1> QED BY <1>2, <1>3

LEMMA SendTyped == Types /\ Sending /\ SendAgain => SenderTyped
<1> SUFFICES ASSUME Types, Sending, SendAgain PROVE SenderTyped
  OBVIOUS
<1>1. down \in Seq(Message) /\ tx \in Tx /\ file \in Files
  BY DEF Types
<1>2. CASE tx.retry + 1 < MaxRetrans
  <2>1. tx' = [tx EXCEPT !.retry = tx.retry + 1] /\ down' = Append(down, Packet(tx))
    BY <1>2 DEF SendAgain
  <2>2. Packet(tx) \in Message /\ tx.retry + 1 \in Nat
    BY <1>1, PacketType, RetryTyped
  <2>3. down' \in Seq(Message)
    BY <1>1, <2>1, <2>2
  <2> QED BY <2>1, <2>2, <2>3, GoesOnTyped DEF SenderTyped
<1>3. CASE ~(tx.retry + 1 < MaxRetrans)
  <2>1. SenderEnds("retries") /\ down' = down \o [i \in 1 .. 3 |-> Control("CAN")]
    BY <1>3 DEF SendAgain
  <2> QED BY <1>1, <2>1, EndsTyped, Cans DEF SenderTyped, Results
<1> QED BY <1>2, <1>3

LEMMA EndTyped == Types /\ Sending /\ EndAgain => SenderTyped
<1> SUFFICES ASSUME Types, Sending, EndAgain PROVE SenderTyped
  OBVIOUS
<1>1. down \in Seq(Message)
  BY DEF Types
<1>2. CASE tx.retry + 1 < EndTries
  <2>1. tx' = [tx EXCEPT !.retry = tx.retry + 1] /\ down' = Append(down, Control("EOT"))
    BY <1>2 DEF EndAgain
  <2> QED BY <1>1, <2>1, GoesOnTyped, RetryTyped, ControlType DEF SenderTyped, Kinds
<1>3. CASE ~(tx.retry + 1 < EndTries)
  <2>1. SenderEnds("unanswered") /\ UNCHANGED down
    BY <1>3 DEF EndAgain
  <2> QED BY <1>1, <2>1, EndsTyped DEF SenderTyped, Results
<1> QED BY <1>2, <1>3

LEMMA TransmitTyped ==
    ASSUME Types, NEW t \in Tx, t.result = "none", Transmit(t)
    PROVE  SenderTyped
<1>1. down \in Seq(Message) /\ file \in Files
  BY DEF Types
<1>2. CASE t.pos < Len(file)
  <2>1. tx' = [t EXCEPT !.at = "sent", !.retry = 0] /\ down' = Append(down, Packet(t))
    BY <1>2 DEF Transmit
  <2>2. tx' \in Tx /\ tx'.at = "sent" /\ tx'.result = "none"
    BY <2>1 DEF Tx
  <2> QED BY <1>1, <2>1, <2>2, PacketType DEF SenderTyped, Sending
<1>3. CASE ~(t.pos < Len(file))
  <2>1. tx' = [t EXCEPT !.at = "end", !.retry = 0] /\ down' = Append(down, Control("EOT"))
    BY <1>3 DEF Transmit
  <2>2. tx' \in Tx /\ tx'.at = "end" /\ tx'.result = "none"
    BY <2>1 DEF Tx
  <2> QED BY <1>1, <2>1, <2>2, ControlType DEF SenderTyped, Kinds, Sending
<1> QED BY <1>2, <1>3

LEMMA TailsTyped ==
    ASSUME Types
    PROVE  /\ up # <<>> => Tail(up) \in Seq(Answers) /\ Head(up) \in Answers
           /\ down # <<>> => Tail(down) \in Seq(Message) /\ Head(down) \in Message
           /\ \A n \in Nat : SubSeq(up, n + 1, Len(up)) \in Seq(Answers)
           /\ \A n \in Nat : SubSeq(down, n + 1, Len(down)) \in Seq(Message)
<1>1. up \in Seq(Answers) /\ down \in Seq(Message)
  BY DEF Types
<1>2. ASSUME NEW n \in Nat PROVE SubSeq(up, n + 1, Len(up)) \in Seq(Answers)
  <2>1. \A i \in n + 1..Len(up) : up[i] \in Answers
    BY <1>1
  <2> QED BY <1>1, <2>1, SubSeqProperties
<1>3. ASSUME NEW n \in Nat PROVE SubSeq(down, n + 1, Len(down)) \in Seq(Message)
  <2>1. \A i \in n + 1..Len(down) : down[i] \in Message
    BY <1>1
  <2> QED BY <1>1, <2>1, SubSeqProperties
<1>4. up # <<>> => Tail(up) \in Seq(Answers) /\ Head(up) \in Answers
  BY <1>1
<1>5. down # <<>> => Tail(down) \in Seq(Message) /\ Head(down) \in Message
  BY <1>1
<1> QED BY <1>2, <1>3, <1>4, <1>5

HitsTyped == hits' \in Seq(Causes) /\ Len(hits') <= MaxFaults

LEMMA HitTyped == ASSUME Types, NEW kind, Hit(kind) PROVE HitsTyped
<1>1. hits \in Seq(Causes) /\ Cause(kind) \in Causes
  BY DEF Types, Cause, Causes
<1>2. Len(hits) < MaxFaults /\ hits' = Append(hits, Cause(kind))
  BY DEF Hit
<1>3. MaxFaults \in Nat
  BY XModemAssumption
<1> QED BY <1>1, <1>2, <1>3 DEF HitsTyped

LEMMA InTimeTyped == Types /\ (UNCHANGED hits \/ Hit("late")) => HitsTyped
<1>1. Types /\ UNCHANGED hits => HitsTyped
  BY DEF HitsTyped, Types
<1> QED BY <1>1, HitTyped

LEMMA TransmitterTypes == Types /\ Transmitter => Types'
<1> SUFFICES ASSUME Types, Transmitter PROVE Types'
  OBVIOUS
<1>1. /\ file \in Files /\ down \in Seq(Message) /\ up \in Seq(Answers) /\ tx \in Tx
      /\ (Sending <=> tx.at # "done")
      /\ rx \in Rx /\ out \in Seq(Characters) /\ free \in Int
      /\ HitsTyped \/ UNCHANGED hits => HitsTyped
  BY DEF Types, HitsTyped
<1>2. ASSUME SenderTyped, UNCHANGED <<file, rx, out, free, strays>>, HitsTyped, up' \in Seq(Answers)
      PROVE  Types'
  BY <1>1, <1>2 DEF SenderTyped, Types, HitsTyped
<1>3. CASE TxTimeout
  <2>1. Sending /\ UNCHANGED <<file, up, rx, out, free, strays>> /\ HitsTyped
    BY <1>3, InTimeTyped DEF TxTimeout, InTime
  <2>2. CASE tx.at = "sync"
    <3>1. SyncAgain BY <1>3, <2>2 DEF TxTimeout
    <3> QED BY <3>1, <2>1, <1>1, <1>2, SyncTyped
  <2>3. CASE tx.at = "sent"
    <3>1. SendAgain BY <1>3, <2>3 DEF TxTimeout
    <3> QED BY <3>1, <2>1, <1>1, <1>2, SendTyped
  <2>4. CASE tx.at = "end"
    <3>1. SenderEnds("ok") /\ UNCHANGED down BY <1>3, <2>4 DEF TxTimeout
    <3>2. SenderTyped BY <3>1, <1>1, EndsTyped DEF SenderTyped, Results
    <3> QED BY <3>2, <2>1, <1>1, <1>2
  <2> QED BY <2>1, <2>2, <2>3, <2>4, <1>1 DEF Tx
<1>4. CASE TxStart
  <2>1. /\ tx.at = "sync" /\ up # <<>> /\ up' = Tail(up)
        /\ Transmit([tx EXCEPT !.crc = Head(up) = "C"])
        /\ UNCHANGED <<file, rx, out, free, hits, strays>>
    BY <1>4 DEF TxStart
  <2> DEFINE t == [tx EXCEPT !.crc = Head(up) = "C"]
  <2>2. t \in Tx /\ t.result = "none"
    BY <1>1, <2>1 DEF Tx, Sending
  <2> HIDE DEF t
  <2>3. SenderTyped
    BY <2>1, <2>2, TransmitTyped DEF t
  <2> QED BY <2>1, <2>3, <1>1, <1>2, TailsTyped
<1>5. CASE TxAck
  <2>1. up # <<>> /\ up' = Tail(up) /\ UNCHANGED <<file, rx, out, free, hits, strays>>
    BY <1>5 DEF TxAck
  <2>2. CASE /\ tx.at = "sent"
             /\ Transmit([tx EXCEPT !.no = (@ + 1) % Numbers, !.pos = @ + BlockSize])
    <3> DEFINE t == [tx EXCEPT !.no = (@ + 1) % Numbers, !.pos = @ + BlockSize]
    <3>1. (tx.no + 1) % Numbers \in Nat /\ tx.pos + BlockSize \in Nat
      <4>1. tx.no + 1 \in Nat /\ tx.pos \in Nat BY <1>1 DEF Tx
      <4>2. Numbers \in Nat /\ BlockSize \in Nat BY XModemAssumption
      <4>3. (tx.no + 1) % Numbers \in 0..Numbers - 1 BY <4>1, Remainder
      <4> QED BY <4>1, <4>2, <4>3
    <3>2. t \in Tx /\ t.result = "none"
      BY <1>1, <2>2, <3>1 DEF Tx, Sending
    <3> HIDE DEF t
    <3>3. SenderTyped
      BY <2>2, <3>2, TransmitTyped DEF t
    <3> QED BY <2>1, <3>3, <1>1, <1>2, TailsTyped
  <2>3. CASE tx.at = "end" /\ SenderEnds("ok") /\ UNCHANGED down
    <3>1. SenderTyped BY <2>3, <1>1, EndsTyped DEF SenderTyped, Results
    <3> QED BY <3>1, <2>1, <1>1, <1>2, TailsTyped
  <2> QED BY <1>5, <2>2, <2>3 DEF TxAck
<1>6. CASE TxCancel
  <2>1. /\ tx.at \in {"sync", "sent"} /\ up' = SubSeq(up, 3, Len(up))
        /\ UNCHANGED <<file, rx, out, free, hits, strays>>
    BY <1>6 DEF TxCancel
  <2>2. up' \in Seq(Answers)
    BY <2>1, TailsTyped
  <2>3. CASE SenderEnds("cancelled") /\ down' = Append(down, Control("ACK"))
    <3>1. SenderTyped BY <2>3, <1>1, EndsTyped, ControlType DEF SenderTyped, Kinds, Results
    <3> QED BY <3>1, <2>1, <2>2, <1>1, <1>2
  <2>4. CASE SyncAgain
    BY <2>4, <2>1, <2>2, <1>1, <1>2, SyncTyped
  <2>5. CASE SendAgain
    BY <2>5, <2>1, <2>2, <1>1, <1>2, SendTyped
  <2> QED BY <1>6, <2>3, <2>4, <2>5 DEF TxCancel
<1>7. CASE TxOther
  <2>1. Sending /\ up # <<>> /\ up' = Tail(up) /\ UNCHANGED <<file, rx, out, free, hits, strays>>
    BY <1>7 DEF TxOther
  <2>2. CASE tx.at = "sync"
    <3>1. SyncAgain BY <1>7, <2>2 DEF TxOther
    <3> QED BY <3>1, <2>1, <1>1, <1>2, SyncTyped, TailsTyped
  <2>3. CASE tx.at = "sent"
    <3>1. SendAgain BY <1>7, <2>3 DEF TxOther
    <3> QED BY <3>1, <2>1, <1>1, <1>2, SendTyped, TailsTyped
  <2>4. CASE tx.at = "end"
    <3>1. EndAgain BY <1>7, <2>4 DEF TxOther
    <3> QED BY <3>1, <2>1, <1>1, <1>2, EndTyped, TailsTyped
  <2> QED BY <2>1, <2>2, <2>3, <2>4, <1>1 DEF Tx
<1> QED BY <1>3, <1>4, <1>5, <1>6, <1>7 DEF Transmitter

ReceiverTyped == rx' \in Rx /\ up' \in Seq(Answers)

LEMMA ReceiverEndsTyped ==
    ASSUME Types, NEW r \in Rx, NEW result \in Results, NEW answer \in Seq(Answers),
           ReceiverEnds(r, result, answer)
    PROVE  ReceiverTyped
<1>1. rx' = [r EXCEPT !.result = result] /\ up' = up \o answer /\ up \in Seq(Answers)
  BY DEF ReceiverEnds, Types
<1>2. rx' \in Rx
  BY <1>1 DEF Rx
<1> QED BY <1>1, <1>2 DEF ReceiverTyped

LEMMA CancelTyped == Cancel \in Seq(Answers) /\ <<"ACK">> \in Seq(Answers)
BY DEF Cancel, Answers

LEMMA AskTyped == Types /\ AskAgain => ReceiverTyped
<1> SUFFICES ASSUME Types, AskAgain PROVE ReceiverTyped
  OBVIOUS
<1>1. rx \in Rx /\ up \in Seq(Answers) /\ rx.retry + 1 \in Nat
  BY DEF Types, Rx
<1>2. CASE rx.retry + 1 < SyncTries
  <2>1. rx' = [rx EXCEPT !.retry = rx.retry + 1] /\ up' = up \o rx.try
    BY <1>2 DEF AskAgain
  <2>2. rx.try \in Seq(Answers)
    <3>1. rx.try \in {<<>>, <<"C">>, <<"NAK">>}
      BY <1>1 DEF Rx
    <3>2. <<>> \in Seq(Answers) /\ <<"C">> \in Seq(Answers) /\ <<"NAK">> \in Seq(Answers)
      BY DEF Answers
    <3> QED BY <3>1, <3>2
  <2>3. rx' \in Rx
    BY <1>1, <2>1 DEF Rx
  <2> QED BY <1>1, <2>1, <2>2, <2>3 DEF ReceiverTyped
<1>3. CASE ~(rx.retry + 1 < SyncTries) /\ rx.try = <<"C">>
  <2>1. rx' = [rx EXCEPT !.retry = 0, !.try = <<"NAK">>] /\ up' = Append(up, "NAK")
    BY <1>3 DEF AskAgain
  <2>2. rx' \in Rx
    BY <1>1, <2>1 DEF Rx
  <2> QED BY <1>1, <2>1, <2>2 DEF ReceiverTyped, Answers
<1>4. CASE ~(rx.retry + 1 < SyncTries) /\ rx.try # <<"C">>
  <2>1. ReceiverEnds(rx, "sync", Cancel)
    BY <1>4 DEF AskAgain
  <2> QED BY <1>1, <2>1, ReceiverEndsTyped, CancelTyped DEF Results
<1> QED BY <1>2, <1>3, <1>4

LEMMA StartedTyped == Types => Started \in Rx
<1> SUFFICES ASSUME Types PROVE Started \in Rx
  OBVIOUS
<1>1. rx \in Rx
  BY DEF Types
<1>2. (rx.crc \/ rx.try = <<"C">>) \in BOOLEAN
  OBVIOUS
<1> QED BY <1>1, <1>2 DEF Started, Rx

LEMMA OnceMoreTyped == ASSUME NEW r \in Rx PROVE [r EXCEPT !.retrans = 0] \in Rx
BY DEF Rx

LEMMA RestTyped == ASSUME NEW n \in Int PROVE Rest(n) \in Seq(Message) /\ Len(Rest(n)) <= 1
<1> DEFINE m == [Control("rest") EXCEPT !.no = n]
<1>1. m \in Message
  BY ControlType DEF Message, Kinds
<1> HIDE DEF m
<1>2. <<>> \in Seq(Message) /\ <<m>> \in Seq(Message) /\ Len(<<>>) <= 1 /\ Len(<<m>>) <= 1
  BY <1>1
<1> QED BY <1>2 DEF Rest, m

LEMMA SizeTyped == ASSUME NEW m \in Message PROVE Size(m) \in Int
<1>1. BlockSize \in Nat
  BY XModemAssumption
<1> QED BY <1>1 DEF Size, Message

LEMMA RestOfLine ==
    ASSUME NEW line \in Seq(Message), NEW n \in Nat
    PROVE  SubSeq(line, n + 1, Len(line)) \in Seq(Message)
<1>1. \A i \in n + 1..Len(line) : line[i] \in Message
  OBVIOUS
<1> QED BY <1>1, SubSeqProperties

LEMMA BeheadTyped == ASSUME NEW line \in Seq(Message) PROVE Behead(line) \in Seq(Message)
<1>1. CASE line = <<>>
  BY <1>1 DEF Behead
<1>2. CASE line # <<>>
  <2>1. Head(line) \in Message /\ Tail(line) \in Seq(Message)
    BY <1>2
  <2>2. Size(Head(line)) - 1 \in Int
    BY <2>1, SizeTyped
  <2>3. Rest(Size(Head(line)) - 1) \in Seq(Message)
    BY <2>2, RestTyped
  <2> QED BY <1>2, <2>1, <2>3 DEF Behead
<1> QED BY <1>1, <1>2

LEMMA FlushTyped ==
    ASSUME NEW line \in Seq(Message), FlushInput(line)
    PROVE  down' \in Seq(Message)
<1>0. PICK n \in 0..Len(line) : \E left \in 0 .. (IF n = 0 THEN 0 ELSE Size(line[n]) - 1) :
        down' = Rest(left) \o SubSeq(line, n + 1, Len(line))
  BY DEF FlushInput
<1>1. PICK left \in 0 .. (IF n = 0 THEN 0 ELSE Size(line[n]) - 1) :
        down' = Rest(left) \o SubSeq(line, n + 1, Len(line))
  BY <1>0
<1>2. n \in Nat /\ left \in Int
  OBVIOUS
<1>3. Rest(left) \in Seq(Message)
  BY <1>2, RestTyped
<1>4. SubSeq(line, n + 1, Len(line)) \in Seq(Message)
  BY <1>2, RestOfLine
<1> HIDE DEF Rest
<1> QED BY <1>1, <1>3, <1>4, ConcatProperties

(* Of a rest's bytes one is read at a time; each is answered once, at most.  *)
Grows == Len(up') \in Nat /\ Len(up') >= Len(up)

LEMMA EndsGrows ==
    ASSUME Types, NEW r, NEW result, NEW answer \in Seq(Answers), ReceiverEnds(r, result, answer)
    PROVE  Grows /\ Len(up') = Len(up) + Len(answer)
<1>1. up \in Seq(Answers) /\ up' = up \o answer
  BY DEF Types, ReceiverEnds
<1>2. Len(up') = Len(up) + Len(answer)
  BY <1>1, ConcatProperties
<1>3. Len(up) \in Nat /\ Len(answer) \in Nat
  BY <1>1
<1> QED BY <1>2, <1>3 DEF Grows

LEMMA AskGrows == Types /\ AskAgain => Grows
<1> SUFFICES ASSUME Types, AskAgain PROVE Grows
  OBVIOUS
<1>1. up \in Seq(Answers) /\ rx.try \in Seq(Answers)
  <2>1. rx.try \in {<<>>, <<"C">>, <<"NAK">>}
    BY DEF Types, Rx
  <2>2. <<>> \in Seq(Answers) /\ <<"C">> \in Seq(Answers) /\ <<"NAK">> \in Seq(Answers)
    BY DEF Answers
  <2> QED BY <2>1, <2>2 DEF Types
<1>2. Len(up) \in Nat /\ Len(rx.try) \in Nat
  BY <1>1
<1>3. CASE up' = up \o rx.try
  <2>1. Len(up') = Len(up) + Len(rx.try)
    BY <1>1, <1>3, ConcatProperties
  <2> QED BY <2>1, <1>2 DEF Grows
<1>4. CASE up' = Append(up, "NAK")
  <2>1. Len(up') = Len(up) + 1
    BY <1>1, <1>4
  <2> QED BY <2>1, <1>2 DEF Grows
<1>5. CASE ReceiverEnds(rx, "sync", Cancel)
  BY <1>5, EndsGrows, CancelTyped
<1> QED BY <1>3, <1>4, <1>5 DEF AskAgain

LEMMA StraysGrow == Types /\ Receiver => strays' \in Nat /\ strays' >= strays
<1> SUFFICES ASSUME Types, Receiver PROVE strays' \in Nat /\ strays' >= strays
  OBVIOUS
<1>1. strays \in Nat /\ Len(up) \in Nat
  BY DEF Types
<1>2. CASE UNCHANGED strays
  BY <1>1, <1>2
<1>3. ASSUME Counted, Grows PROVE strays' \in Nat /\ strays' >= strays
  BY <1>1, <1>3 DEF Counted, Grows
<1>4. CASE RxCancel
  <2>1. Grows
    BY <1>4, AskGrows, EndsGrows, CancelTyped DEF RxCancel
  <2> QED BY <1>3, <1>4, <2>1 DEF RxCancel
<1>5. CASE RxOther
  BY <1>3, <1>5, AskGrows DEF RxOther
<1>6. CASE RxEnd
  <2>1. Grows
    BY <1>6, EndsGrows, CancelTyped DEF RxEnd
  <2> QED BY <1>3, <1>6, <2>1 DEF RxEnd
<1>7. CASE RxReject
  <2>1. up \in Seq(Answers) /\ up' = Append(up, "NAK")
    BY <1>7 DEF RxReject, Types
  <2>2. Grows
    BY <1>1, <2>1 DEF Grows
  <2> QED BY <1>3, <1>7, <2>2 DEF RxReject
<1> QED BY <1>2, <1>4, <1>5, <1>6, <1>7 DEF Receiver, RxTimeout, RxNew, RxLast

LEMMA TrimmedTyped == ASSUME NEW held \in Seq(Characters) PROVE Trimmed(held) \in Seq(Characters)
<1>1. PICK n \in 0..Len(held) : Trimmed(held) = SubSeq(held, 1, n)
  BY TrimmedIs
<1> QED BY <1>1

LEMMA WritesTyped ==
    ASSUME Types, NEW bytes \in Seq(Characters), Writes(bytes)
    PROVE  out' \in Seq(Characters) /\ free' \in Int
BY DEF Writes, Types

LEMMA ReceiverTypes == Types /\ Receiver => Types'
<1> SUFFICES ASSUME Types, Receiver PROVE Types'
  OBVIOUS
<1>1. /\ file \in Files /\ down \in Seq(Message) /\ up \in Seq(Answers) /\ tx \in Tx
      /\ (Sending <=> tx.at # "done")
      /\ rx \in Rx /\ out \in Seq(Characters) /\ free \in Int
      /\ UNCHANGED hits => HitsTyped
      /\ strays' \in Nat
      /\ <<>> \in Seq(Message)
  BY StraysGrow DEF Types, HitsTyped
<1>2. ASSUME ReceiverTyped, UNCHANGED <<file, tx>>, HitsTyped, down' \in Seq(Message),
             out' \in Seq(Characters), free' \in Int
      PROVE  Types'
  BY <1>1, <1>2 DEF ReceiverTyped, Types, HitsTyped, Sending
<1>3. CASE RxTimeout
  <2>1. UNCHANGED <<file, down, tx, out, free>> /\ HitsTyped /\ AskAgain
    BY <1>3, InTimeTyped DEF RxTimeout, InTime
  <2> QED BY <2>1, <1>1, <1>2, AskTyped
<1>4. CASE RxCancel
  <2>1. UNCHANGED <<file, tx, out, free, hits>>
    BY <1>4 DEF RxCancel
  <2>2. CASE ReceiverEnds(rx, "cancelled", <<"ACK">>) /\ FlushAll
    <3>1. ReceiverTyped
      BY <2>2, <1>1, ReceiverEndsTyped, CancelTyped DEF Results
    <3> QED BY <3>1, <2>1, <2>2, <1>1, <1>2 DEF FlushAll
  <2>3. CASE AskAgain /\ down' = Behead(Behead(down))
    BY <2>1, <2>3, <1>1, <1>2, AskTyped, BeheadTyped
  <2> QED BY <1>4, <2>2, <2>3 DEF RxCancel
<1>5. CASE RxOther
  BY <1>5, <1>1, <1>2, AskTyped, BeheadTyped DEF RxOther
<1>6. CASE RxEnd
  <2> DEFINE bytes == Trimmed(rx.held)
             room == rx.held = <<>> \/ Len(bytes) <= free
  <2>1. UNCHANGED <<file, tx, hits>> /\ FlushAll
    BY <1>6 DEF RxEnd
  <2>2. down' \in Seq(Message)
    BY <1>1, <2>1 DEF FlushAll
  <2>3. rx.held \in Seq(Characters) /\ bytes \in Seq(Characters)
    BY <1>1, TrimmedTyped DEF Rx
  <2>4. IF room
        THEN Writes(bytes) /\ ReceiverEnds([rx EXCEPT !.held = <<>>], "ok", <<"ACK">>)
        ELSE UNCHANGED <<out, free>> /\ ReceiverEnds(rx, "space", Cancel)
    BY <1>6 DEF RxEnd
  <2> HIDE DEF bytes, room
  <2>5. CASE room
    <3>1. [rx EXCEPT !.held = <<>>] \in Rx
      <4>1. <<>> \in Seq(Characters) OBVIOUS
      <4> QED BY <1>1, <4>1 DEF Rx
    <3>2. ReceiverTyped
      BY <2>4, <2>5, <3>1, ReceiverEndsTyped, CancelTyped DEF Results
    <3>3. out' \in Seq(Characters) /\ free' \in Int
      BY <2>3, <2>4, <2>5, WritesTyped
    <3> QED BY <3>2, <3>3, <2>1, <2>2, <1>1, <1>2
  <2>6. CASE ~room
    <3>1. ReceiverTyped
      BY <1>1, <2>4, <2>6, ReceiverEndsTyped, CancelTyped DEF Results
    <3> QED BY <3>1, <2>1, <2>2, <2>4, <2>6, <1>1, <1>2
  <2> QED BY <2>5, <2>6
<1>7. CASE RxNew
  <2> DEFINE p == Head(down)
             room == Len(Written(rx.held)) <= free
  <2>1. UNCHANGED <<file, tx, hits>> /\ down # <<>>
    BY <1>7 DEF RxNew, Incoming
  <2>2. p \in Message /\ Tail(down) \in Seq(Message)
    BY <2>1, TailsTyped
  <2>3. IF room
        THEN /\ Writes(Written(rx.held))
             /\ rx' = [Started EXCEPT !.held = p.data, !.no = (Started.no + 1) % Numbers, !.retrans = MaxRetrans]
             /\ up' = Append(up, "ACK") /\ down' = Tail(down)
        ELSE UNCHANGED <<out, free>> /\ ReceiverEnds(Started, "space", Cancel) /\ FlushAll
    BY <1>7 DEF RxNew
  <2> HIDE DEF p, room
  <2>4. Started \in Rx
    BY StartedTyped
  <2>5. CASE room
    <3>1. rx.held \in Seq(Characters)
      BY <1>1 DEF Rx
    <3>2. out' \in Seq(Characters) /\ free' \in Int
      BY <2>3, <2>5, <3>1, WritesTyped DEF Written
    <3>3. (Started.no + 1) % Numbers \in Nat /\ MaxRetrans \in Int /\ p.data \in Seq(Characters)
      <4>1. Started.no + 1 \in Nat BY <2>4 DEF Rx
      <4>2. Numbers \in Nat /\ MaxRetrans \in Int BY XModemAssumption
      <4>3. (Started.no + 1) % Numbers \in 0..Numbers - 1 BY <4>1, Remainder
      <4>4. p.data \in Seq(Characters) BY <2>2 DEF Message
      <4> QED BY <4>2, <4>3, <4>4
    <3>4. rx' \in Rx
      BY <2>3, <2>4, <2>5, <3>3 DEF Rx
    <3>5. ReceiverTyped
      <4>1. "ACK" \in Answers /\ up' = Append(up, "ACK")
        BY <2>3, <2>5 DEF Answers
      <4>2. up' \in Seq(Answers)
        BY <1>1, <4>1
      <4> QED BY <3>4, <4>2 DEF ReceiverTyped
    <3>6. down' \in Seq(Message)
      BY <2>2, <2>3, <2>5
    <3> QED BY <3>2, <3>5, <3>6, <2>1, <1>1, <1>2
  <2>6. CASE ~room
    <3>1. ReceiverTyped
      BY <2>3, <2>4, <2>6, ReceiverEndsTyped, CancelTyped DEF Results
    <3>2. down' \in Seq(Message)
      BY <1>1, <2>3, <2>6 DEF FlushAll
    <3> QED BY <3>1, <3>2, <2>1, <2>3, <2>6, <1>1, <1>2
  <2> QED BY <2>5, <2>6
<1>8. CASE RxLast
  <2>1. UNCHANGED <<file, tx, out, free, hits>> /\ down # <<>>
    BY <1>8 DEF RxLast, Incoming
  <2>2. Started \in Rx /\ rx.retrans - 1 \in Int
    BY <1>1, StartedTyped DEF Rx
  <2>3. CASE /\ rx' = [Started EXCEPT !.retrans = @ - 1]
             /\ up' = Append(up, "ACK") /\ down' = Tail(down)
    <3>1. Started.retrans - 1 \in Int
      BY <2>2 DEF Rx
    <3>2. rx' \in Rx
      BY <2>2, <2>3, <3>1 DEF Rx
    <3>3. ReceiverTyped
      BY <1>1, <2>3, <3>2 DEF ReceiverTyped, Answers
    <3> QED BY <3>3, <2>1, <2>3, <1>1, <1>2, TailsTyped
  <2>4. CASE ReceiverEnds([Started EXCEPT !.retrans = 0], "retries", Cancel) /\ FlushAll
    <3>1. [Started EXCEPT !.retrans = 0] \in Rx
      BY <2>2 DEF Rx
    <3>2. ReceiverTyped
      BY <2>4, <3>1, ReceiverEndsTyped, CancelTyped DEF Results
    <3> QED BY <3>2, <2>1, <2>4, <1>1, <1>2 DEF FlushAll
  <2> QED BY <1>8, <2>3, <2>4 DEF RxLast
<1>9. CASE RxReject
  <2>1. /\ UNCHANGED <<file, tx, out, free, hits>> /\ down # <<>>
        /\ FlushInput(Tail(down)) \/ FlushInput(Behead(down))
        /\ rx' = Started /\ up' = Append(up, "NAK")
    BY <1>9 DEF RxReject, Incoming
  <2>2. ReceiverTyped
    BY <1>1, <2>1, StartedTyped DEF ReceiverTyped, Answers
  <2>3. Tail(down) \in Seq(Message) /\ Behead(down) \in Seq(Message)
    BY <1>1, <2>1, BeheadTyped
  <2>4. down' \in Seq(Message)
    BY <2>1, <2>3, FlushTyped
  <2> QED BY <2>1, <2>2, <2>4, <1>1, <1>2
<1> QED BY <1>3, <1>4, <1>5, <1>6, <1>7, <1>8, <1>9 DEF Receiver

LEMMA LineTypes == Types /\ (Lose \/ Spoil) => Types'
<1> SUFFICES ASSUME Types, Lose \/ Spoil PROVE Types'
  OBVIOUS
<1>1. /\ file \in Files /\ down \in Seq(Message) /\ up \in Seq(Answers) /\ tx \in Tx
      /\ (Sending <=> tx.at # "done")
      /\ rx \in Rx /\ out \in Seq(Characters) /\ free \in Int
      /\ UNCHANGED <<file, tx, rx, out, free, strays>>
  BY DEF Types, Lose, Spoil
<1>2. ASSUME HitsTyped, down' \in Seq(Message), up' \in Seq(Answers)
      PROVE  Types'
  BY <1>1, <1>2 DEF Types, HitsTyped, Sending
<1>3. CASE down' = Tail(down) /\ down # <<>> /\ UNCHANGED up /\ HitsTyped
  BY <1>3, <1>1, <1>2
<1>4. CASE up # <<>> /\ up' = Tail(up) /\ Hit(Head(up)) /\ UNCHANGED down
  BY <1>4, <1>1, <1>2, HitTyped
<1>5. CASE down' = Behead(down) /\ UNCHANGED up /\ HitsTyped
  BY <1>5, <1>1, <1>2, BeheadTyped
<1>6. CASE /\ down # <<>> /\ UNCHANGED up /\ HitsTyped
           /\ \/ down' = <<Control("noise")>> \o Tail(down)
              \/ down' = [down EXCEPT ![1].ok = FALSE]
              \/ down' = Rest(Size(Head(down))) \o Tail(down)
  <2>1. down[1] \in Message /\ Head(down) \in Message /\ Tail(down) \in Seq(Message)
    BY <1>1, <1>6
  <2>2. <<Control("noise")>> \in Seq(Message)
    BY ControlType DEF Kinds
  <2>3. Rest(Size(Head(down))) \in Seq(Message)
    BY <2>1, SizeTyped, RestTyped
  <2>4. [down EXCEPT ![1].ok = FALSE] \in Seq(Message)
    <3> DEFINE m == [down[1] EXCEPT !.ok = FALSE]
    <3>1. m \in Message
      BY <2>1 DEF Message
    <3>2. [down EXCEPT ![1].ok = FALSE] = [down EXCEPT ![1] = m] /\ 1 \in 1..Len(down)
      BY <1>1, <1>6
    <3> HIDE DEF m
    <3> QED BY <3>1, <3>2, <1>1, ExceptSeq
  <2>5. down' \in Seq(Message)
    <3> DEFINE a == <<Control("noise")>>
               b == Rest(Size(Head(down)))
               c == Tail(down)
    <3>1. a \in Seq(Message) /\ b \in Seq(Message) /\ c \in Seq(Message)
      BY <2>1, <2>2, <2>3
    <3>2. down' = a \o c \/ down' = b \o c \/ down' = [down EXCEPT ![1].ok = FALSE]
      BY <1>6
    <3> HIDE DEF a, b, c
    <3>3. a \o c \in Seq(Message)
      BY <3>1, ConcatProperties
    <3>4. b \o c \in Seq(Message)
      BY <3>1, ConcatProperties
    <3> QED BY <3>2, <3>3, <3>4, <2>4, Zenon
  <2> QED BY <2>5, <1>1, <1>2, <1>6
<1>7. CASE up # <<>> /\ up' = [up EXCEPT ![1] = "noise"] /\ Hit(Head(up)) /\ UNCHANGED down
  <2>1. 1 \in 1..Len(up) /\ "noise" \in Answers
    BY <1>1, <1>7 DEF Answers
  <2>2. up' \in Seq(Answers)
    BY <2>1, <1>1, <1>7, ExceptSeq
  <2> QED BY <2>2, <1>7, <1>1, <1>2, HitTyped
<1>8. \A kind : Hit(kind) => HitsTyped
  BY HitTyped
<1> QED BY <1>3, <1>4, <1>5, <1>6, <1>7, <1>8 DEF Lose, Spoil

LEMMA TypesStep == Types /\ [Next]_vars => Types'
<1>1. Types /\ UNCHANGED vars => Types'
  BY DEF Types, vars, Sending
<1> QED BY <1>1, TransmitterTypes, ReceiverTypes, LineTypes DEF Next

-----------------------------------------------------------------------------
(* How blocks, packets and answers correspond after a step.                 *)

LEMMA ExtraIs == Types => Extra \in Nat
BY DEF Types, Extra

LEMMA ExtraIsThen == Types' => (Extra \in Nat)'
BY ExtraIs, PTL

LEMMA ExtraKept == UNCHANGED <<hits, strays>> => Extra' = Extra
BY DEF Extra, Were

(* An answer that no packet waits for is counted, never forgotten.           *)
LEMMA ExtraGrows ==
    ASSUME Types, NEW kind, Hit(kind), UNCHANGED strays
    PROVE  /\ Extra' \in Nat /\ Extra' >= Extra
           /\ kind = "late" => Extra' >= Extra + 1
<1> DEFINE n == Len(hits)
           h == Cause(kind)
<1>1. hits \in Seq(Causes) /\ h \in Causes /\ hits' = Append(hits, h) /\ strays \in Nat
  BY DEF Types, Cause, Causes, Hit
<1>2. kind = "late" => h = "late"
  BY DEF Cause
<1> HIDE DEF h
<1>3. /\ n \in Nat /\ Len(hits') = n + 1 /\ DOMAIN hits = 1..n /\ DOMAIN hits' = 1..n + 1
      /\ \A i \in 1..n : hits'[i] = hits[i]
      /\ hits'[n + 1] = h
  BY <1>1
<1>4. Were("late") => Were("late")'
  BY <1>3 DEF Were
<1>5. kind = "late" => Were("late")'
  <2>1. n + 1 \in 1..n + 1
    BY <1>3
  <2> QED BY <1>2, <1>3, <2>1 DEF Were
<1> HIDE DEF n
<1>6. /\ Extra = (IF Were("late") THEN n ELSE 0) + strays
      /\ Extra' = (IF Were("late")' THEN n + 1 ELSE 0) + strays
  BY <1>3 DEF Extra, n
<1> QED BY <1>1, <1>3, <1>4, <1>5, <1>6

LEMMA ExtraCounts ==
    ASSUME Types, Types', UNCHANGED hits
    PROVE  Extra' - Extra = strays' - strays
<1>1. strays \in Nat /\ strays' \in Nat /\ Len(hits) \in Nat
  BY DEF Types
<1> QED BY <1>1 DEF Extra, Were

LEMMA ExtraGrowsWith == Types /\ Types' /\ UNCHANGED hits /\ strays' >= strays => Extra' >= Extra
<1> SUFFICES ASSUME Types, Types', UNCHANGED hits, strays' >= strays PROVE Extra' >= Extra
  OBVIOUS
<1>1. strays \in Nat /\ strays' \in Nat /\ Extra \in Nat /\ Extra' \in Nat
  BY ExtraIs, ExtraIsThen DEF Types
<1> QED BY <1>1, ExtraCounts

LEMMA SameBlock == ASSUME UNCHANGED file, NEW j PROVE Block(j)' = Block(j)
BY DEF Block

(* The sender has sent the messages l, for the t-th block; the messages that *)
(* are on the way if it goes on.                                             *)
Sends(l, t) ==
    /\ l \in Seq(Message) /\ down' = down \o l
    /\ Sending' => Sending /\ Len(l) <= 1
    /\ \A i \in 1..Len(l) :
         /\ l[i].kind = "packet" =>
              l[i].no = Number(t) /\ l[i].data = Block(t) /\ Start(t) < Len(file)
         /\ l[i].kind = "EOT" => Len(file) <= Start(t)

SenderTurn(s, k, t) ==
    Sending' =>
      /\ Len(up') + Len(down) <= Extra'
      /\ down = <<>> \/ t + Len(up') + Extra <= s + Len(up) + Extra'
      /\ \A i \in 1..Len(up') : up'[i] = "ACK" => t + i <= k + Extra'

LEMMA SenderMatches ==
    ASSUME Types, Types',
           NEW s \in Nat, NEW k \in Nat, NEW J \in [1..Len(down) -> Nat], Matched(s, k, J),
           NEW t \in {s, s + 1}, SenderAt(t)', t <= k + Extra',
           NEW l, Sends(l, t), SenderTurn(s, k, t),
           UNCHANGED <<file, rx, out>>, Extra' >= Extra
    PROVE  \E K \in [1..Len(down') -> Nat] : Matched(t, k, K)'
<1> DEFINE d == Len(down)
           n == Len(l)
<1>1. /\ d \in Nat /\ n \in Nat /\ t \in Nat /\ s <= t
      /\ Extra \in Nat /\ Extra' \in Nat /\ Extra <= Extra'
  <2>1. down \in Seq(Message) /\ l \in Seq(Message) BY DEF Types, Sends
  <2>2. Extra' \in Nat
    BY ExtraIsThen
  <2> QED BY <2>1, <2>2, ExtraIs
<1>0. PICK x \in Nat, y \in Nat : Extra = x /\ Extra' = y /\ x <= y
  BY <1>1
<1>2. /\ Len(down') = d + n
      /\ \A i \in 1..d : down'[i] = down[i]
      /\ \A i \in d + 1..d + n : i - d \in 1..n /\ down'[i] = l[i - d]
  <2>1. down \in Seq(Message) /\ l \in Seq(Message) /\ down' = down \o l
    BY DEF Types, Sends
  <2>2. /\ Len(down \o l) = Len(down) + Len(l)
        /\ \A i \in 1..Len(down) + Len(l) :
             (down \o l)[i] = IF i <= Len(down) THEN down[i] ELSE l[i - Len(down)]
    BY <2>1, ConcatProperties
  <2>3. \A i \in 1..d + n : down'[i] = IF i <= d THEN down[i] ELSE l[i - d]
    BY <2>1, <2>2
  <2>4. Len(down') = d + n
    BY <2>1, <2>2
  <2> HIDE DEF d, n
  <2>5. \A i \in 1..d : i \in 1..d + n /\ i <= d
    BY <1>1
  <2>6. \A i \in d + 1..d + n : i \in 1..d + n /\ ~(i <= d) /\ i - d \in 1..n
    BY <1>1
  <2> QED BY <2>3, <2>4, <2>5, <2>6
<1>3. d = 0 <=> down = <<>>
  BY DEF Types
<1> HIDE DEF d, n
<1>4. PICK K \in [1..d + n -> Nat] :
        /\ \A i \in 1..d : K[i] = J[i] /\ J[i] \in Nat
        /\ \A i \in d + 1..d + n : K[i] = t
  <2> DEFINE G == [i \in 1..d + n |-> IF i <= d THEN J[i] ELSE t]
  <2>1. \A i \in 1..d : J[i] \in Nat
    BY DEF d
  <2>2. \A i \in 1..d + n : i <= d => i \in 1..d
    BY <1>1
  <2>3. \A i \in d + 1..d + n : i \in 1..d + n /\ ~(i <= d)
    BY <1>1
  <2>4. \A i \in 1..d : i \in 1..d + n /\ i <= d
    BY <1>1
  <2>5. G \in [1..d + n -> Nat]
    BY <1>1, <2>1, <2>2
  <2>6. \A i \in 1..d : G[i] = J[i] /\ J[i] \in Nat
    BY <2>1, <2>4
  <2>7. \A i \in d + 1..d + n : G[i] = t
    BY <2>3
  <2> HIDE DEF G
  <2> QED BY <2>5, <2>6, <2>7
<1>5. /\ ReceiverAt(k) /\ Apart(s, k) /\ Packets(s, k, J) /\ EndSent(s)
      /\ Sending => InTurn(s, k, J)
  BY DEF Matched
<1>6. ReceiverAt(k)'
  <2>1. Block(k - 1)' = Block(k - 1) BY SameBlock
  <2> QED BY <1>5, <2>1 DEF ReceiverAt
<1>7. Apart(t, k)'
  <2>1. k <= s + 1 BY <1>5 DEF Apart
  <2>2. k <= t + 1 BY <2>1, <1>1
  <2> QED BY <2>2 DEF Apart
<1>8. Packets(t, k, K)'
  <2>1. ASSUME NEW i \in 1..d, down[i].kind = "packet"
        PROVE  /\ down[i].no = Number(J[i]) /\ down[i].data = Block(J[i])
               /\ Start(J[i]) < Len(file) /\ k <= J[i] + 1 /\ J[i] <= s
               /\ \A h \in 1..i : down[h].kind = "packet" => J[h] <= J[i]
    BY <1>5, <2>1 DEF Packets, d
  <2>2. ASSUME NEW i \in 1..d + n, down'[i].kind = "packet"
        PROVE  /\ down'[i].no = Number(K[i]) /\ down'[i].data = Block(K[i])
               /\ Start(K[i]) < Len(file) /\ k <= K[i] + 1 /\ K[i] <= t
               /\ \A h \in 1..i : down'[h].kind = "packet" => K[h] <= K[i]
    <3>1. CASE i \in 1..d
      <4>1. down'[i] = down[i] /\ K[i] = J[i] /\ J[i] \in Nat
        BY <3>1, <1>2, <1>4
      <4>2. \A h \in 1..i : down'[h] = down[h] /\ K[h] = J[h]
        <5>1. \A h \in 1..i : h \in 1..d BY <3>1, <1>1
        <5> QED BY <5>1, <1>2, <1>4
      <4>3. K[i] <= t
        <5>1. J[i] <= s BY <2>1, <2>2, <3>1, <4>1
        <5> QED BY <5>1, <4>1, <1>1
      <4> QED BY <2>1, <2>2, <3>1, <4>1, <4>2, <4>3
    <3>2. CASE i \in d + 1..d + n
      <4>1. K[i] = t /\ i - d \in 1..n /\ down'[i] = l[i - d]
        BY <3>2, <1>2, <1>4
      <4>2. down'[i].no = Number(t) /\ down'[i].data = Block(t) /\ Start(t) < Len(file)
        BY <2>2, <4>1 DEF n, Sends
      <4>3. k <= t + 1
        BY <1>5, <1>1 DEF Apart
      <4>4. ASSUME NEW h \in 1..i, down'[h].kind = "packet" PROVE K[h] <= t
        <5>1. CASE h \in 1..d
          <6>1. K[h] = J[h] /\ J[h] \in Nat /\ J[h] <= s
            BY <5>1, <4>4, <2>1, <1>2, <1>4
          <6> QED BY <6>1, <1>1
        <5>2. CASE h \in d + 1..d + n
          BY <5>2, <1>1, <1>4
        <5>3. h \in 1..d \/ h \in d + 1..d + n
          BY <1>1
        <5> QED BY <5>1, <5>2, <5>3
      <4> QED BY <4>1, <4>2, <4>3, <4>4, <1>1
    <3>3. i \in 1..d \/ i \in d + 1..d + n
      BY <1>1
    <3> QED BY <3>1, <3>2, <3>3
  <2>3. \A i \in 1..d + n : Block(K[i])' = Block(K[i])
    BY SameBlock
  <2> QED BY <1>2, <1>4, <2>2, <2>3 DEF Packets
<1>9. EndSent(t)'
  <2>1. ASSUME NEW i \in 1..d + n, down'[i].kind = "EOT" PROVE Len(file) <= Start(t)
    <3>1. CASE i \in 1..d
      <4>1. Len(file) <= Start(s)
        BY <3>1, <2>1, <1>2, <1>5 DEF EndSent, d
      <4>2. Start(s) <= Start(t) /\ Start(s) \in Nat /\ Start(t) \in Nat
        BY <1>1, Starts
      <4>3. Len(file) \in Nat
        BY FileIs DEF Types
      <4> QED BY <4>1, <4>2, <4>3
    <3>2. CASE i \in d + 1..d + n
      BY <3>2, <2>1, <1>2 DEF n, Sends
    <3>3. i \in 1..d \/ i \in d + 1..d + n
      BY <1>1
    <3> QED BY <3>1, <3>2, <3>3
  <2> QED BY <1>2, <2>1 DEF EndSent
<1>10. ASSUME Sending' PROVE InTurn(t, k, K)'
  <2> DEFINE u == Len(up)
             v == Len(up')
  <2>1. u \in Nat /\ v \in Nat
    BY DEF Types
  <2>2. /\ n <= 1 /\ v + d <= y
        /\ d = 0 \/ t + v + x <= s + u + y
        /\ \A i \in 1..v : up'[i] = "ACK" => t + i <= k + y
    BY <1>0, <1>3, <1>10 DEF d, n, Sends, SenderTurn
  <2>3. \A i \in 1..d : down[i].kind = "packet" => s + u + i <= J[i] + 1 + x
    BY <1>0, <1>5, <1>10 DEF InTurn, d, Sends
  <2> HIDE DEF u, v
  <2>4. ASSUME NEW i \in 1..d + n, down'[i].kind = "packet" PROVE t + v + i <= K[i] + 1 + y
    <3>1. CASE i \in 1..d
      <4>1. PICK m \in Nat : J[i] = m /\ K[i] = m
        BY <3>1, <1>4
      <4>2. s + u + i <= J[i] + 1 + x
        BY <3>1, <2>3, <2>4, <1>2
      <4>3. s + u + i <= m + 1 + x /\ d # 0
        BY <3>1, <4>1, <4>2, <1>1
      <4>4. t + v + i <= m + 1 + y
        BY <4>3, <2>1, <2>2, <1>1
      <4> QED BY <4>1, <4>4
    <3>2. CASE i \in d + 1..d + n
      <4>1. i = d + 1 /\ K[i] = t
        BY <3>2, <2>2, <1>1, <1>4
      <4> QED BY <4>1, <2>1, <2>2, <1>1
    <3>3. i \in 1..d \/ i \in d + 1..d + n
      BY <1>1
    <3> QED BY <3>1, <3>2, <3>3
  <2>5. v + (d + n) <= 1 + y
    BY <2>1, <2>2, <1>1
  <2> QED BY <2>2, <2>4, <2>5, <1>0, <1>2 DEF InTurn, v
<1>11. Matched(t, k, K)'
  BY <1>6, <1>7, <1>8, <1>9, <1>10 DEF Matched
<1>12. K \in [1..Len(down') -> Nat]
  BY <1>2
<1> QED BY <1>11, <1>12

(* Of the messages to the receiver the first n are gone; those that are on   *)
(* the way if the sender goes on, when the receiver has the first q blocks.  *)
Leaves(l, r, n) ==
    /\ n \in 0..Len(l) /\ Len(r) = Len(l) - n
    /\ \A i \in 1..Len(r) :
         /\ r[i].kind = "packet" => /\ l[i + n].kind = "packet"
                                   /\ r[i].no = l[i + n].no
                                   /\ r[i].data = l[i + n].data
         /\ r[i].kind = "EOT" => l[i + n].kind = "EOT"

Passes(n) == Leaves(down, down', n)

Ahead(q, n, J) == \A i \in n + 1..Len(down) : down[i].kind = "packet" => q <= J[i] + 1

ReceiverTurn(s, q, n) ==
    Sending => /\ Len(up') + Len(down') <= 1 + Extra'
               /\ down' = <<>> \/ Len(up') + Extra <= Len(up) + n + Extra'
               /\ \A i \in 1..Len(up') : up'[i] = "ACK" => s + i <= q + Extra'

LEMMA ReceiverMatches ==
    ASSUME Types, Types',
           NEW s \in Nat, NEW k \in Nat, NEW J \in [1..Len(down) -> Nat], Matched(s, k, J),
           NEW q \in {k, k + 1}, ReceiverAt(q)', q <= s + 1,
           NEW n, Passes(n), Ahead(q, n, J), ReceiverTurn(s, q, n),
           UNCHANGED <<file, tx>>, Extra' >= Extra
    PROVE  \E K \in [1..Len(down') -> Nat] : Matched(s, q, K)'
<1> DEFINE d == Len(down)
           c == Len(down')
<1>1. /\ d \in Nat /\ n \in Nat /\ c \in Nat /\ n + c = d /\ k <= q /\ q \in Nat
      /\ Extra \in Nat /\ Extra' \in Nat /\ Extra <= Extra'
  <2>1. down \in Seq(Message) /\ down' \in Seq(Message) BY DEF Types
  <2>2. Extra' \in Nat
    BY ExtraIsThen
  <2>3. n \in 0..Len(down) /\ Len(down') = Len(down) - n BY DEF Passes, Leaves
  <2> QED BY <2>1, <2>2, <2>3, ExtraIs
<1>0. PICK x \in Nat, y \in Nat : Extra = x /\ Extra' = y /\ x <= y
  BY <1>1
<1>2. c = 0 <=> down' = <<>>
  BY DEF Types
<1> HIDE DEF c
<1>3. PICK K \in [1..c -> Nat] :
        \A i \in 1..c : i + n \in n + 1..d /\ i + n \in 1..d /\ J[i + n] \in Nat /\ K[i] = J[i + n]
  <2> DEFINE G == [i \in 1..c |-> J[i + n]]
  <2>1. \A i \in 1..c : i + n \in n + 1..d /\ i + n \in 1..d
    BY <1>1
  <2>2. \A i \in 1..c : J[i + n] \in Nat
    BY <2>1
  <2>3. G \in [1..c -> Nat] /\ \A i \in 1..c : G[i] = J[i + n]
    BY <2>2
  <2> HIDE DEF G
  <2> QED BY <2>1, <2>2, <2>3
<1>4. \A i \in 1..c : /\ down'[i].kind = "packet" => /\ down[i + n].kind = "packet"
                                                     /\ down'[i].no = down[i + n].no
                                                     /\ down'[i].data = down[i + n].data
                      /\ down'[i].kind = "EOT" => down[i + n].kind = "EOT"
  BY DEF c, Passes, Leaves
<1> HIDE DEF d
<1>5. /\ SenderAt(s) /\ Apart(s, k) /\ Packets(s, k, J) /\ EndSent(s)
      /\ Sending => InTurn(s, k, J)
  BY DEF Matched
<1>6. SenderAt(s)'
  BY <1>5 DEF SenderAt
<1>7. Apart(s, q)'
  <2>1. s <= k + x BY <1>0, <1>5 DEF Apart
  <2>2. s <= q + y BY <2>1, <1>1, <1>0
  <2> QED BY <2>2, <1>0 DEF Apart
<1>8. Packets(s, q, K)'
  <2>1. ASSUME NEW i \in 1..d, down[i].kind = "packet"
        PROVE  /\ down[i].no = Number(J[i]) /\ down[i].data = Block(J[i])
               /\ Start(J[i]) < Len(file) /\ J[i] <= s
               /\ \A h \in 1..i : down[h].kind = "packet" => J[h] <= J[i]
    BY <1>5, <2>1 DEF Packets, d
  <2>2. ASSUME NEW i \in 1..c, down'[i].kind = "packet"
        PROVE  /\ down'[i].no = Number(K[i]) /\ down'[i].data = Block(K[i])
               /\ Start(K[i]) < Len(file) /\ q <= K[i] + 1 /\ K[i] <= s
               /\ \A h \in 1..i : down'[h].kind = "packet" => K[h] <= K[i]
    <3> DEFINE j == i + n
    <3>1. /\ j \in n + 1..d /\ j \in 1..d /\ K[i] = J[j] /\ down[j].kind = "packet"
          /\ down'[i].no = down[j].no /\ down'[i].data = down[j].data
      BY <2>2, <1>3, <1>4
    <3>2. \A h \in 1..i : h \in 1..c /\ h + n \in 1..j
      BY <1>1
    <3> HIDE DEF j
    <3>3. q <= J[j] + 1
      BY <3>1 DEF d, Ahead
    <3>4. ASSUME NEW h \in 1..i, down'[h].kind = "packet" PROVE K[h] <= K[i]
      <4>1. down[h + n].kind = "packet" /\ K[h] = J[h + n] /\ h + n \in 1..j
        BY <3>2, <3>4, <1>3, <1>4
      <4> QED BY <4>1, <3>1, <2>1
    <3> QED BY <2>1, <3>1, <3>3, <3>4
  <2>3. \A i \in 1..c : Block(K[i])' = Block(K[i])
    BY SameBlock
  <2> QED BY <1>3, <2>2, <2>3 DEF Packets, c
<1>9. EndSent(s)'
  <2>1. ASSUME NEW i \in 1..c, down'[i].kind = "EOT" PROVE Len(file) <= Start(s)
    BY <2>1, <1>3, <1>4, <1>5 DEF EndSent, d
  <2> QED BY <2>1 DEF EndSent, c
<1>10. ASSUME Sending' PROVE InTurn(s, q, K)'
  <2> DEFINE u == Len(up)
             v == Len(up')
  <2>1. u \in Nat /\ v \in Nat
    BY DEF Types
  <2>2. Sending
    BY <1>10 DEF Sending
  <2>3. /\ v + c <= 1 + y
        /\ c = 0 \/ v + x <= u + n + y
        /\ \A i \in 1..v : up'[i] = "ACK" => s + i <= q + y
    BY <1>0, <1>2, <2>2 DEF c, ReceiverTurn
  <2>4. \A i \in 1..d : down[i].kind = "packet" => s + u + i <= J[i] + 1 + x
    BY <1>0, <1>5, <2>2 DEF InTurn, d
  <2> HIDE DEF u, v
  <2>5. ASSUME NEW i \in 1..c, down'[i].kind = "packet" PROVE s + v + i <= K[i] + 1 + y
    <3> DEFINE j == i + n
    <3>1. j \in 1..d /\ K[i] = J[j] /\ down[j].kind = "packet" /\ J[j] \in Nat
      BY <2>5, <1>3, <1>4
    <3>2. s + u + j <= J[j] + 1 + x
      BY <3>1, <2>4
    <3>3. v + x <= u + n + y
      BY <1>1, <2>3
    <3>4. s + v + i + x <= s + u + j + y
      BY <3>3, <2>1, <1>1
    <3> HIDE DEF j
    <3>5. PICK m \in Nat : J[j] = m /\ K[i] = m
      BY <3>1
    <3>6. j \in Nat
      BY <3>1, <1>1
    <3>7. s + u + j <= m + 1 + x
      BY <3>2, <3>5
    <3>8. s + v + i <= m + 1 + y
      BY <3>4, <3>6, <3>7, <2>1, <1>1
    <3> QED BY <3>5, <3>8
  <2> QED BY <2>3, <2>5, <1>0 DEF InTurn, v, c
<1>11. Matched(s, q, K)'
  BY <1>6, <1>7, <1>8, <1>9, <1>10, <1>2 DEF Matched
<1>12. ReceiverAt(q)'
  OBVIOUS
<1> QED BY <1>3, <1>11 DEF c

(* A message that is no packet and no end of the file may always be sent.    *)
LEMMA ControlIs ==
    ASSUME NEW kind \in Kinds
    PROVE  Control(kind) \in Message /\ Control(kind).kind = kind
<1>1. Control(kind).kind = kind
  BY DEF Control
<1> QED BY <1>1, ControlType

LEMMA EndsSends ==
    ASSUME Types, NEW s \in Nat, SenderAt(s), UNCHANGED file,
           NEW result \in Results, result # "none", SenderEnds(result)
    PROVE  SenderAt(s)' /\ ~Sending'
<1>1. tx' = [tx EXCEPT !.at = "done", !.result = result] /\ tx \in Tx
  BY DEF SenderEnds, Types
<1>2. tx'.at = "done" /\ tx'.result = result /\ tx'.pos = tx.pos /\ tx'.no = tx.no
  BY <1>1 DEF Tx
<1> QED BY <1>2 DEF SenderAt, Sending

LEMMA GoesOnSends ==
    ASSUME Types, NEW s \in Nat, SenderAt(s), UNCHANGED file, NEW n, tx' = [tx EXCEPT !.retry = n]
    PROVE  SenderAt(s)'
<1>1. tx'.at = tx.at /\ tx'.pos = tx.pos /\ tx'.no = tx.no
  BY DEF Types, Tx
<1> QED BY <1>1 DEF SenderAt

LEMMA SendsNothing ==
    ASSUME Types, NEW t, Sending, UNCHANGED down
    PROVE  Sends(<<>>, t)
<1>1. <<>> \in Seq(Message) /\ Len(<<>>) = 0 /\ down = down \o <<>>
  BY DEF Types
<1>2. \A i \in 1..Len(<<>>) : FALSE
  BY <1>1
<1> QED BY <1>1, <1>2 DEF Sends

LEMMA SendsOne ==
    ASSUME Types, NEW t, Sending, NEW m \in Message, down' = Append(down, m),
           m.kind = "packet" => m.no = Number(t) /\ m.data = Block(t) /\ Start(t) < Len(file),
           m.kind = "EOT" => Len(file) <= Start(t)
    PROVE  Sends(<<m>>, t)
<1>1. <<m>> \in Seq(Message) /\ Len(<<m>>) = 1 /\ \A i \in 1..1 : <<m>>[i] = m
  OBVIOUS
<1>2. down' = down \o <<m>>
  BY AppendIsConcat DEF Types
<1> QED BY <1>1, <1>2 DEF Sends

LEMMA SendsCans ==
    ASSUME Types, NEW t, ~Sending', down' = down \o [i \in 1 .. 3 |-> Control("CAN")]
    PROVE  Sends([i \in 1 .. 3 |-> Control("CAN")], t)
<1> DEFINE c == Control("CAN")
           l == [i \in 1..3 |-> c]
<1>1. c \in Message /\ c.kind = "CAN"
  BY ControlIs DEF Kinds
<1> HIDE DEF c
<1>2. l \in Seq(Message) /\ Len(l) = 3 /\ \A i \in 1..3 : l[i] = c
  BY <1>1
<1> HIDE DEF l
<1>3. down' = down \o l
  BY DEF l, c
<1>4. \A i \in 1..Len(l) : l[i].kind = "CAN"
  BY <1>1, <1>2
<1>5. Sends(l, t)
  BY <1>2, <1>3, <1>4 DEF Sends
<1> QED BY <1>5 DEF l, c

Follows(s) == SenderAt(s)' /\ \E l : Sends(l, s)

LEMMA SyncSends ==
    ASSUME Types, NEW s \in Nat, SenderAt(s), UNCHANGED file, Sending, SyncAgain
    PROVE  Follows(s)
<1>1. CASE tx' = [tx EXCEPT !.retry = @ + 1] /\ UNCHANGED down
  BY <1>1, GoesOnSends, SendsNothing DEF Follows
<1>2. CASE SenderEnds("sync") /\ down' = down \o [i \in 1 .. 3 |-> Control("CAN")]
  <2>1. SenderAt(s)' /\ ~Sending'
    BY <1>2, EndsSends DEF Results
  <2>2. Sends([i \in 1 .. 3 |-> Control("CAN")], s)
    BY <1>2, <2>1, SendsCans
  <2> QED BY <2>1, <2>2 DEF Follows
<1> QED BY <1>1, <1>2 DEF SyncAgain

LEMMA SendSends ==
    ASSUME Types, NEW s \in Nat, SenderAt(s), UNCHANGED file, tx.at = "sent", Sending, SendAgain
    PROVE  Follows(s)
<1>1. CASE tx' = [tx EXCEPT !.retry = @ + 1] /\ down' = Append(down, Packet(tx))
  <2>1. SenderAt(s)'
    BY <1>1, GoesOnSends
  <2>2. /\ Packet(tx) \in Message /\ Start(s) < Len(file)
        /\ Packet(tx) = [kind |-> "packet", no |-> tx.no, data |-> Block(s), crc |-> tx.crc, ok |-> TRUE]
    BY PacketType, PacketIs DEF Types, SenderAt
  <2>3. Packet(tx).kind = "packet" /\ Packet(tx).no = Number(s) /\ Packet(tx).data = Block(s)
    BY <2>2 DEF SenderAt
  <2>4. Sends(<<Packet(tx)>>, s)
    BY <1>1, <2>2, <2>3, SendsOne
  <2> QED BY <2>1, <2>4 DEF Follows
<1>2. CASE SenderEnds("retries") /\ down' = down \o [i \in 1 .. 3 |-> Control("CAN")]
  <2>1. SenderAt(s)' /\ ~Sending'
    BY <1>2, EndsSends DEF Results
  <2>2. Sends([i \in 1 .. 3 |-> Control("CAN")], s)
    BY <1>2, <2>1, SendsCans
  <2> QED BY <2>1, <2>2 DEF Follows
<1> QED BY <1>1, <1>2 DEF SendAgain

LEMMA EndSends ==
    ASSUME Types, NEW s \in Nat, SenderAt(s), UNCHANGED file, tx.at = "end", Sending, EndAgain
    PROVE  Follows(s)
<1>1. CASE tx' = [tx EXCEPT !.retry = @ + 1] /\ down' = Append(down, Control("EOT"))
  <2>1. SenderAt(s)'
    BY <1>1, GoesOnSends
  <2>2. Control("EOT") \in Message /\ Control("EOT").kind = "EOT" /\ Len(file) <= Start(s)
    BY ControlIs DEF SenderAt, Kinds
  <2>3. Sends(<<Control("EOT")>>, s)
    BY <1>1, <2>2, SendsOne
  <2> QED BY <2>1, <2>3 DEF Follows
<1>2. CASE SenderEnds("unanswered") /\ UNCHANGED down
  <2>1. SenderAt(s)' /\ ~Sending'
    BY <1>2, EndsSends DEF Results
  <2> QED BY <1>2, <2>1, SendsNothing DEF Follows
<1> QED BY <1>1, <1>2 DEF EndAgain

LEMMA TransmitSends ==
    ASSUME Types, NEW s \in Nat, UNCHANGED file, Sending, NEW t \in Tx, t.result = "none",
           t.pos = Start(s), t.no = Number(s), Transmit(t)
    PROVE  Follows(s)
<1>1. Start(s) \in Nat /\ Len(file) \in Nat
  BY Starts, FileIs DEF Types
<1>2. CASE t.pos < Len(file)
  <2>1. tx' = [t EXCEPT !.at = "sent", !.retry = 0] /\ down' = Append(down, Packet(t))
    BY <1>2 DEF Transmit
  <2>2. tx'.at = "sent" /\ tx'.pos = t.pos /\ tx'.no = t.no
    BY <2>1 DEF Tx
  <2>3. SenderAt(s)'
    BY <2>2, <1>2 DEF SenderAt
  <2>4. /\ Packet(t) \in Message
        /\ Packet(t) = [kind |-> "packet", no |-> t.no, data |-> Block(s), crc |-> t.crc, ok |-> TRUE]
    BY <1>2, PacketType, PacketIs DEF Types
  <2>5. Packet(t).kind = "packet" /\ Packet(t).no = Number(s) /\ Packet(t).data = Block(s)
    BY <2>4
  <2>6. Sends(<<Packet(t)>>, s)
    BY <1>2, <2>1, <2>4, <2>5, SendsOne
  <2> QED BY <2>3, <2>6 DEF Follows
<1>3. CASE ~(t.pos < Len(file))
  <2>1. tx' = [t EXCEPT !.at = "end", !.retry = 0] /\ down' = Append(down, Control("EOT"))
    BY <1>3 DEF Transmit
  <2>2. tx'.at = "end" /\ tx'.pos = t.pos /\ tx'.no = t.no
    BY <2>1 DEF Tx
  <2>3. Len(file) <= Start(s)
    BY <1>1, <1>3
  <2>4. SenderAt(s)'
    BY <2>2, <2>3 DEF SenderAt
  <2>5. Control("EOT") \in Message /\ Control("EOT").kind = "EOT"
    BY ControlIs DEF Kinds
  <2>6. Sends(<<Control("EOT")>>, s)
    BY <2>1, <2>3, <2>5, SendsOne
  <2> QED BY <2>4, <2>6 DEF Follows
<1> QED BY <1>2, <1>3

(* The sender has taken an answer, an acknowledgement if it goes on to the   *)
(* next block.                                                               *)
LEMMA SenderTakes ==
    ASSUME Types, Types', NEW s \in Nat, NEW k \in Nat, NEW J \in [1..Len(down) -> Nat],
           Matched(s, k, J), Sending, up # <<>>, NEW m \in {1, 2}, up' = SubSeq(up, m + 1, Len(up)),
           UNCHANGED <<hits, strays>>, NEW t \in {s, s + 1}, t # s => Head(up) = "ACK"
    PROVE  SenderTurn(s, k, t) /\ t <= k + Extra'
<1>1. PICK x \in Nat : Extra = x /\ Extra' = x
  BY ExtraIs, ExtraKept
<1> DEFINE u == Len(up)
           v == Len(up')
           d == Len(down)
<1>2. /\ u \in Nat \ {0} /\ v \in Nat /\ d \in Nat
      /\ v = IF m <= u THEN u - m ELSE 0
      /\ \A i \in 1..v : up'[i] = up[i + m]
  <2>1. up \in Seq(Answers) /\ down \in Seq(Message)
    BY DEF Types
  <2>2. \A i \in m + 1..Len(up) : up[i] \in Answers
    BY <2>1
  <2>3. /\ Len(up') = IF m + 1 <= Len(up) THEN Len(up) - (m + 1) + 1 ELSE 0
        /\ \A i \in 1..Len(up) - (m + 1) + 1 : up'[i] = up[m + 1 + i - 1]
    BY <2>1, <2>2, SubSeqProperties
  <2>4. u \in Nat \ {0} /\ d \in Nat
    BY <2>1
  <2> HIDE DEF u, d
  <2>5. v = IF m <= u THEN u - m ELSE 0
    BY <2>3, <2>4 DEF u
  <2>6. \A i \in 1..v : i \in 1..u - (m + 1) + 1 /\ m + 1 + i - 1 = i + m
    BY <2>4, <2>5
  <2>7. \A i \in 1..v : up'[i] = up[i + m]
    BY <2>3, <2>6 DEF u
  <2> QED BY <2>4, <2>5, <2>7
<1>3. /\ u + d <= 1 + x /\ s <= k + x
      /\ \A i \in 1..u : up[i] = "ACK" => s + i <= k + x
  BY <1>1 DEF Matched, InTurn, Apart
<1>4. Head(up) = up[1]
  BY DEF Types
<1> HIDE DEF u, v, d
<1>5. t <= k + x
  <2>1. CASE t = s
    BY <2>1, <1>3
  <2>2. CASE t # s
    <3>1. 1 \in 1..u /\ up[1] = "ACK"
      BY <2>2, <1>2, <1>4
    <3> QED BY <3>1, <1>3
  <2> QED BY <2>1, <2>2
<1>6. v + d <= x /\ v + 1 <= u
  BY <1>2, <1>3
<1>7. t + v + x <= s + u + x
  BY <1>2, <1>6
<1>8. ASSUME NEW i \in 1..v, up'[i] = "ACK" PROVE t + i <= k + x
  <2>1. i + m \in 1..u
    <3>1. v = u - m /\ m <= u BY <1>2, <1>8
    <3> QED BY <3>1, <1>2
  <2>3. up[i + m] = "ACK"
    BY <1>2, <1>8
  <2>2. s + (i + m) <= k + x
    BY <2>1, <2>3, <1>3
  <2> QED BY <2>2, <1>2
<1>9. SenderTurn(s, k, t)
  BY <1>1, <1>6, <1>7, <1>8 DEF SenderTurn, u, v, d
<1> QED BY <1>1, <1>5, <1>9

(* The sender has waited long enough, or too short.                          *)
LEMMA SenderWaited ==
    ASSUME Types, Types', NEW s \in Nat, NEW k \in Nat, NEW J \in [1..Len(down) -> Nat],
           Matched(s, k, J), Sending, Listening, UNCHANGED <<up, strays>>, InTime(SenderWaits)
    PROVE  SenderTurn(s, k, s) /\ s <= k + Extra' /\ Extra' >= Extra
<1> DEFINE u == Len(up)
           d == Len(down)
<1>1. u \in Nat /\ d \in Nat
  BY DEF Types
<1>2. PICK x \in Nat : Extra = x
  BY ExtraIs
<1>3. /\ u + d <= 1 + x /\ s <= k + x
      /\ \A i \in 1..u : up[i] = "ACK" => s + i <= k + x
  BY <1>2 DEF Matched, InTurn, Apart
<1>4. CASE SenderWaits /\ UNCHANGED hits
  <2>1. up = <<>> /\ down = <<>> /\ Len(up') = 0 /\ Len(down) = 0
    BY <1>4 DEF SenderWaits
  <2>2. Extra' = x
    BY <1>2, <1>4, ExtraKept
  <2>3. SenderTurn(s, k, s)
    BY <2>1, <2>2 DEF SenderTurn
  <2> QED BY <1>2, <1>3, <2>2, <2>3
<1>5. CASE Hit("late")
  <2>1. PICK y \in Nat : Extra' = y /\ y >= x + 1
    BY <1>2, <1>5, ExtraGrows
  <2>2. u + d <= y /\ s + u + x <= s + u + y /\ s <= k + y
    BY <1>1, <1>3, <2>1
  <2>3. \A i \in 1..u : up'[i] = "ACK" => s + i <= k + y
    <3>1. ASSUME NEW i \in 1..u, up'[i] = "ACK" PROVE s + i <= k + y
      <4>1. s + i <= k + x
        BY <3>1, <1>3
      <4> QED BY <4>1, <2>1
    <3> QED BY <3>1
  <2>4. SenderTurn(s, k, s)
    BY <1>2, <2>1, <2>2, <2>3 DEF SenderTurn
  <2> QED BY <1>2, <2>1, <2>2, <2>4
<1> QED BY <1>4, <1>5 DEF InTime

LEMMA TransmitterMatches == Types /\ Types' /\ Transmitter /\ Listening /\ Matching => Matching'
<1> SUFFICES ASSUME Types, Types', Transmitter, Listening, Matching PROVE Matching'
  OBVIOUS
<1>1. PICK s \in Nat, k \in Nat, J \in [1..Len(down) -> Nat] : Matched(s, k, J)
  BY DEF Matching
<1>2. SenderAt(s) /\ tx \in Tx /\ (Sending <=> tx.at # "done")
  BY <1>1 DEF Matched, Types
<1>3. ASSUME NEW t \in {s, s + 1}, Follows(t), SenderTurn(s, k, t), t <= k + Extra',
             UNCHANGED <<file, rx, out>>, Extra' >= Extra
      PROVE  Matching'
  <2>1. PICK l : Sends(l, t)
    BY <1>3 DEF Follows
  <2>2. \E K \in [1..Len(down') -> Nat] : Matched(t, k, K)'
    BY <1>1, <1>3, <2>1, SenderMatches DEF Follows
  <2>3. t \in Nat
    OBVIOUS
  <2> QED BY <2>2, <2>3 DEF Matching
<1>4. Extra >= Extra
  <2>1. Extra \in Nat BY ExtraIs
  <2> QED BY <2>1
<1>5. UNCHANGED <<hits, strays>> => Extra' >= Extra
  BY <1>4, ExtraKept
<1>6. CASE TxTimeout
  <2>1. Sending /\ InTime(SenderWaits) /\ UNCHANGED <<file, up, rx, out, free, strays>>
    BY <1>6 DEF TxTimeout
  <2>2. SenderTurn(s, k, s) /\ s <= k + Extra' /\ Extra' >= Extra
    BY <1>1, <2>1, SenderWaited
  <2>3. Follows(s)
    <3>1. CASE tx.at = "sync"
      <4>1. SyncAgain BY <1>6, <3>1 DEF TxTimeout
      <4> QED BY <4>1, <2>1, <1>2, SyncSends
    <3>2. CASE tx.at = "sent"
      <4>1. SendAgain BY <1>6, <3>2 DEF TxTimeout
      <4> QED BY <4>1, <2>1, <1>2, <3>2, SendSends
    <3>3. CASE tx.at = "end"
      <4>1. SenderEnds("ok") /\ UNCHANGED down BY <1>6, <3>3 DEF TxTimeout
      <4>2. SenderAt(s)' BY <4>1, <2>1, <1>2, EndsSends DEF Results
      <4> QED BY <4>1, <4>2, <2>1, SendsNothing DEF Follows
    <3> QED BY <3>1, <3>2, <3>3, <2>1, <1>2 DEF Tx
  <2> QED BY <2>1, <2>2, <2>3, <1>3
<1>7. ASSUME up # <<>> PROVE Tail(up) = SubSeq(up, 1 + 1, Len(up))
  BY <1>7, TailIsSubSeq DEF Types
<1>8. ASSUME Sending, up # <<>>, UNCHANGED <<hits, strays>>, NEW m \in {1, 2}, up' = SubSeq(up, m + 1, Len(up))
      PROVE  SenderTurn(s, k, s) /\ s <= k + Extra'
  BY <1>1, <1>8, SenderTakes
<1>9. CASE TxStart
  <2> DEFINE t == [tx EXCEPT !.crc = Head(up) = "C"]
  <2>1. /\ tx.at = "sync" /\ up # <<>> /\ up' = Tail(up) /\ Transmit(t)
        /\ UNCHANGED <<file, rx, out, free, hits, strays>>
    BY <1>9 DEF TxStart
  <2>2. Sending /\ t \in Tx /\ t.result = "none" /\ t.pos = tx.pos /\ t.no = tx.no
    BY <1>2, <2>1 DEF Tx, Sending
  <2> HIDE DEF t
  <2>3. Follows(s)
    BY <1>2, <2>1, <2>2, TransmitSends DEF SenderAt
  <2>4. SenderTurn(s, k, s) /\ s <= k + Extra'
    BY <1>7, <1>8, <2>1, <2>2
  <2> QED BY <2>1, <2>3, <2>4, <1>3, <1>5
<1>10. CASE TxAck
  <2>1. up # <<>> /\ Head(up) = "ACK" /\ up' = Tail(up) /\ UNCHANGED <<file, rx, out, free, hits, strays>>
    BY <1>10 DEF TxAck, Accepted
  <2>2. CASE /\ tx.at = "sent"
             /\ Transmit([tx EXCEPT !.no = (@ + 1) % Numbers, !.pos = @ + BlockSize])
    <3> DEFINE t == [tx EXCEPT !.no = (@ + 1) % Numbers, !.pos = @ + BlockSize]
    <3>1. tx.pos + BlockSize = Start(s + 1) /\ (tx.no + 1) % Numbers = Number(s + 1)
      BY <1>2, Starts, NextNumber DEF SenderAt
    <3>2. Start(s + 1) \in Nat /\ Number(s + 1) \in Nat
      <4>1. s + 1 \in Nat OBVIOUS
      <4> HIDE DEF t
      <4> QED BY <4>1, Starts, NumberNatural
    <3>3. t \in Tx /\ t.result = "none" /\ t.pos = Start(s + 1) /\ t.no = Number(s + 1) /\ Sending
      BY <1>2, <2>2, <3>1, <3>2 DEF Tx, Sending
    <3>4. Transmit(t)
      BY <2>2
    <3> HIDE DEF t
    <3>5. Follows(s + 1)
      BY <2>1, <3>3, <3>4, TransmitSends
    <3>6. SenderTurn(s, k, s + 1) /\ s + 1 <= k + Extra'
      BY <1>1, <1>7, <2>1, <3>3, SenderTakes
    <3> QED BY <2>1, <3>5, <3>6, <1>3, <1>5
  <2>3. CASE tx.at = "end" /\ SenderEnds("ok") /\ UNCHANGED down
    <3>1. Sending
      BY <1>2, <2>3
    <3>2. SenderAt(s)' BY <2>1, <2>3, <1>2, EndsSends DEF Results
    <3>3. Follows(s)
      BY <2>3, <3>1, <3>2, SendsNothing DEF Follows
    <3>4. SenderTurn(s, k, s) /\ s <= k + Extra'
      BY <1>7, <1>8, <2>1, <3>1
    <3> QED BY <2>1, <3>3, <3>4, <1>3, <1>5
  <2> QED BY <1>10, <2>2, <2>3 DEF TxAck
<1>11. CASE TxCancel
  <2>1. /\ tx.at \in {"sync", "sent"} /\ up # <<>> /\ up' = SubSeq(up, 2 + 1, Len(up))
        /\ UNCHANGED <<file, rx, out, free, hits, strays>>
    BY <1>11 DEF TxCancel
  <2>2. Sending
    BY <1>2, <2>1
  <2>3. SenderTurn(s, k, s) /\ s <= k + Extra'
    BY <1>8, <2>1, <2>2
  <2>4. CASE SenderEnds("cancelled") /\ down' = Append(down, Control("ACK"))
    <3>1. SenderAt(s)' BY <2>1, <2>4, <1>2, EndsSends DEF Results
    <3>2. Control("ACK") \in Message /\ Control("ACK").kind = "ACK"
      BY ControlIs DEF Kinds
    <3>3. Sends(<<Control("ACK")>>, s)
      BY <2>2, <2>4, <3>2, SendsOne
    <3>4. Follows(s)
      BY <3>1, <3>3 DEF Follows
    <3> QED BY <2>1, <2>3, <3>4, <1>3, <1>5
  <2>5. CASE tx.at = "sync" /\ SyncAgain
    <3>1. Follows(s) BY <2>1, <2>2, <2>5, <1>2, SyncSends
    <3> QED BY <2>1, <2>3, <3>1, <1>3, <1>5
  <2>6. CASE tx.at = "sent" /\ SendAgain
    <3>1. Follows(s) BY <2>1, <2>2, <2>6, <1>2, SendSends
    <3> QED BY <2>1, <2>3, <3>1, <1>3, <1>5
  <2> QED BY <1>11, <2>1, <2>4, <2>5, <2>6 DEF TxCancel
<1>12. CASE TxOther
  <2>1. Sending /\ up # <<>> /\ up' = Tail(up) /\ UNCHANGED <<file, rx, out, free, hits, strays>>
    BY <1>12 DEF TxOther
  <2>2. SenderTurn(s, k, s) /\ s <= k + Extra'
    BY <1>7, <1>8, <2>1
  <2>3. Follows(s)
    <3>1. CASE tx.at = "sync"
      <4>1. SyncAgain BY <1>12, <3>1 DEF TxOther
      <4> QED BY <4>1, <2>1, <1>2, SyncSends
    <3>2. CASE tx.at = "sent"
      <4>1. SendAgain BY <1>12, <3>2 DEF TxOther
      <4> QED BY <4>1, <2>1, <1>2, <3>2, SendSends
    <3>3. CASE tx.at = "end"
      <4>1. EndAgain BY <1>12, <3>3 DEF TxOther
      <4> QED BY <4>1, <2>1, <1>2, <3>3, EndSends
    <3> QED BY <3>1, <3>2, <3>3, <2>1, <1>2 DEF Tx
  <2> QED BY <2>1, <2>2, <2>3, <1>3, <1>5
<1> QED BY <1>6, <1>9, <1>10, <1>11, <1>12 DEF Transmitter

(* What the receiver has is not changed by what it waits for.                *)
LEMMA ReceiverStays ==
    ASSUME NEW k \in Nat, ReceiverAt(k), UNCHANGED <<file, out>>,
           rx'.no = rx.no, rx'.held = rx.held
    PROVE  ReceiverAt(k)'
<1>1. Block(k - 1)' = Block(k - 1)
  BY SameBlock
<1> QED BY <1>1 DEF ReceiverAt

(* Messages that have been taken, lost or thrown away, and what may be left  *)
(* of one.                                                                   *)
LEMMA LeavesSub ==
    ASSUME NEW l \in Seq(Message), NEW n \in 0..Len(l)
    PROVE  Leaves(l, SubSeq(l, n + 1, Len(l)), n)
<1> DEFINE d == Len(l)
           r == SubSeq(l, n + 1, Len(l))
<1>1. d \in Nat /\ n \in 0..d
  OBVIOUS
<1>2. \A i \in n + 1..Len(l) : l[i] \in Message
  OBVIOUS
<1>3. /\ Len(r) = IF n + 1 <= d THEN d - (n + 1) + 1 ELSE 0
      /\ \A i \in 1..d - (n + 1) + 1 : r[i] = l[n + 1 + i - 1]
  BY <1>1, <1>2, SubSeqProperties
<1> HIDE DEF d, r
<1>4. Len(r) = d - n
  BY <1>1, <1>3
<1>5. \A i \in 1..Len(r) : i \in 1..d - (n + 1) + 1 /\ n + 1 + i - 1 = i + n
  BY <1>1, <1>4
<1>6. \A i \in 1..Len(r) : r[i] = l[i + n]
  BY <1>3, <1>5
<1>7. Leaves(l, r, n)
  BY <1>1, <1>4, <1>6 DEF Leaves, d
<1> QED BY <1>7 DEF r

LEMMA LeavesSame == ASSUME NEW l \in Seq(Message) PROVE Leaves(l, l, 0)
<1>1. Len(l) \in Nat
  OBVIOUS
<1>2. \A i \in 1..Len(l) : i + 0 = i
  BY <1>1
<1> QED BY <1>1, <1>2 DEF Leaves

LEMMA LeavesTail == ASSUME NEW l \in Seq(Message), l # <<>> PROVE Leaves(l, Tail(l), 1)
<1>1. 1 \in 0..Len(l) /\ Tail(l) = SubSeq(l, 1 + 1, Len(l))
  BY TailIsSubSeq
<1> QED BY <1>1, LeavesSub

(* Something else in place of the n-th.                                      *)
LEMMA LeavesOther ==
    ASSUME NEW l \in Seq(Message), NEW n \in 1..Len(l), NEW m \in Message, m.kind \notin {"packet", "EOT"}
    PROVE  Leaves(l, <<m>> \o SubSeq(l, n + 1, Len(l)), n - 1)
<1> DEFINE d == Len(l)
           t == SubSeq(l, n + 1, Len(l))
           r == <<m>> \o t
           c == Len(t)
<1>1. d \in Nat /\ n \in 1..d /\ n \in 0..Len(l) /\ n \in Nat
  OBVIOUS
<1>2. Leaves(l, t, n)
  BY <1>1, LeavesSub
<1>3. t \in Seq(Message) /\ <<m>> \in Seq(Message) /\ Len(<<m>>) = 1
  BY <1>1, RestOfLine
<1>4. /\ Len(r) = 1 + c
      /\ \A i \in 1..1 + c : r[i] = IF i <= 1 THEN <<m>>[i] ELSE t[i - 1]
  BY <1>3, ConcatProperties
<1>5. c = d - n /\ c \in Nat
  BY <1>2, <1>3 DEF Leaves
<1>6. r[1] = m
  <2>1. 1 \in 1..1 + c
    BY <1>5
  <2> QED BY <1>4, <2>1
<1> HIDE DEF r, t, c, d
<1>7. n - 1 \in 0..d /\ Len(r) = d - (n - 1)
  BY <1>1, <1>4, <1>5
<1>8. ASSUME NEW i \in 1..Len(r)
      PROVE  /\ r[i].kind = "packet" => /\ l[i + (n - 1)].kind = "packet"
                                        /\ r[i].no = l[i + (n - 1)].no
                                        /\ r[i].data = l[i + (n - 1)].data
             /\ r[i].kind = "EOT" => l[i + (n - 1)].kind = "EOT"
  <2>1. CASE i = 1
    BY <2>1, <1>6
  <2>2. CASE i # 1
    <3>1. i - 1 \in 1..c /\ ~(i <= 1) /\ i \in 1..1 + c /\ (i - 1) + n = i + (n - 1)
      BY <2>2, <1>1, <1>4, <1>5
    <3>2. r[i] = t[i - 1]
      BY <1>4, <3>1
    <3>3. /\ t[i - 1].kind = "packet" => /\ l[(i - 1) + n].kind = "packet"
                                         /\ t[i - 1].no = l[(i - 1) + n].no
                                         /\ t[i - 1].data = l[(i - 1) + n].data
          /\ t[i - 1].kind = "EOT" => l[(i - 1) + n].kind = "EOT"
      BY <1>2, <3>1 DEF Leaves, c
    <3> QED BY <3>1, <3>2, <3>3
  <2> QED BY <2>1, <2>2
<1>9. Leaves(l, r, n - 1)
  BY <1>7, <1>8 DEF Leaves, d
<1> QED BY <1>9 DEF r, t

LEMMA LeavesRest ==
    ASSUME NEW l \in Seq(Message), NEW n \in 1..Len(l), NEW x \in Int
    PROVE  \E k \in Nat : Leaves(l, Rest(x) \o SubSeq(l, n + 1, Len(l)), k)
<1> DEFINE t == SubSeq(l, n + 1, Len(l))
           m == [Control("rest") EXCEPT !.no = x]
<1>1. n \in Nat /\ n - 1 \in Nat /\ n \in 0..Len(l)
  OBVIOUS
<1>2. t \in Seq(Message) /\ Leaves(l, t, n)
  BY <1>1, RestOfLine, LeavesSub
<1>3. m \in Message /\ m.kind = "rest"
  BY ControlType DEF Message, Kinds, Control
<1>4. Leaves(l, <<m>> \o t, n - 1)
  BY <1>3, LeavesOther
<1> HIDE DEF t, m
<1>5. <<>> \o t = t
  BY <1>2
<1>6. Rest(x) = <<>> \/ Rest(x) = <<m>>
  BY DEF Rest, m
<1>7. CASE Rest(x) = <<>>
  BY <1>1, <1>2, <1>5, <1>7 DEF t
<1>8. CASE Rest(x) = <<m>>
  BY <1>1, <1>4, <1>8 DEF t
<1> QED BY <1>6, <1>7, <1>8

LEMMA LeavesBehead == ASSUME NEW l \in Seq(Message) PROVE \E n \in Nat : Leaves(l, Behead(l), n)
<1>1. CASE l = <<>>
  BY <1>1, LeavesSame DEF Behead
<1>2. CASE l # <<>>
  <2>1. Head(l) \in Message /\ 1 \in 1..Len(l) /\ Tail(l) = SubSeq(l, 1 + 1, Len(l))
    BY <1>2, TailIsSubSeq
  <2>2. Size(Head(l)) - 1 \in Int
    BY <2>1, SizeTyped
  <2>3. Behead(l) = Rest(Size(Head(l)) - 1) \o SubSeq(l, 1 + 1, Len(l))
    BY <1>2, <2>1 DEF Behead
  <2> QED BY <2>1, <2>2, <2>3, LeavesRest
<1> QED BY <1>1, <1>2

(* A control character is gone when it has been read.                        *)
LEMMA BeheadOne ==
    ASSUME NEW l \in Seq(Message), l # <<>>, Head(l).kind \notin {"packet", "rest"}
    PROVE  Behead(l) = Tail(l)
<1>1. Size(Head(l)) - 1 = 0
  BY DEF Size
<1>2. Rest(0) = <<>> /\ Tail(l) \in Seq(Message)
  BY DEF Rest
<1>3. Behead(l) = Rest(0) \o Tail(l)
  BY <1>1 DEF Behead
<1> QED BY <1>2, <1>3

LEMMA LeavesFlush ==
    ASSUME NEW l \in Seq(Message), FlushInput(l)
    PROVE  \E n \in Nat : Leaves(l, down', n)
<1>0. PICK n \in 0..Len(l) : \E left \in 0 .. (IF n = 0 THEN 0 ELSE Size(l[n]) - 1) :
        down' = Rest(left) \o SubSeq(l, n + 1, Len(l))
  BY DEF FlushInput
<1>1. PICK left \in 0 .. (IF n = 0 THEN 0 ELSE Size(l[n]) - 1) :
        down' = Rest(left) \o SubSeq(l, n + 1, Len(l))
  BY <1>0
<1>2. n \in Nat /\ left \in Int
  OBVIOUS
<1>3. CASE n = 0
  <2>1. left = 0
    BY <1>3
  <2>2. Rest(left) = <<>> /\ SubSeq(l, n + 1, Len(l)) \in Seq(Message)
    BY <1>2, <2>1, RestOfLine DEF Rest
  <2>3. down' = SubSeq(l, n + 1, Len(l))
    BY <1>1, <2>2
  <2> QED BY <1>2, <2>3, LeavesSub
<1>4. CASE n # 0
  <2>1. n \in 1..Len(l)
    BY <1>4
  <2> QED BY <1>1, <1>2, <2>1, LeavesRest
<1> QED BY <1>3, <1>4

LEMMA LeavesTwice ==
    ASSUME NEW l \in Seq(Message), NEW m \in Seq(Message), NEW r \in Seq(Message),
           NEW a \in Nat, NEW b \in Nat, Leaves(l, m, a), Leaves(m, r, b)
    PROVE  Leaves(l, r, a + b)
<1> DEFINE x == Len(l)
           y == Len(m)
           z == Len(r)
<1>1. x \in Nat /\ y \in Nat /\ z \in Nat /\ a <= x /\ y = x - a /\ b <= y /\ z = y - b
  BY DEF Leaves
<1> HIDE DEF x, y, z
<1>2. a + b \in 0..x /\ z = x - (a + b)
  BY <1>1
<1>3. ASSUME NEW i \in 1..z
      PROVE  /\ r[i].kind = "packet" => /\ l[i + (a + b)].kind = "packet"
                                        /\ r[i].no = l[i + (a + b)].no
                                        /\ r[i].data = l[i + (a + b)].data
             /\ r[i].kind = "EOT" => l[i + (a + b)].kind = "EOT"
  <2>1. i + b \in 1..y /\ (i + b) + a = i + (a + b)
    BY <1>1
  <2>2. /\ r[i].kind = "packet" => /\ m[i + b].kind = "packet"
                                   /\ r[i].no = m[i + b].no
                                   /\ r[i].data = m[i + b].data
        /\ r[i].kind = "EOT" => m[i + b].kind = "EOT"
    BY DEF Leaves, z
  <2>3. /\ m[i + b].kind = "packet" => /\ l[(i + b) + a].kind = "packet"
                                       /\ m[i + b].no = l[(i + b) + a].no
                                       /\ m[i + b].data = l[(i + b) + a].data
        /\ m[i + b].kind = "EOT" => l[(i + b) + a].kind = "EOT"
    BY <2>1 DEF Leaves, y
  <2> QED BY <2>1, <2>2, <2>3
<1> QED BY <1>2, <1>3 DEF Leaves, x, z

LEMMA PassesNone == Types /\ UNCHANGED down => Passes(0)
BY LeavesSame DEF Types, Passes

LEMMA PassesOne == Types /\ down # <<>> /\ down' = Tail(down) => Passes(1)
BY LeavesTail DEF Types, Passes

LEMMA AheadStays ==
    ASSUME NEW s \in Nat, NEW k \in Nat, NEW J \in [1..Len(down) -> Nat], Matched(s, k, J),
           NEW n \in Nat
    PROVE  Ahead(k, n, J)
<1>1. \A i \in 1..Len(down) : down[i].kind = "packet" => k <= J[i] + 1
  BY DEF Matched, Packets
<1>2. \A i \in n + 1..Len(down) : i \in 1..Len(down)
  OBVIOUS
<1> QED BY <1>1, <1>2 DEF Ahead

(* The receiver has taken a message or a byte and given an answer, or none:  *)
(* there is a message less for it, or it counts; it is an                    *)
(* acknowledgement only if it has a block as late as the sender's may be     *)
(* taken for.                                                                *)
LEMMA ReceiverTakes ==
    ASSUME Types, Types', NEW s \in Nat, NEW k \in Nat, NEW J \in [1..Len(down) -> Nat],
           Matched(s, k, J), NEW q \in {k, k + 1},
           NEW n \in Nat, Passes(n), Extra' >= Extra,
           NEW a \in Seq(Answers), Len(a) <= 1, up' = up \o a, Len(a) + Extra <= n + Extra',
           Sending /\ a = <<"ACK">> => s + Len(up) + 1 <= q + Extra
    PROVE  ReceiverTurn(s, q, n)
<1> SUFFICES ASSUME Sending PROVE ReceiverTurn(s, q, n)
  BY DEF ReceiverTurn
<1>1. PICK x \in Nat, y \in Nat : Extra = x /\ Extra' = y /\ x <= y
  <2>1. Extra \in Nat /\ Extra' \in Nat
    BY ExtraIs, ExtraIsThen
  <2> QED BY <2>1
<1> DEFINE u == Len(up)
           v == Len(up')
           d == Len(down)
           e == Len(down')
           c == Len(a)
<1>2. /\ u \in Nat /\ d \in Nat /\ e \in Nat /\ c \in {0, 1} /\ v = u + c
      /\ \A i \in 1..u : up'[i] = up[i]
      /\ c = 1 => up'[u + 1] = a[1] /\ a = <<a[1]>>
  <2>1. up \in Seq(Answers) /\ down \in Seq(Message) /\ down' \in Seq(Message)
    BY DEF Types
  <2>2. /\ Len(up \o a) = Len(up) + Len(a)
        /\ \A i \in 1..Len(up) + Len(a) : (up \o a)[i] = IF i <= Len(up) THEN up[i] ELSE a[i - Len(up)]
    BY <2>1, ConcatProperties
  <2>3. \A i \in 1..u + c : up'[i] = IF i <= u THEN up[i] ELSE a[i - u]
    BY <2>2
  <2>4. u \in Nat /\ d \in Nat /\ e \in Nat /\ c \in {0, 1} /\ v = u + c
    <3>1. c \in Nat /\ c <= 1
      OBVIOUS
    <3>2. c \in {0, 1}
      <4> HIDE DEF c
      <4> QED BY <3>1
    <3> QED BY <2>1, <2>2, <3>2
  <2>5. c = 1 => a = <<a[1]>>
    <3>1. Len(<<a[1]>>) = 1 /\ <<a[1]>>[1] = a[1]
      OBVIOUS
    <3>2. ASSUME c = 1 PROVE a = <<a[1]>>
      <4>0. 1 \in 1..Len(a) /\ \A i \in 1..Len(a) : i = 1
        BY <3>2
      <4>1. a[1] \in Answers /\ \A i \in 1..Len(a) : a[i] = <<a[1]>>[i]
        BY <3>1, <4>0
      <4>2. <<a[1]>> \in Seq(Answers)
        BY <4>1
      <4> QED BY <3>1, <3>2, <4>1, <4>2, SeqEqual
    <3> QED BY <3>2
  <2> HIDE DEF u, c, v, d, e
  <2>6. \A i \in 1..u : i \in 1..u + c /\ i <= u
    BY <2>4
  <2>7. c = 1 => u + 1 \in 1..u + c /\ ~(u + 1 <= u) /\ u + 1 - u = 1
    BY <2>4
  <2>8. \A i \in 1..u : up'[i] = up[i]
    BY <2>3, <2>6
  <2>9. ASSUME c = 1 PROVE up'[u + 1] = a[1]
    <3>0. PICK j \in 1..u + c : j = u + 1 /\ ~(j <= u)
      BY <2>4, <2>7, <2>9
    <3>3. up'[j] = a[j - u]
      BY <2>3, <3>0
    <3>1. j - u = 1
      BY <2>4, <3>0
    <3>2. up'[j] = a[1]
      BY <3>1, <3>3
    <3>4. u + 1 = j
      BY <3>0
    <3> QED BY <3>2, <3>4
  <2> QED BY <2>4, <2>5, <2>8, <2>9
<1>3. /\ u + d <= 1 + x
      /\ \A i \in 1..u : up[i] = "ACK" => s + i <= k + x
  BY <1>1 DEF Matched, InTurn
<1>4. e = d - n /\ n <= d
  BY DEF Passes, Leaves
<1>5. c = 1 /\ a[1] = "ACK" => s + u + 1 <= q + x
  BY <1>1, <1>2
<1> HIDE DEF u, v, d, e, c
<1>9. c + x <= n + y
  BY <1>1 DEF c
<1>10. u \in Nat /\ d \in Nat /\ c \in {0, 1} /\ v = u + c /\ u + d <= 1 + x
  BY <1>2, <1>3
<1>6. v + e <= 1 + y
  BY <1>4, <1>9, <1>10
<1>7. v + x <= u + n + y
  BY <1>9, <1>10
<1>8. ASSUME NEW i \in 1..v, up'[i] = "ACK" PROVE s + i <= q + y
  <2>1. CASE i \in 1..u
    <3>1. s + i <= k + x
      BY <2>1, <1>2, <1>3, <1>8
    <3> QED BY <3>1, <1>1
  <2>2. CASE ~(i \in 1..u)
    <3>1. c = 1 /\ i = u + 1
      BY <2>2, <1>2
    <3>2. s + u + 1 <= q + x
      BY <3>1, <1>2, <1>5, <1>8
    <3>3. q \in Nat
      OBVIOUS
    <3>4. s + u + 1 <= q + y
      BY <3>2, <3>3, <1>1, <1>10
    <3> QED BY <3>1, <3>4, <1>10
  <2> QED BY <2>1, <2>2
<1> QED BY <1>1, <1>6, <1>7, <1>8 DEF ReceiverTurn, u, v, e

(* The block of a packet that is taken for the next, or for the last again.  *)
LEMMA TakenFor ==
    ASSUME Types, Distinct, NEW s \in Nat, NEW k \in Nat, NEW J \in [1..Len(down) -> Nat],
           Matched(s, k, J), down # <<>>, Head(down).kind = "packet"
    PROVE  /\ Head(down) = down[1] /\ J[1] \in Nat
           /\ down[1].data = Block(J[1]) /\ Start(J[1]) < Len(file) /\ J[1] <= s
           /\ Head(down).no = rx.no => J[1] = k
           /\ Head(down).no = rx.no - 1 => J[1] + 1 = k
           /\ Sending => s + Len(up) + 1 <= J[1] + 1 + Extra
<1>0. 1 \in 1..Len(down)
  BY DEF Types
<1>1. Head(down) = down[1] /\ 1 \in 1..Len(down) /\ J[1] \in Nat
  BY <1>0 DEF Types
<1> DEFINE j == J[1]
<1>2. /\ down[1].no = Number(j) /\ down[1].data = Block(j) /\ Start(j) < Len(file)
      /\ k <= j + 1 /\ j <= s /\ s <= k + Extra /\ rx.no = Number(k)
  BY <1>1 DEF Matched, Packets, Apart, ReceiverAt
<1>3. Sending => s + Len(up) + 1 <= j + 1 + Extra
  BY <1>1 DEF Matched, InTurn
<1>4. j \in Nat
  BY <1>1
<1> HIDE DEF j
<1>5. PICK x \in Nat : Extra = x /\ x + 1 < Numbers
  BY ExtraIs DEF Distinct
<1>6. Numbers \in Nat
  BY XModemAssumption
<1>7. j - k < Numbers /\ k - j < Numbers /\ j + 1 < k + Numbers
  <2>1. j <= k + x BY <1>2, <1>4, <1>5
  <2> QED BY <2>1, <1>2, <1>4, <1>5, <1>6
<1>8. Number(j) = Number(k) => j = k
  BY <1>4, <1>7, OneBlock
<1>9. Number(j) = Number(k) - 1 => j + 1 = k
  BY <1>2, <1>4, <1>7, BlockBefore
<1> QED BY <1>1, <1>2, <1>3, <1>8, <1>9 DEF j

LEMMA AskStays ==
    ASSUME Types, AskAgain, Listening'
    PROVE  /\ rx'.no = rx.no /\ rx'.held = rx.held
           /\ \E a \in Seq(Answers) : Len(a) <= 1 /\ up' = up \o a /\ a # <<"ACK">>
<1>1. rx \in Rx /\ up \in Seq(Answers)
  BY DEF Types
<1>2. CASE rx' = [rx EXCEPT !.retry = @ + 1] /\ up' = up \o rx.try
  <2>1. rx.try \in {<<>>, <<"C">>, <<"NAK">>}
    BY <1>1 DEF Rx
  <2>2. /\ <<>> \in Seq(Answers) /\ <<"C">> \in Seq(Answers) /\ <<"NAK">> \in Seq(Answers)
        /\ Len(<<>>) <= 1 /\ Len(<<"C">>) <= 1 /\ Len(<<"NAK">>) <= 1
        /\ <<>> # <<"ACK">> /\ <<"C">> # <<"ACK">> /\ <<"NAK">> # <<"ACK">>
    BY DEF Answers
  <2>3. rx.try \in Seq(Answers) /\ Len(rx.try) <= 1 /\ rx.try # <<"ACK">>
    BY <2>1, <2>2
  <2>4. rx'.no = rx.no /\ rx'.held = rx.held
    BY <1>1, <1>2 DEF Rx
  <2> QED BY <1>2, <2>3, <2>4
<1>3. CASE rx' = [rx EXCEPT !.retry = 0, !.try = <<"NAK">>] /\ up' = Append(up, "NAK")
  <2>1. <<"NAK">> \in Seq(Answers) /\ Len(<<"NAK">>) <= 1 /\ <<"NAK">> # <<"ACK">> /\ "NAK" \in Answers
    BY DEF Answers
  <2>2. up' = up \o <<"NAK">>
    BY <1>1, <1>3, <2>1, AppendIsConcat
  <2>3. rx'.no = rx.no /\ rx'.held = rx.held
    BY <1>1, <1>3 DEF Rx
  <2> QED BY <2>1, <2>2, <2>3
<1>4. CASE ReceiverEnds(rx, "sync", Cancel)
  <2>1. rx'.result = "sync"
    BY <1>1, <1>4 DEF ReceiverEnds, Rx
  <2> QED BY <2>1 DEF Listening
<1> QED BY <1>2, <1>3, <1>4 DEF AskAgain

LEMMA EndsListening ==
    ASSUME NEW r \in Rx, NEW result, result # "none", NEW a, ReceiverEnds(r, result, a)
    PROVE  ~Listening' /\ rx'.held = r.held /\ rx'.result = result
<1>1. rx' = [r EXCEPT !.result = result]
  BY DEF ReceiverEnds
<1>2. rx'.result = result /\ rx'.held = r.held
  BY <1>1 DEF Rx
<1> QED BY <1>2 DEF Listening

LEMMA StartedStays ==
    Types => /\ Started.no = rx.no /\ Started.held = rx.held /\ Started.result = rx.result
             /\ Started \in Rx
<1> SUFFICES ASSUME Types
             PROVE  /\ Started.no = rx.no /\ Started.held = rx.held /\ Started.result = rx.result
                    /\ Started \in Rx
  OBVIOUS
<1>1. Started \in Rx
  BY StartedTyped
<1> QED BY <1>1 DEF Started, Types, Rx

LEMMA ReceiverMatchesAll ==
    Types /\ Types' /\ Distinct /\ Receiver /\ Listening' /\ Matching => Matching'
<1> SUFFICES ASSUME Types, Types', Distinct, Receiver, Listening', Matching PROVE Matching'
  OBVIOUS
<1>1. PICK s \in Nat, k \in Nat, J \in [1..Len(down) -> Nat] : Matched(s, k, J)
  BY DEF Matching
<1>2. ReceiverAt(k) /\ rx \in Rx /\ k <= s + 1
  BY <1>1 DEF Matched, Types, Apart
<1>3. ASSUME NEW q \in {k, k + 1}, ReceiverAt(q)', q <= s + 1, NEW n \in Nat, Passes(n), Ahead(q, n, J),
             ReceiverTurn(s, q, n), UNCHANGED <<file, tx>>, Extra' >= Extra
      PROVE  Matching'
  <2>1. \E K \in [1..Len(down') -> Nat] : Matched(s, q, K)'
    BY <1>1, <1>3, ReceiverMatches
  <2>2. q \in Nat
    OBVIOUS
  <2> QED BY <2>1, <2>2 DEF Matching
<1>4. Receiver /\ UNCHANGED hits => Extra' >= Extra
  BY StraysGrow, ExtraGrowsWith
<1>5. ASSUME NEW n \in Nat, Passes(n), UNCHANGED <<file, tx, out, hits>>,
             rx'.no = rx.no, rx'.held = rx.held,
             NEW a \in Seq(Answers), Len(a) <= 1, up' = up \o a,
             n # 0 \/ strays' - strays = Len(up') - Len(up),
             Sending /\ a = <<"ACK">> => s + Len(up) + 1 <= k + Extra
      PROVE  Matching'
  <2>1. ReceiverAt(k)'
    BY <1>2, <1>5, ReceiverStays
  <2>2. Extra' >= Extra
    BY <1>4, <1>5
  <2>3. Len(a) + Extra <= n + Extra'
    <3>1. Extra \in Nat /\ Extra' \in Nat /\ Extra' - Extra = strays' - strays
      BY <1>5, ExtraIs, ExtraCounts, ExtraIsThen
    <3>2. Len(up) \in Nat /\ Len(a) \in Nat /\ Len(up') = Len(up) + Len(a)
      BY <1>5, ConcatProperties DEF Types
    <3>3. CASE n # 0
      BY <3>1, <3>2, <3>3, <2>2, <1>5
    <3>4. CASE strays' - strays = Len(up') - Len(up)
      BY <3>1, <3>2, <3>4
    <3> QED BY <3>3, <3>4, <1>5
  <2>4. ReceiverTurn(s, k, n)
    BY <1>1, <1>5, <2>2, <2>3, ReceiverTakes
  <2>5. Ahead(k, n, J)
    BY <1>1, AheadStays
  <2> QED BY <2>1, <2>2, <2>4, <2>5, <1>2, <1>3, <1>5
<1>6. ASSUME AskAgain, NEW n \in Nat, Passes(n), UNCHANGED <<file, tx, out, hits>>,
             n # 0 \/ strays' - strays = Len(up') - Len(up)
      PROVE  Matching'
  <2>1. PICK a \in Seq(Answers) : Len(a) <= 1 /\ up' = up \o a /\ a # <<"ACK">>
    BY <1>6, AskStays
  <2>2. rx'.no = rx.no /\ rx'.held = rx.held
    BY <1>6, AskStays
  <2> QED BY <2>1, <2>2, <1>5, <1>6
<1>0. /\ down \in Seq(Message) /\ down' \in Seq(Message) /\ Behead(down) \in Seq(Message)
      /\ down # <<>> => Tail(down) \in Seq(Message)
  BY BeheadTyped DEF Types
(* A message has been read, or a byte of a rest, and then the line is next.  *)
<1>14. ASSUME NEW next \in Seq(Message), down # <<>>, NEW m \in Nat, Leaves(next, down', m),
              Counted,
              \/ Head(down).kind # "rest" /\ next = Tail(down)
              \/ Head(down).kind = "rest" /\ next = Behead(down)
       PROVE  \E n \in Nat : Passes(n) /\ (n # 0 \/ strays' - strays = Len(up') - Len(up))
  <2>1. CASE Head(down).kind # "rest" /\ next = Tail(down)
    <3>1. Leaves(down, next, 1)
      BY <1>0, <1>14, <2>1, LeavesTail
    <3>2. Passes(1 + m)
      BY <1>0, <1>14, <3>1, LeavesTwice DEF Passes
    <3>3. 1 + m \in Nat /\ 1 + m # 0
      OBVIOUS
    <3> QED BY <3>2, <3>3
  <2>2. CASE Head(down).kind = "rest" /\ next = Behead(down)
    <3>1. PICK h \in Nat : Leaves(down, next, h)
      BY <1>0, <2>2, LeavesBehead
    <3>2. Passes(h + m)
      BY <1>0, <1>14, <3>1, LeavesTwice DEF Passes
    <3>3. strays' - strays = Len(up') - Len(up)
      <4>1. strays \in Nat /\ Len(up) \in Nat /\ Len(up') \in Nat
        BY DEF Types
      <4>2. strays' = strays + (Len(up') - Len(up))
        BY <1>14, <2>2 DEF Counted
      <4> QED BY <4>1, <4>2
    <3>4. h + m \in Nat
      OBVIOUS
    <3> QED BY <3>2, <3>3, <3>4
  <2> QED BY <1>14, <2>1, <2>2
<1>7. CASE RxTimeout
  <2>1. AskAgain /\ UNCHANGED <<file, down, tx, out, free, strays>> /\ InTime(ReceiverWaits)
    BY <1>7 DEF RxTimeout
  <2>2. PICK a \in Seq(Answers) : Len(a) <= 1 /\ up' = up \o a /\ a # <<"ACK">>
    BY <2>1, AskStays
  <2>3. ReceiverAt(k)'
    BY <1>2, <2>1, AskStays, ReceiverStays
  <2>4. PICK x \in Nat : Extra = x
    BY ExtraIs
  <2>5. PICK y \in Nat : Extra' = y /\ (y >= x + 1 \/ (y >= x /\ ReceiverWaits))
    <3>1. CASE ReceiverWaits /\ UNCHANGED hits
      BY <3>1, <2>1, <2>4, ExtraKept
    <3>2. CASE Hit("late")
      <4>1. Extra' \in Nat /\ Extra' >= Extra + 1
        BY <3>2, <2>1, ExtraGrows
      <4> QED BY <4>1, <2>4
    <3> QED BY <2>1, <3>1, <3>2 DEF InTime
  <2>6. ReceiverTurn(s, k, 0)
    <3> SUFFICES ASSUME Sending PROVE ReceiverTurn(s, k, 0)
      BY DEF ReceiverTurn
    <3> DEFINE u == Len(up)
               v == Len(up')
               d == Len(down)
               c == Len(a)
    <3>1. /\ u \in Nat /\ d \in Nat /\ c \in {0, 1} /\ v = u + c
          /\ \A i \in 1..v : up'[i] = "ACK" => i \in 1..u /\ up[i] = "ACK"
      <4>1. up \in Seq(Answers) /\ down \in Seq(Message)
        BY DEF Types
      <4>2. /\ Len(up \o a) = Len(up) + Len(a)
            /\ \A i \in 1..Len(up) + Len(a) : (up \o a)[i] = IF i <= Len(up) THEN up[i] ELSE a[i - Len(up)]
        BY <4>1, ConcatProperties
      <4>3. \A i \in 1..u + c : up'[i] = IF i <= u THEN up[i] ELSE a[i - u]
        BY <2>2, <4>2
      <4>4. u \in Nat /\ d \in Nat /\ c \in {0, 1} /\ v = u + c
        <5>1. c \in Nat /\ c <= 1
          BY <2>2
        <5>2. c \in {0, 1}
          <6> HIDE DEF c
          <6> QED BY <5>1
        <5> QED BY <2>2, <4>1, <4>2, <5>2
      <4>5. c = 1 => a[1] # "ACK"
        <5>1. ASSUME c = 1, a[1] = "ACK" PROVE FALSE
          <6>1. <<"ACK">> \in Seq(Answers) /\ Len(<<"ACK">>) = 1 /\ <<"ACK">>[1] = "ACK"
            BY DEF Answers
          <6>2. \A i \in 1..Len(a) : a[i] = <<"ACK">>[i]
            BY <5>1, <6>1
          <6>3. a = <<"ACK">>
            BY <5>1, <6>1, <6>2, SeqEqual
          <6> QED BY <2>2, <6>3
        <5> QED BY <5>1
      <4> HIDE DEF u, c
      <4>6. ASSUME NEW i \in 1..v, up'[i] = "ACK" PROVE i \in 1..u /\ up[i] = "ACK"
        <5>1. CASE i <= u
          BY <5>1, <4>3, <4>4, <4>6
        <5>2. CASE ~(i <= u)
          <6>1. c = 1 /\ i - u = 1 /\ i \in 1..u + c
            BY <5>2, <4>4
          <6> QED BY <5>2, <6>1, <4>3, <4>5, <4>6
        <5> QED BY <5>1, <5>2
      <4> QED BY <4>4, <4>6
    <3>2. u + d <= 1 + x /\ \A i \in 1..u : up[i] = "ACK" => s + i <= k + x
      BY <1>1, <2>4 DEF Matched, InTurn
    <3>3. ReceiverWaits => u = 0 /\ d = 0 /\ down' = <<>>
      BY <2>1 DEF ReceiverWaits
    <3>4. Len(down') = d
      BY <2>1
    <3> HIDE DEF u, v, d, c
    <3>5. v + d <= 1 + y
      BY <2>5, <3>1, <3>2, <3>3
    <3>6. down' = <<>> \/ v + x <= u + 0 + y
      BY <2>5, <3>1, <3>3
    <3>7. ASSUME NEW i \in 1..v, up'[i] = "ACK" PROVE s + i <= k + y
      <4>1. s + i <= k + x
        BY <3>1, <3>2, <3>7
      <4>2. y >= x
        BY <2>5
      <4>3. i \in Nat
        BY <3>1
      <4> QED BY <4>1, <4>2, <4>3
    <3> QED BY <2>4, <2>5, <3>4, <3>5, <3>6, <3>7 DEF ReceiverTurn, u, v
  <2>7. Extra' >= Extra
    BY <2>4, <2>5
  <2>8. Passes(0) /\ Ahead(k, 0, J)
    BY <1>1, <2>1, PassesNone, AheadStays
  <2> QED BY <2>1, <2>3, <2>6, <2>7, <2>8, <1>2, <1>3
<1>8. CASE RxCancel
  <2>1. UNCHANGED <<file, tx, out, free, hits>> /\ down # <<>>
    BY <1>8 DEF RxCancel, Incoming
  <2>2. CASE ReceiverEnds(rx, "cancelled", <<"ACK">>)
    BY <2>2, <1>2, EndsListening
  <2>3. CASE AskAgain /\ down' = Behead(Behead(down))
    <3> DEFINE next == Behead(down)
    <3>1. PICK m \in Nat : Leaves(next, down', m)
      BY <1>0, <2>3, LeavesBehead
    <3>2. Head(down).kind # "rest" => next = Tail(down)
      BY <1>0, <1>8, <2>1, BeheadOne DEF RxCancel, Incoming
    <3>3. next \in Seq(Message) /\ Counted
      BY <1>0, <1>8 DEF RxCancel
    <3> HIDE DEF next
    <3>4. PICK n \in Nat : Passes(n) /\ (n # 0 \/ strays' - strays = Len(up') - Len(up))
      BY <2>1, <3>1, <3>2, <3>3, <1>14 DEF next
    <3> QED BY <2>1, <2>3, <3>4, <1>6
  <2> QED BY <1>8, <2>2, <2>3 DEF RxCancel
<1>9. CASE RxOther
  <2>1. /\ UNCHANGED <<file, tx, out, free, hits>> /\ down # <<>> /\ down' = Behead(down) /\ AskAgain
        /\ Counted
    BY <1>9 DEF RxOther, Incoming
  <2>2. Leaves(down', down', 0) /\ 0 \in Nat
    BY <1>0, LeavesSame
  <2>3. Head(down).kind # "rest" => down' = Tail(down)
    BY <1>0, <1>9, <2>1, BeheadOne DEF RxOther, Incoming
  <2>4. PICK n \in Nat : Passes(n) /\ (n # 0 \/ strays' - strays = Len(up') - Len(up))
    BY <1>0, <2>1, <2>2, <2>3, <1>14
  <2> QED BY <2>1, <2>4, <1>6
<1>10. CASE RxEnd
  <2>1. [rx EXCEPT !.held = <<>>] \in Rx
    <3>1. <<>> \in Seq(Characters) OBVIOUS
    <3> QED BY <3>1, <1>2 DEF Rx
  <2>2. ~Listening'
    BY <1>2, <1>10, <2>1, EndsListening DEF RxEnd
  <2> QED BY <2>2
<1>11. CASE RxNew
  <2> DEFINE p == Head(down)
  <2>1. UNCHANGED <<file, tx, hits>> /\ down # <<>> /\ p.kind = "packet" /\ p.no = rx.no
    BY <1>11 DEF RxNew, Incoming, IsNew
  <2>2. /\ Writes(rx.held)
        /\ rx' = [Started EXCEPT !.held = p.data, !.no = (@ + 1) % Numbers, !.retrans = MaxRetrans]
        /\ up' = Append(up, "ACK") /\ down' = Tail(down)
    <3>1. Started \in Rx
      BY StartedStays
    <3>2. ASSUME ReceiverEnds(Started, "space", Cancel) PROVE FALSE
      BY <3>1, <3>2, EndsListening
    <3> QED BY <1>11, <3>2 DEF RxNew, Written
  <2>3. /\ J[1] = k /\ p.data = Block(k) /\ Start(k) < Len(file) /\ k <= s
        /\ Sending => s + Len(up) + 1 <= k + 1 + Extra
    BY <1>1, <2>1, TakenFor
  <2>4. rx'.no = (rx.no + 1) % Numbers /\ rx'.held = p.data
    BY <2>2, StartedStays DEF Rx
  <2> HIDE DEF p
  <2>5. ReceiverAt(k + 1)'
    <3>1. rx'.no = Number(k + 1)
      BY <1>2, <2>4, NextNumber DEF ReceiverAt
    <3>2. rx'.held = Block(k)'
      BY <2>1, <2>3, <2>4, SameBlock
    <3>3. out' = SubSeq(file, 1, Start(k))
      <4>1. out' = out \o rx.held
        BY <2>2 DEF Writes
      <4>2. CASE k = 0
        <5>1. out' = <<>> /\ Start(k) = 0
          BY <1>2, <4>1, <4>2, Starts DEF ReceiverAt
        <5>2. SubSeq(file, 1, 0) = <<>>
          BY SubSeqEmpty
        <5> QED BY <5>1, <5>2
      <4>3. CASE k # 0
        <5>1. k - 1 \in Nat /\ (k - 1) + 1 = k
          BY <4>3
        <5>2. Start(k) <= Len(file)
          <6>1. Start(k) \in Nat /\ Len(file) \in Nat BY Starts, FileIs DEF Types
          <6> QED BY <6>1, <2>3
        <5>3. SubSeq(file, 1, Start(k - 1)) \o Block(k - 1) = SubSeq(file, 1, Start((k - 1) + 1))
          BY <5>1, <5>2, Joined DEF Types
        <5> QED BY <4>1, <4>3, <5>1, <5>3, <1>2 DEF ReceiverAt
      <4> QED BY <4>2, <4>3
    <3>4. k + 1 \in Nat /\ k + 1 # 0 /\ (k + 1) - 1 = k
      OBVIOUS
    <3>5. Start(k) < Len(file')
      BY <2>1, <2>3
    <3>6. out' = SubSeq(file', 1, Start(k))
      BY <2>1, <3>3
    <3> QED BY <3>1, <3>2, <3>4, <3>5, <3>6 DEF ReceiverAt
  <2>6. Passes(1)
    BY <2>1, <2>2, PassesOne
  <2>7. Ahead(k + 1, 1, J)
    <3>1. ASSUME NEW i \in 2..Len(down), down[i].kind = "packet" PROVE k + 1 <= J[i] + 1
      <4>1. i \in 1..Len(down) /\ 1 \in 1..i /\ down[1].kind = "packet"
        BY <2>1 DEF p, Types
      <4>2. J[1] <= J[i]
        BY <1>1, <3>1, <4>1 DEF Matched, Packets
      <4>3. J[i] \in Nat
        BY <4>1
      <4> QED BY <2>3, <4>2, <4>3
    <3>2. \A i \in 1 + 1..Len(down) : i \in 2..Len(down)
      OBVIOUS
    <3> QED BY <3>1, <3>2 DEF Ahead
  <2>8. ReceiverTurn(s, k + 1, 1)
    <3>1. <<"ACK">> \in Seq(Answers) /\ Len(<<"ACK">>) <= 1 /\ "ACK" \in Answers
      BY DEF Answers
    <3>2. up' = up \o <<"ACK">>
      BY <2>2, <3>1, AppendIsConcat DEF Types
    <3>3. 1 \in Nat /\ k + 1 \in {k, k + 1} /\ Extra' >= Extra /\ Extra \in Nat /\ Extra' \in Nat
      <4>1. Extra' >= Extra
        BY <2>1, <1>4, <1>11
      <4> QED BY <4>1, ExtraIs, ExtraIsThen
    <3>5. Len(<<"ACK">>) + Extra <= 1 + Extra'
      <4>1. Len(<<"ACK">>) = 1
        OBVIOUS
      <4>2. PICK x \in Nat, y \in Nat : Extra = x /\ Extra' = y /\ y >= x
        BY <3>3
      <4> QED BY <4>1, <4>2
    <3>4. Sending /\ <<"ACK">> = <<"ACK">> => s + Len(up) + 1 <= k + 1 + Extra
      BY <2>3
    <3> QED BY <1>1, <2>6, <3>1, <3>2, <3>3, <3>4, <3>5, ReceiverTakes
  <2>9. k + 1 <= s + 1
    BY <2>3
  <2>10. Extra' >= Extra
    BY <2>1, <1>4
  <2> QED BY <2>1, <2>5, <2>6, <2>7, <2>8, <2>9, <2>10, <1>3
<1>12. CASE RxLast
  <2> DEFINE p == Head(down)
  <2>1. UNCHANGED <<file, tx, out, free, hits>> /\ down # <<>> /\ p.kind = "packet" /\ p.no = rx.no - 1
    BY <1>12 DEF RxLast, Incoming, IsLast
  <2>2. rx' = [Started EXCEPT !.retrans = @ - 1] /\ up' = Append(up, "ACK") /\ down' = Tail(down)
    <3>1. [Started EXCEPT !.retrans = 0] \in Rx
      <4>1. Started \in Rx
        BY StartedStays
      <4> QED BY <4>1, OnceMoreTyped
    <3>2. ASSUME ReceiverEnds([Started EXCEPT !.retrans = 0], "retries", Cancel) PROVE FALSE
      <4> DEFINE r == [Started EXCEPT !.retrans = 0]
      <4>1. r \in Rx /\ ReceiverEnds(r, "retries", Cancel)
        BY <3>1, <3>2
      <4> HIDE DEF r
      <4> QED BY <4>1, EndsListening
    <3> QED BY <1>12, <3>2 DEF RxLast
  <2>3. J[1] + 1 = k /\ (Sending => s + Len(up) + 1 <= k + Extra)
    BY <1>1, <2>1, TakenFor
  <2>4. rx'.no = rx.no /\ rx'.held = rx.held
    BY <2>2, StartedStays DEF Rx
  <2>5. <<"ACK">> \in Seq(Answers) /\ Len(<<"ACK">>) <= 1 /\ "ACK" \in Answers
    BY DEF Answers
  <2>6. up' = up \o <<"ACK">>
    BY <2>2, <2>5, AppendIsConcat DEF Types
  <2>7. Passes(1) /\ 1 \in Nat /\ 1 # 0
    BY <2>1, <2>2, PassesOne
  <2>8. Sending /\ <<"ACK">> = <<"ACK">> => s + Len(up) + 1 <= k + Extra
    BY <2>3
  <2>9. UNCHANGED <<file, tx, out, hits>>
    BY <2>1
  <2> QED BY <2>4, <2>5, <2>6, <2>7, <2>8, <2>9, <1>5
<1>13. CASE RxReject
  <2>1. /\ UNCHANGED <<file, tx, out, free, hits>> /\ down # <<>> /\ Counted
        /\ rx' = Started /\ up' = Append(up, "NAK")
    BY <1>13 DEF RxReject, Incoming
  <2>2. PICK next \in Seq(Message) :
          /\ FlushInput(next)
          /\ \/ Head(down).kind # "rest" /\ next = Tail(down)
             \/ Head(down).kind = "rest" /\ next = Behead(down)
    BY <1>0, <1>13, <2>1 DEF RxReject, Incoming
  <2>3. PICK m \in Nat : Leaves(next, down', m)
    BY <2>2, LeavesFlush
  <2>4. PICK n \in Nat : Passes(n) /\ (n # 0 \/ strays' - strays = Len(up') - Len(up))
    BY <2>1, <2>2, <2>3, <1>14
  <2>5. rx'.no = rx.no /\ rx'.held = rx.held
    BY <2>1, StartedStays
  <2>6. <<"NAK">> \in Seq(Answers) /\ Len(<<"NAK">>) <= 1 /\ "NAK" \in Answers /\ <<"NAK">> # <<"ACK">>
    BY DEF Answers
  <2>7. up' = up \o <<"NAK">>
    BY <2>1, <2>6, AppendIsConcat DEF Types
  <2> QED BY <2>1, <2>4, <2>5, <2>6, <2>7, <1>5
<1> QED BY <1>7, <1>8, <1>9, <1>10, <1>11, <1>12, <1>13 DEF Receiver

(* What is held and what is written make the file's beginning; its whole, at *)
(* the end of the file if every answer was one that a packet waited for.     *)
LEMMA NothingTrimmed == Trimmed(<<>>) = <<>>
<1>1. <<>> \in Seq(Characters) /\ Len(<<>>) = 0
  OBVIOUS
<1>2. PICK n \in 0..Len(<<>>) : Trimmed(<<>>) = SubSeq(<<>>, 1, n)
  BY <1>1, TrimmedIs
<1>3. n = 0
  BY <1>1, <1>2
<1>4. SubSeq(<<>>, 1, 0) = <<>>
  BY SubSeqEmpty
<1> QED BY <1>2, <1>3, <1>4

LEMMA FileBegins ==
    ASSUME Types, NEW k \in Nat, ReceiverAt(k)
    PROVE  /\ Begun
           /\ Len(file) <= Start(k) => out \o Trimmed(rx.held) = file
<1>1. file \in Files
  BY DEF Types
<1>2. file \in Seq(Characters) /\ Len(file) \in Nat
  BY <1>1, FileIs
<1>3. CASE k = 0
  <2>1. out \o Trimmed(rx.held) = <<>>
    BY <1>3, NothingTrimmed DEF ReceiverAt
  <2>2. IsPrefix(<<>>, file)
    <3>1. <<>> = SubSeq(file, 1, 0)
      BY SubSeqEmpty
    <3> QED BY <1>2, <3>1 DEF IsPrefix
  <2>3. Len(file) <= Start(0) => file = <<>>
    <3>1. Start(0) = 0
      BY Starts
    <3>2. Len(file) = 0 => file = <<>>
      BY <1>2
    <3> QED BY <1>2, <3>1, <3>2
  <2> QED BY <1>3, <2>1, <2>2, <2>3 DEF Begun
<1>4. CASE k # 0
  <2>1. k - 1 \in Nat /\ (k - 1) + 1 = k
    BY <1>4
  <2>2. Start(k - 1) < Len(file) /\ out = SubSeq(file, 1, Start(k - 1)) /\ rx.held = Block(k - 1)
    BY <1>4 DEF ReceiverAt
  <2> QED BY <1>1, <2>1, <2>2, Continues DEF Begun
<1> QED BY <1>3, <1>4

LEMMA MatchedBegun == Types /\ Matching => Begun
<1> SUFFICES ASSUME Types, Matching PROVE Begun
  OBVIOUS
<1>1. PICK s \in Nat, k \in Nat, J \in [1..Len(down) -> Nat] : Matched(s, k, J)
  BY DEF Matching
<1>2. ReceiverAt(k)
  BY <1>1 DEF Matched
<1> QED BY <1>2, FileBegins

(* What is written and held changes only when a packet is taken for the      *)
(* next, and at the end of the file.                                         *)
LEMMA ReceiverKeeps ==
    ASSUME Types, Receiver, ~Listening'
    PROVE  \/ /\ UNCHANGED out /\ rx'.held = rx.held /\ rx'.result # "ok"
           \/ /\ RxEnd /\ out' = out \o Trimmed(rx.held) /\ rx'.held = <<>> /\ rx'.result = "ok"
<1> DEFINE Keeps == UNCHANGED out /\ rx'.held = rx.held /\ rx'.result # "ok"
<1>1. rx \in Rx /\ Started \in Rx /\ Started.held = rx.held /\ Started.result = rx.result
  BY StartedStays DEF Types
<1>0. rx.result = "none"
  BY DEF Receiver, RxTimeout, RxCancel, RxOther, RxEnd, RxNew, RxLast, RxReject,
     Incoming, Listening
<1>2. ASSUME AskAgain, UNCHANGED out PROVE Keeps
  <2>1. CASE ReceiverEnds(rx, "sync", Cancel)
    BY <2>1, <1>1, <1>2, EndsListening
  <2>2. CASE rx' = [rx EXCEPT !.retry = @ + 1] \/ rx' = [rx EXCEPT !.retry = 0, !.try = <<"NAK">>]
    <3>1. rx'.result = rx.result /\ rx'.held = rx.held
      BY <1>1, <2>2 DEF Rx
    <3>2. rx'.result # "none"
      BY DEF Listening
    <3> QED BY <1>0, <3>1, <3>2
  <2> QED BY <1>2, <2>1, <2>2 DEF AskAgain
<1>3. CASE RxTimeout
  BY <1>2, <1>3 DEF RxTimeout
<1>4. CASE RxCancel
  <2>1. UNCHANGED out /\ (ReceiverEnds(rx, "cancelled", <<"ACK">>) \/ AskAgain)
    BY <1>4 DEF RxCancel
  <2>2. CASE ReceiverEnds(rx, "cancelled", <<"ACK">>)
    BY <2>1, <2>2, <1>1, EndsListening
  <2> QED BY <2>1, <2>2, <1>2
<1>5. CASE RxOther
  BY <1>2, <1>5 DEF RxOther
<1>6. CASE RxEnd
  <2> DEFINE r == [rx EXCEPT !.held = <<>>]
  <2>1. r \in Rx /\ r.held = <<>>
    <3>1. <<>> \in Seq(Characters) OBVIOUS
    <3> QED BY <3>1, <1>1 DEF Rx
  <2>2. \/ Writes(Trimmed(rx.held)) /\ ReceiverEnds(r, "ok", <<"ACK">>)
        \/ UNCHANGED out /\ ReceiverEnds(rx, "space", Cancel)
    BY <1>6 DEF RxEnd
  <2> HIDE DEF r
  <2>3. CASE Writes(Trimmed(rx.held)) /\ ReceiverEnds(r, "ok", <<"ACK">>)
    BY <2>1, <2>3, <1>6, EndsListening DEF Writes
  <2>4. CASE UNCHANGED out /\ ReceiverEnds(rx, "space", Cancel)
    BY <2>4, <1>1, EndsListening
  <2> QED BY <2>2, <2>3, <2>4
<1>7. CASE RxNew
  <2>1. CASE UNCHANGED out /\ ReceiverEnds(Started, "space", Cancel)
    BY <2>1, <1>1, EndsListening
  <2>2. CASE rx' = [Started EXCEPT !.held = Head(down).data, !.no = (@ + 1) % Numbers, !.retrans = MaxRetrans]
    <3>1. rx'.result = rx.result
      BY <2>2, <1>1 DEF Rx
    <3> QED BY <1>7, <3>1 DEF RxNew, Incoming, Listening
  <2> QED BY <1>7, <2>1, <2>2 DEF RxNew
<1>8. CASE RxLast
  <2>1. UNCHANGED out
    BY <1>8 DEF RxLast
  <2>2. CASE rx' = [Started EXCEPT !.retrans = @ - 1]
    <3>1. rx'.result = rx.result
      BY <2>2, <1>1 DEF Rx
    <3> QED BY <1>8, <3>1 DEF RxLast, Incoming, Listening
  <2>3. CASE ReceiverEnds([Started EXCEPT !.retrans = 0], "retries", Cancel)
    <3> DEFINE r == [Started EXCEPT !.retrans = 0]
    <3>1. r \in Rx /\ r.held = rx.held
      BY <1>1 DEF Rx
    <3>2. ReceiverEnds(r, "retries", Cancel)
      BY <2>3
    <3> HIDE DEF r
    <3> QED BY <2>1, <3>1, <3>2, EndsListening
  <2> QED BY <1>8, <2>2, <2>3 DEF RxLast
<1>9. CASE RxReject
  BY <1>1, <1>9 DEF RxReject, Incoming, Listening
<1> QED BY <1>3, <1>4, <1>5, <1>6, <1>7, <1>8, <1>9 DEF Receiver

LEMMA EndIsWhole ==
    ASSUME Types, Types', Matching, RxEnd, Extra' = 0
    PROVE  out \o Trimmed(rx.held) = file
<1>1. PICK s \in Nat, k \in Nat, J \in [1..Len(down) -> Nat] : Matched(s, k, J)
  BY DEF Matching
<1>2. ReceiverAt(k) /\ s <= k + Extra /\ EndSent(s)
  BY <1>1 DEF Matched, Apart
<1>0. Extra = 0 /\ strays' = strays
  <2>1. Extra \in Nat /\ strays \in Nat /\ strays' \in Nat /\ strays' >= strays
    BY ExtraIs, StraysGrow DEF Types, Receiver
  <2>2. Extra' - Extra = strays' - strays
    BY ExtraCounts DEF RxEnd
  <2>3. PICK x \in Nat, v \in Nat, w \in Nat : Extra = x /\ strays = v /\ strays' = w /\ w >= v
    BY <2>1
  <2>4. 0 - x = w - v
    BY <2>2, <2>3
  <2>5. x = 0 /\ w = v
    BY <2>3, <2>4
  <2> QED BY <2>3, <2>5
<1>3. s <= k
  BY <1>0, <1>2
<1>6. Head(down).kind = "EOT"
  <2>1. Head(down).kind \in {"EOT", "rest"}
    BY DEF RxEnd, Incoming
  <2>2. ASSUME Head(down).kind = "rest" PROVE FALSE
    <3>1. strays' = strays + (Len(up') - Len(up)) /\ strays \in Nat /\ Len(up) \in Nat
      BY <2>2 DEF RxEnd, Counted, Types
    <3>2. Len(up') = Len(up) + Len(<<"ACK">>) \/ Len(up') = Len(up) + Len(Cancel)
      BY EndsGrows, CancelTyped DEF RxEnd
    <3>3. Len(<<"ACK">>) = 1 /\ Len(Cancel) = 3
      BY DEF Cancel
    <3> QED BY <3>1, <3>2, <3>3, <1>0
  <2> QED BY <2>1, <2>2
<1>4. Len(file) <= Start(s)
  <2>1. 1 \in 1..Len(down) /\ down[1] = Head(down) /\ Head(down).kind = "EOT"
    BY <1>6 DEF Types, RxEnd, Incoming
  <2> QED BY <1>2, <2>1 DEF EndSent
<1>5. Len(file) <= Start(k)
  <2>1. Start(s) <= Start(k) /\ Start(s) \in Nat /\ Start(k) \in Nat
    BY <1>3, Starts
  <2>2. Len(file) \in Nat
    BY FileIs DEF Types
  <2> QED BY <1>4, <2>1, <2>2
<1> QED BY <1>2, <1>5, FileBegins

(* The line: the answers that are left are some of those that were sent.     *)
Left ==
    /\ Len(up') <= Len(up)
    /\ \A i \in 1..Len(up') : up'[i] = "ACK" => \E h \in 1..Len(up) : i <= h /\ up[h] = "ACK"

LEMMA LineMatches ==
    ASSUME Types, Types', UNCHANGED <<file, tx, rx, out, strays>>, NEW kind, Hit(kind),
           NEW n \in Nat, Passes(n), Left, Matching
    PROVE  Matching'
<1>1. PICK s \in Nat, k \in Nat, J \in [1..Len(down) -> Nat] : Matched(s, k, J)
  BY DEF Matching
<1>2. PICK x \in Nat, y \in Nat : Extra = x /\ Extra' = y /\ x <= y
  <2>1. Extra \in Nat /\ Extra' \in Nat /\ Extra' >= Extra
    BY ExtraIs, ExtraGrows
  <2> QED BY <2>1
<1>3. ReceiverAt(k) /\ k <= s + 1
  BY <1>1 DEF Matched, Apart
<1>4. ReceiverAt(k)'
  BY <1>3, ReceiverStays
<1>5. Ahead(k, n, J)
  BY <1>1, AheadStays
<1>6. ReceiverTurn(s, k, n)
  <2> SUFFICES ASSUME Sending PROVE ReceiverTurn(s, k, n)
    BY DEF ReceiverTurn
  <2> DEFINE u == Len(up)
             v == Len(up')
             d == Len(down)
             c == Len(down')
  <2>1. u \in Nat /\ v \in Nat /\ d \in Nat /\ c \in Nat
    BY DEF Types
  <2>2. c = d - n /\ v <= u
    BY DEF Passes, Leaves, Left
  <2>3. u + d <= 1 + x /\ \A i \in 1..u : up[i] = "ACK" => s + i <= k + x
    BY <1>1, <1>2 DEF Matched, InTurn
  <2>4. \A i \in 1..v : up'[i] = "ACK" => \E h \in 1..u : i <= h /\ up[h] = "ACK"
    BY DEF Left
  <2> HIDE DEF u, v, d, c
  <2>5. v + c <= 1 + y /\ v + x <= u + n + y
    BY <2>1, <2>2, <2>3, <1>2
  <2>6. ASSUME NEW i \in 1..v, up'[i] = "ACK" PROVE s + i <= k + y
    <3>1. PICK h \in 1..u : i <= h /\ up[h] = "ACK"
      BY <2>4, <2>6
    <3>2. s + h <= k + x
      BY <2>3, <3>1
    <3>3. h \in Nat /\ i \in Nat
      BY <2>1
    <3> QED BY <3>1, <3>2, <3>3, <1>2
  <2> QED BY <1>2, <2>5, <2>6 DEF ReceiverTurn, u, v, c
<1>7. Extra' >= Extra
  BY <1>2
<1>8. \E K \in [1..Len(down') -> Nat] : Matched(s, k, K)'
  BY <1>1, <1>3, <1>4, <1>5, <1>6, <1>7, ReceiverMatches
<1> QED BY <1>8 DEF Matching

LEMMA LineMatchesAll == Types /\ Types' /\ (Lose \/ Spoil) /\ Matching => Matching'
<1> SUFFICES ASSUME Types, Types', Lose \/ Spoil, Matching PROVE Matching'
  OBVIOUS
<1>1. UNCHANGED <<file, tx, rx, out, strays>>
  BY DEF Lose, Spoil
<1>2. up \in Seq(Answers) /\ down \in Seq(Message) /\ 0 \in Nat /\ 1 \in Nat
  BY DEF Types
<1>3. ASSUME NEW kind, Hit(kind), NEW n \in Nat, Passes(n), Left PROVE Matching'
  BY <1>1, <1>3, LineMatches
<1>5. UNCHANGED up => Left
  <2>1. \A i \in 1..Len(up) : i <= i
    OBVIOUS
  <2>2. Len(up) <= Len(up)
    BY <1>2
  <2> QED BY <2>1, <2>2 DEF Left
<1>6. CASE down # <<>> /\ down' = Tail(down) /\ UNCHANGED up /\ \E kind : Hit(kind)
  <2>1. Passes(1)
    BY <1>6, PassesOne
  <2> QED BY <2>1, <1>2, <1>3, <1>5, <1>6
<1>4. CASE down' = Behead(down) /\ UNCHANGED up /\ \E kind : Hit(kind)
  <2>1. \E n \in Nat : Passes(n)
    BY <1>2, <1>4, LeavesBehead DEF Passes
  <2> QED BY <2>1, <1>3, <1>4, <1>5
<1>7. CASE up # <<>> /\ up' = Tail(up) /\ Hit(Head(up)) /\ UNCHANGED down
  <2>1. Passes(0)
    BY <1>7, PassesNone
  <2>2. Left
    <3> DEFINE u == Len(up)
    <3>1. u \in Nat \ {0} /\ Len(up') = u - 1 /\ \A i \in 1..u - 1 : up'[i] = up[i + 1]
      BY <1>2, <1>7
    <3> HIDE DEF u
    <3>2. \A i \in 1..u - 1 : i + 1 \in 1..u /\ i <= i + 1
      BY <3>1
    <3>3. \A i \in 1..u - 1 : up'[i] = "ACK" => \E h \in 1..u : i <= h /\ up[h] = "ACK"
      BY <3>1, <3>2
    <3>4. u - 1 <= u
      BY <3>1
    <3> QED BY <3>1, <3>3, <3>4 DEF Left, u
  <2> QED BY <2>1, <2>2, <1>2, <1>3, <1>7
<1>8. CASE /\ down # <<>> /\ UNCHANGED up /\ \E kind : Hit(kind)
           /\ \/ down' = <<Control("noise")>> \o Tail(down)
              \/ down' = Rest(Size(Head(down))) \o Tail(down)
  <2>1. Head(down) \in Message /\ 1 \in 1..Len(down) /\ Tail(down) = SubSeq(down, 1 + 1, Len(down))
    BY <1>2, <1>8, TailIsSubSeq
  <2>2. Control("noise") \in Message /\ Control("noise").kind = "noise"
    BY ControlType DEF Kinds, Control
  <2>3. CASE down' = <<Control("noise")>> \o Tail(down)
    <3>1. Leaves(down, down', 1 - 1)
      BY <1>2, <2>1, <2>2, <2>3, LeavesOther
    <3> QED BY <3>1, <1>2, <1>3, <1>5, <1>8 DEF Passes
  <2>4. CASE down' = Rest(Size(Head(down))) \o Tail(down)
    <3>1. Size(Head(down)) \in Int
      BY <2>1, SizeTyped
    <3>2. \E n \in Nat : Passes(n)
      BY <1>2, <2>1, <2>4, <3>1, LeavesRest DEF Passes
    <3> QED BY <3>2, <1>3, <1>5, <1>8
  <2> QED BY <1>8, <2>3, <2>4
<1>10. CASE down # <<>> /\ down' = [down EXCEPT ![1].ok = FALSE] /\ UNCHANGED up /\ \E kind : Hit(kind)
  <2> DEFINE m == [down[1] EXCEPT !.ok = FALSE]
  <2>1. 1 \in 1..Len(down) /\ down[1] \in Message /\ Len(down) \in Nat
    BY <1>2, <1>10
  <2>2. m.kind = down[1].kind /\ m.no = down[1].no /\ m.data = down[1].data
    BY <2>1 DEF Message
  <2>3. down' = [down EXCEPT ![1] = m]
    BY <1>10
  <2> HIDE DEF m
  <2>4. Len(down') = Len(down) /\ \A i \in 1..Len(down) : down'[i] = IF i = 1 THEN m ELSE down[i]
    BY <1>2, <2>3
  <2>5. Passes(0)
    <3>1. 0 \in 0..Len(down) /\ Len(down) - 0 = Len(down) /\ \A i \in 1..Len(down) : i + 0 = i
      BY <2>1
    <3> QED BY <2>2, <2>4, <3>1 DEF Passes, Leaves
  <2> QED BY <2>5, <1>2, <1>3, <1>5, <1>10
<1>9. CASE up # <<>> /\ up' = [up EXCEPT ![1] = "noise"] /\ Hit(Head(up)) /\ UNCHANGED down
  <2>1. Passes(0)
    BY <1>9, PassesNone
  <2>2. Left
    <3>1. Len(up') = Len(up) /\ \A i \in 1..Len(up) : up'[i] = IF i = 1 THEN "noise" ELSE up[i]
      BY <1>2, <1>9
    <3>2. \A i \in 1..Len(up) : i <= i
      OBVIOUS
    <3>3. Len(up) <= Len(up)
      BY <1>2
    <3> QED BY <3>1, <3>2, <3>3 DEF Left
  <2> QED BY <2>1, <2>2, <1>2, <1>3, <1>9
<1> QED BY <1>4, <1>6, <1>7, <1>8, <1>9, <1>10 DEF Lose, Spoil

-----------------------------------------------------------------------------
(* The theorems.                                                             *)

LEMMA InvInit == Init => Inv
<1> SUFFICES ASSUME Init PROVE Inv
  OBVIOUS
<1>1. Types
  BY TypesInit
<1>2. /\ file \in Files /\ down = <<>> /\ up = <<"C">> /\ out = <<>> /\ hits = <<>> /\ strays = 0
      /\ tx = [at |-> "sync", no |-> 1, pos |-> 0, crc |-> FALSE, retry |-> 0, result |-> "none"]
      /\ rx = [try |-> <<"C">>, no |-> 1, crc |-> FALSE, retry |-> 0, retrans |-> MaxRetrans,
               held |-> <<>>, result |-> "none"]
  BY DEF Init
<1>3. tx.at = "sync" /\ tx.no = 1 /\ tx.pos = 0 /\ rx.no = 1 /\ rx.held = <<>> /\ rx.result = "none"
  BY <1>2
<1>4. Len(down) = 0 /\ Len(up) = 1 /\ (\A i \in 1..Len(up) : up[i] # "ACK") /\ Len(hits) = 0
  BY <1>2
<1>5. Extra = 0
  BY <1>2, <1>4 DEF Extra, Were
<1>6. PICK J \in [1..Len(down) -> Nat] : TRUE
  <2>1. [i \in 1..Len(down) |-> 0] \in [1..Len(down) -> Nat]
    OBVIOUS
  <2> QED BY <2>1
<1>7. \A i \in 1..Len(down) : FALSE
  BY <1>4
<1>8. SenderAt(0)
  BY <1>3, FirstNumber, Starts DEF SenderAt
<1>9. ReceiverAt(0)
  BY <1>2, <1>3, FirstNumber DEF ReceiverAt
<1>10. Apart(0, 0)
  BY <1>5 DEF Apart
<1>11. Packets(0, 0, J) /\ EndSent(0)
  BY <1>7 DEF Packets, EndSent
<1>12. InTurn(0, 0, J)
  BY <1>4, <1>5, <1>7 DEF InTurn
<1>13. Matched(0, 0, J)
  BY <1>8, <1>9, <1>10, <1>11, <1>12 DEF Matched
<1>14. Matching
  BY <1>13 DEF Matching
<1>15. KeptWhole
  BY <1>3 DEF KeptWhole, Kept
<1> QED BY <1>1, <1>14, <1>15, MatchedBegun DEF Inv

LEMMA ExtraNeverShrinks ==
    ASSUME Types, Types', [Next]_vars
    PROVE  Extra' >= Extra
<1>1. Extra \in Nat /\ Extra' \in Nat
  BY ExtraIs, ExtraIsThen
<1>2. CASE UNCHANGED <<hits, strays>>
  BY <1>1, <1>2, ExtraKept
<1>3. CASE UNCHANGED strays /\ \E kind : Hit(kind)
  BY <1>3, ExtraGrows
<1>4. CASE Receiver /\ UNCHANGED hits
  BY <1>4, StraysGrow, ExtraGrowsWith
<1>5. Lose \/ Spoil => UNCHANGED strays /\ \E kind : Hit(kind)
  BY DEF Lose, Spoil
<1>6. Transmitter => UNCHANGED strays /\ (UNCHANGED hits \/ \E kind : Hit(kind))
  BY DEF Transmitter, TxTimeout, TxStart, TxAck, TxCancel, TxOther, InTime
<1>7. Receiver => UNCHANGED hits \/ (UNCHANGED strays /\ \E kind : Hit(kind))
  BY DEF Receiver, RxTimeout, RxCancel, RxOther, RxEnd, RxNew, RxLast, RxReject, InTime
<1> QED BY <1>2, <1>3, <1>4, <1>5, <1>6, <1>7 DEF Next, vars

LEMMA ListeningWas ==
    ASSUME Types, [Next]_vars, Listening'
    PROVE  Listening
<1>1. UNCHANGED rx => Listening
  BY DEF Listening
<1> QED BY <1>1 DEF Next, vars, Transmitter, TxTimeout, TxStart, TxAck, TxCancel,
           TxOther, Lose, Spoil,
           Receiver, RxTimeout, RxCancel, RxOther, RxEnd, RxNew, RxLast, RxReject, Incoming

LEMMA MatchingStep ==
    ASSUME Types, Types', [Next]_vars, Distinct, Matching, Listening'
    PROVE  Matching'
<1>1. Listening
  BY ListeningWas
<1>2. CASE Transmitter
  BY <1>1, <1>2, TransmitterMatches
<1>3. CASE Receiver
  BY <1>3, ReceiverMatchesAll
<1>4. CASE Lose \/ Spoil
  BY <1>4, LineMatchesAll
<1>5. CASE UNCHANGED vars
  <2>1. UNCHANGED <<file, down, up, tx, rx, out, hits, strays>>
    BY <1>5 DEF vars
  <2>2. \A j : Block(j)' = Block(j)
    BY <2>1, SameBlock
  <2>3. PICK s \in Nat, k \in Nat, J \in [1..Len(down) -> Nat] : Matched(s, k, J)
    BY DEF Matching
  <2>4. SenderAt(s) /\ ReceiverAt(k) /\ Apart(s, k) /\ Packets(s, k, J) /\ EndSent(s)
    BY <2>3 DEF Matched
  <2>5. Extra' = Extra
    BY <2>1, ExtraKept
  <2>6. SenderAt(s)' /\ EndSent(s)'
    BY <2>1, <2>4 DEF SenderAt, EndSent
  <2>7. ReceiverAt(k)'
    BY <2>1, <2>4, ReceiverStays
  <2>8. Apart(s, k)'
    BY <2>4, <2>5 DEF Apart
  <2>9. Packets(s, k, J)'
    BY <2>1, <2>2, <2>4 DEF Packets
  <2>10. Sending' => InTurn(s, k, J)'
    <3>1. Sending' => InTurn(s, k, J)
      BY <2>1, <2>3 DEF Matched, Sending
    <3> QED BY <2>1, <2>5, <3>1 DEF InTurn
  <2>11. Matched(s, k, J)'
    BY <2>6, <2>7, <2>8, <2>9, <2>10 DEF Matched
  <2>12. J \in [1..Len(down') -> Nat]
    BY <2>1
  <2> QED BY <2>11, <2>12 DEF Matching
<1> QED BY <1>2, <1>3, <1>4, <1>5 DEF Next

LEMMA InvStep == Inv /\ [Next]_vars => Inv'
<1> SUFFICES ASSUME Inv, [Next]_vars PROVE Inv'
  OBVIOUS
<1>1. Types /\ Types'
  BY TypesStep DEF Inv
<1>2. /\ Distinct' => Distinct
      /\ Extra' = 0 => Extra = 0
  <2>1. Extra \in Nat /\ Extra' \in Nat /\ Extra' >= Extra /\ Numbers \in Nat
    <3>1. Extra' >= Extra
      BY <1>1, ExtraNeverShrinks
    <3>2. Extra \in Nat /\ Extra' \in Nat /\ Numbers \in Nat
      BY <1>1, ExtraIs, ExtraIsThen, XModemAssumption
    <3> QED BY <3>1, <3>2
  <2>2. PICK x \in Nat, y \in Nat : Extra = x /\ Extra' = y /\ y >= x
    BY <2>1
  <2>3. (y + 1 < Numbers => x + 1 < Numbers) /\ (y = 0 => x = 0)
    BY <2>1, <2>2
  <2> QED BY <2>2, <2>3 DEF Distinct
<1>3. /\ Distinct => Begun /\ (Listening => Matching)
      /\ KeptWhole
  BY DEF Inv
<1>4. Extra = 0 => Distinct
  <2>1. Numbers \in Nat \ {0, 1}
    BY XModemAssumption
  <2> QED BY <2>1 DEF Distinct
<1>5. Distinct' /\ Listening' => Matching'
  BY <1>1, <1>2, <1>3, MatchingStep, ListeningWas
<1>6. Types' /\ Matching' => Begun'
  BY MatchedBegun, PTL
<1>7. CASE Receiver /\ Listening /\ ~Listening'
  <2>1. ASSUME UNCHANGED out, rx'.held = rx.held, rx'.result # "ok"
        PROVE  (Distinct' => Begun') /\ KeptWhole'
    <3>1. Distinct' => Begun'
      BY <1>2, <1>3, <2>1, <1>7 DEF Begun, Receiver, RxTimeout, RxCancel,
         RxOther, RxEnd, RxNew,
         RxLast, RxReject
    <3>2. KeptWhole'
      BY <2>1 DEF KeptWhole, Kept
    <3> QED BY <3>1, <3>2
  <2>2. ASSUME RxEnd, out' = out \o Trimmed(rx.held), rx'.held = <<>>
        PROVE  (Distinct' => Begun') /\ KeptWhole'
    <3>1. UNCHANGED file
      BY <2>2 DEF RxEnd
    <3>2. out' \o Trimmed(rx'.held) = out'
      <4>1. Trimmed(rx'.held) = <<>>
        BY <2>2, NothingTrimmed
      <4>2. out' \in Seq(Characters)
        BY <1>1 DEF Types
      <4> QED BY <4>1, <4>2
    <3>3. Begun => Begun'
      BY <2>2, <3>1, <3>2 DEF Begun
    <3>4. Extra' = 0 => out' = file
      BY <1>1, <1>2, <1>3, <1>4, <1>7, <2>2, EndIsWhole
    <3>5. KeptWhole'
      BY <1>2, <3>1, <3>4 DEF KeptWhole, Kept
    <3> QED BY <1>2, <1>3, <3>3, <3>5
  <2>3. (Distinct' => Begun') /\ KeptWhole'
    BY <1>1, <1>7, <2>1, <2>2, ReceiverKeeps
  <2> QED BY <2>3, <1>1, <1>7 DEF Inv
<1>8. CASE Listening'
  <2>1. KeptWhole'
    BY <1>8 DEF KeptWhole, Kept, Listening
  <2> QED BY <2>1, <1>1, <1>5, <1>6, <1>8 DEF Inv
<1>9. CASE UNCHANGED <<file, rx, out>> /\ ~Listening'
  <2>1. Begun => Begun'
    BY <1>9 DEF Begun
  <2>2. KeptWhole'
    BY <1>2, <1>3, <1>9 DEF KeptWhole, Kept
  <2> QED BY <2>1, <2>2, <1>1, <1>2, <1>3, <1>9 DEF Inv
<1>10. (Receiver /\ Listening) \/ UNCHANGED <<file, rx, out>>
  BY DEF Next, vars, Transmitter, TxTimeout, TxStart, TxAck, TxCancel, TxOther,
     Lose, Spoil,
     Receiver, RxTimeout, RxCancel, RxOther, RxEnd, RxNew, RxLast, RxReject, Incoming
<1> QED BY <1>7, <1>8, <1>9, <1>10

(* Whatever is lost, spoilt, repeated or late, no block is written twice,    *)
(* left out or in another's place, and no byte of it but the padding of the  *)
(* last is dropped (xmodemReceive, write_packet), as long as there are more  *)
(* packet numbers than answers that no packet waits for: any number of       *)
(* faults of another kind is borne.                                          *)
THEOREM BlocksInOrder == Spec => []InOrder
<1>1. Inv => InOrder
  BY DEF Inv, InOrder, Begun, Distinct, Extra
<1> QED BY <1>1, InvInit, InvStep, PTL DEF Spec

(* A file that is kept is whole, whatever the line does, unless an answer was*)
(* too late or one to a byte of a packet that has lost its start ("Don't     *)
(* leave a truncated, incomplete file behind", FileCommands.cpp:629).        *)
THEOREM KeptIsWhole == Spec => []KeptWhole
<1>1. Inv => KeptWhole
  BY DEF Inv
<1> QED BY <1>1, InvInit, InvStep, PTL DEF Spec
=============================================================================
