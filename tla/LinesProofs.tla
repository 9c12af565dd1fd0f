---------------------------- MODULE LinesProofs ----------------------------
(* Proofs about Lines: for every set of clients and files, every queue      *)
(* length and every bound, a channel's count of references is the number of *)
(* those who hold on to it, and a channel that anyone still holds is never  *)
(* deleted.                                                                 *)
EXTENDS Lines, FiniteSetTheorems, TLAPS

-----------------------------------------------------------------------------
(* The counts of references.                                                *)

(* What makes RefsHeld inductive.  A reference is handed on, so each place   *)
(* it is handed to must be empty: the queue when the polling task fills it,  *)
(* the protocol task when it takes a line, the leader when a job begins.     *)
ProtoFree == proto.at \in {"receive", "pass"} => proto.channel = None
QueueFree == poll.at = "offer" => cmd = Empty
LeaderFree == job = <<>> => leader = None

Counts ==
    /\ refs \in [Channels -> Int]
    /\ job \in Seq(Files)
    /\ proto = [at |-> proto.at, channel |-> proto.channel,
                out |-> proto.out, line |-> proto.line]
    /\ ProtoFree /\ QueueFree /\ LeaderFree
    /\ RefsHeld

(* No channel holds a reference in the initial state. *)
LEMMA CountsInit == Init => Counts
BY LinesAssumption
   DEF Init, Counts, RefsHeld, One, ProtoFree, QueueFree, LeaderFree,
       Empty, Polling, Resting

(* What acquiring and releasing a reference does to each count. *)
LEMMA AcquiredCounts ==
    ASSUME refs \in [Channels -> Int], NEW x
    PROVE  /\ Acquired(x) \in [Channels -> Int]
           /\ \A c \in Channels : Acquired(x)[c] = refs[c] + One(x = c)
<1>1. Acquired(x) \in [Channels -> Int]
  <2>1. CASE x \in Channels
    BY <2>1 DEF Acquired
  <2>2. CASE x \notin Channels
    <3>1. Acquired(x) = refs
      BY <2>2 DEF Acquired
    <3> QED BY <3>1
  <2> QED BY <2>1, <2>2
<1>2. ASSUME NEW c \in Channels PROVE Acquired(x)[c] = refs[c] + One(x = c)
  <2>1. CASE x = c
    BY <2>1 DEF Acquired, One
  <2>2. CASE x # c
    BY <2>2 DEF Acquired, One
  <2> QED BY <2>1, <2>2
<1> QED BY <1>1, <1>2

LEMMA ReleasedCounts ==
    ASSUME refs \in [Channels -> Int], NEW x
    PROVE  /\ Released(x) \in [Channels -> Int]
           /\ \A c \in Channels : Released(x)[c] = refs[c] - One(x = c)
<1>1. Released(x) \in [Channels -> Int]
  <2>1. CASE x \in Channels
    BY <2>1 DEF Released
  <2>2. CASE x \notin Channels
    <3>1. Released(x) = refs
      BY <2>2 DEF Released
    <3> QED BY <3>1
  <2> QED BY <2>1, <2>2
<1>2. ASSUME NEW c \in Channels PROVE Released(x)[c] = refs[c] - One(x = c)
  <2>1. CASE x = c
    BY <2>1 DEF Released, One
  <2>2. CASE x # c
    BY <2>2 DEF Released, One
  <2> QED BY <2>1, <2>2
<1> QED BY <1>1, <1>2

(* Ending a file or the whole job gives back the leader's reference exactly  *)
(* when the stack is empty.                                                  *)
LEMMA PopCounts ==
    ASSUME Counts, NEW d \in 0..Len(job), PopTo(d),
           UNCHANGED <<cmd, proto>>,
           poll.at # "client", poll'.at \notin {"client", "offer"}
    PROVE  Counts'
<1>1. job' \in Seq(Files) /\ Len(job') = d
  BY DEF Counts, PopTo
<1>2. LeaderFree'
  BY <1>1 DEF Counts, PopTo, LeaderFree
<1>3. refs' \in [Channels -> Int] /\ RefsHeld'
  <2>1. CASE d = 0 /\ leader # None
    BY <2>1, LinesAssumption DEF Counts, PopTo, RefsHeld, One, Released
  <2>2. CASE ~(d = 0 /\ leader # None)
    BY <2>2 DEF Counts, PopTo, RefsHeld, One
  <2> QED BY <2>1, <2>2
<1> QED BY <1>1, <1>2, <1>3 DEF Counts, ProtoFree, QueueFree

(* Every step of the polling task keeps the count. *)
LEMMA PollingCounts == Counts /\ PollingTask => Counts'
<1> SUFFICES ASSUME Counts, PollingTask PROVE Counts'
  OBVIOUS
<1> USE LinesAssumption DEF jobVars
<1>1. CASE PollChannels
  BY <1>1 DEF PollChannels, Counts, RefsHeld, One, Polling,
              ProtoFree, QueueFree, LeaderFree
<1>2. CASE PollJob
  BY <1>2 DEF PollJob, Counts, RefsHeld, One, Polling,
              ProtoFree, QueueFree, LeaderFree
<1>3. CASE PollAbort
  <2>1. 0 \in 0..Len(job)
    BY DEF Counts
  <2> QED BY <1>3, <2>1, PopCounts DEF PollAbort, Polling
<1>4. CASE PollFeed
  <2>1. (poll.at = "offer")' => cmd = Empty
    BY <1>4 DEF PollFeed, MayFeed, Polling
  <2>2. poll'.at # "client"
    BY <1>4 DEF PollFeed, Polling
  <2>3. poll.at # "client" /\ UNCHANGED <<refs, cmd, proto, job, leader>>
    BY <1>4 DEF PollFeed
  <2>4. RefsHeld'
    BY <2>2, <2>3 DEF Counts, RefsHeld, One
  <2> QED BY <2>1, <2>3, <2>4 DEF Counts, ProtoFree, QueueFree, LeaderFree
<1>5. CASE PollOffer
  <2>1. refs' \in [Channels -> Int] /\ RefsHeld'
    <3>1. /\ poll.at # "client" /\ poll'.at # "client"
          /\ cmd.channel = None
          /\ UNCHANGED <<proto, leader>>
      BY <1>5 DEF PollOffer, Counts, QueueFree, Polling, Empty
    <3>2. CASE UNCHANGED <<cmd, refs>>
      BY <3>1, <3>2 DEF Counts, RefsHeld, One
    <3>3. CASE cmd'.channel = poll.channel /\ refs' = Acquired(poll.channel)
      <4>1. /\ refs' \in [Channels -> Int]
            /\ \A c \in Channels : refs'[c] = refs[c] + One(cmd'.channel = c)
        BY <3>3, AcquiredCounts DEF Counts
      <4>2. ASSUME NEW c \in Channels
            PROVE  refs'[c] = One(cmd'.channel = c) + One(proto'.channel = c)
                            + One(leader' = c)
                            + One(poll'.at = "client" /\ poll'.channel = c)
        <5>1. refs'[c] = refs[c] + One(cmd'.channel = c)
          BY <4>1
        <5>2. refs[c] = One(proto.channel = c) + One(leader = c)
          BY <3>1 DEF Counts, RefsHeld, One
        <5>3. One(poll'.at = "client" /\ poll'.channel = c) = 0
          BY <3>1 DEF One
        <5> QED BY <3>1, <5>1, <5>2, <5>3 DEF One
      <4> QED BY <4>1, <4>2 DEF RefsHeld
    <3> QED BY <1>5, <3>2, <3>3 DEF PollOffer
  <2> QED BY <1>5, <2>1 DEF PollOffer, Counts, Polling, ProtoFree, QueueFree,
             LeaderFree
<1>6. CASE PollEof
  <2> DEFINE d == IF JobActive THEN Len(job) - 1 ELSE 0
  <2>1. d \in 0..Len(job)
    BY DEF Counts, JobActive
  <2>2. PopTo(d)
    BY <1>6 DEF PollEof
  <2> HIDE DEF d
  <2> QED BY <1>6, <2>1, <2>2, PopCounts DEF PollEof, Polling
<1>7. CASE PollFailed
  <2>1. 0 \in 0..Len(job)
    BY DEF Counts
  <2> QED BY <1>7, <2>1, PopCounts DEF PollFailed, Polling
<1>8. CASE PollInput
  <2> DEFINE c == NextTurn
  <2>1. CASE c = None
    BY <1>8, <2>1 DEF PollInput, Counts, RefsHeld, One, Polling,
              ProtoFree, QueueFree, LeaderFree
  <2>2. CASE c # None
    <3>1. /\ poll.at = "input"
          /\ poll'.at = "client" /\ poll'.channel = c
          /\ refs' = Acquired(c)
          /\ UNCHANGED <<cmd, proto, leader, job>>
      BY <1>8, <2>2 DEF PollInput
    <3> HIDE DEF c
    <3>2. refs' \in [Channels -> Int]
          /\ \A d \in Channels : refs'[d] = refs[d] + One(c = d)
      BY <3>1, AcquiredCounts DEF Counts
    <3>3. RefsHeld'
      BY <3>1, <3>2 DEF Counts, RefsHeld, One
    <3> QED BY <3>1, <3>2, <3>3 DEF Counts, ProtoFree, QueueFree, LeaderFree
  <2> QED BY <2>1, <2>2
<1>9. CASE PollClient
  <2>1. refs' \in [Channels -> Int] /\ RefsHeld'
    <3>1. poll.at = "client" /\ poll'.at = "top" /\ UNCHANGED <<proto, leader>>
      BY <1>9 DEF PollClient, Polling
    <3>2. CASE ~KeptOut
      <4>1. UNCHANGED refs /\ cmd.channel = None /\ cmd'.channel = poll.channel
        BY <1>9, <3>2 DEF PollClient, KeptOut, Empty
      <4> QED BY <3>1, <4>1 DEF Counts, RefsHeld, One
    <3>3. CASE KeptOut
      <4>1. UNCHANGED cmd /\ refs' = Released(poll.channel)
        BY <1>9, <3>3 DEF PollClient
      <4>2. /\ refs' \in [Channels -> Int]
            /\ \A c \in Channels : refs'[c] = refs[c] - One(poll.channel = c)
        BY <4>1, ReleasedCounts DEF Counts
      <4>3. ASSUME NEW c \in Channels
            PROVE  refs'[c] = One(cmd'.channel = c) + One(proto'.channel = c)
                            + One(leader' = c)
                            + One(poll'.at = "client" /\ poll'.channel = c)
        <5>1. refs'[c] = refs[c] - One(poll.channel = c)
          BY <4>2
        <5>2. refs[c] = One(cmd.channel = c) + One(proto.channel = c)
                      + One(leader = c) + One(poll.channel = c)
          BY <3>1 DEF Counts, RefsHeld
        <5>3. One(poll'.at = "client" /\ poll'.channel = c) = 0
          BY <3>1 DEF One
        <5> QED BY <3>1, <4>1, <5>1, <5>2, <5>3 DEF One
      <4> QED BY <4>2, <4>3 DEF RefsHeld
    <3> QED BY <3>2, <3>3
  <2> QED BY <1>9, <2>1 DEF PollClient, Counts, Polling, ProtoFree, QueueFree,
             LeaderFree
<1> QED
  BY <1>1, <1>2, <1>3, <1>4, <1>5, <1>6, <1>7, <1>8, <1>9 DEF PollingTask

(* A step of the protocol task that leaves the holders as they are. *)
LEMMA KeptCounts ==
    ASSUME Counts, UNCHANGED <<refs, cmd, poll, job, leader>>,
           proto' = proto \/ (proto' = [proto EXCEPT !.at = "ack"])
                          \/ (proto' = [proto EXCEPT !.at = "wait"])
    PROVE  Counts'
BY DEF Counts, RefsHeld, One, ProtoFree, QueueFree, LeaderFree

(* Every step of the protocol task keeps the count. *)
LEMMA ProtocolCounts == Counts /\ ProtocolTask => Counts'
<1> SUFFICES ASSUME Counts, ProtocolTask PROVE Counts'
  OBVIOUS
<1> USE LinesAssumption DEF jobVars
<1>1. CASE Receive
  <2>1. refs' \in [Channels -> Int] /\ RefsHeld'
    <3>1. CASE cmd = Empty
      BY <1>1, <3>1 DEF Receive, Counts, RefsHeld, One, Resting, Empty, ProtoFree
    <3>2. CASE cmd # Empty
      <4>1. /\ proto.channel = None
            /\ proto'.channel = cmd.channel
            /\ cmd'.channel = None
            /\ UNCHANGED poll
        BY <1>1, <3>2 DEF Receive, Counts, Empty, ProtoFree
      <4>2. \/ refs' = Released(leader) /\ leader' = None
            \/ UNCHANGED <<refs, leader>>
        BY <1>1, <3>2 DEF Receive
      <4> QED BY <4>1, <4>2 DEF Counts, RefsHeld, One, Released
    <3> QED BY <3>1, <3>2
  <2>2. /\ UNCHANGED <<job, poll>> /\ cmd' = Empty
        /\ leader' \in {None, leader}
        /\ proto'.at \in {"pass", "execute"}
        /\ proto'.at = "pass" => proto' = Resting("pass")
        /\ proto' = [at |-> proto'.at, channel |-> proto'.channel,
                     out |-> proto'.out, line |-> proto'.line]
    BY <1>1 DEF Receive, Resting
  <2> QED BY <2>1, <2>2 DEF Counts, ProtoFree, QueueFree, LeaderFree, Resting
<1>2. CASE DropLine
  <2>1. refs' \in [Channels -> Int] /\ RefsHeld'
    <3>1. /\ proto.channel = None /\ proto'.channel = None
          /\ cmd'.channel = None
          /\ UNCHANGED <<poll, leader>>
          /\ refs' \in [Channels -> Int]
          /\ \A c \in Channels : refs'[c] = refs[c] - One(cmd.channel = c)
      BY <1>2, ReleasedCounts DEF DropLine, Resting, Empty, Counts, ProtoFree
    <3> QED BY <3>1 DEF Counts, RefsHeld, One
  <2> QED BY <1>2, <2>1 DEF DropLine, Counts, ProtoFree, QueueFree, LeaderFree,
             Resting
<1>3. CASE ExecuteReport
  BY <1>3, KeptCounts DEF ExecuteReport, Executed
<1>4. CASE ExecuteGcode
  BY <1>4, KeptCounts DEF ExecuteGcode
<1>5. CASE WaitOver
  BY <1>5, KeptCounts DEF WaitOver, Executed
<1>6. CASE ExecuteBad
  BY <1>6, KeptCounts DEF ExecuteBad, Executed
<1>7. CASE ExecuteRun
  <2>1. PICK f \in Files \ live, n \in 0..FileLines :
           /\ Nest(f, n, proto.out)
           /\ refs' = IF leader' = leader THEN refs ELSE Acquired(proto.out)
    BY <1>7 DEF ExecuteRun
  <2>2. job' \in Seq(Files) /\ job' # <<>>
    BY <2>1 DEF Nest, Counts
  <2>3. refs' \in [Channels -> Int] /\ RefsHeld'
    <3>1. /\ proto'.channel = proto.channel
          /\ UNCHANGED <<cmd, poll>>
      BY <1>7 DEF ExecuteRun, Executed, Counts
    <3>2. CASE leader' = leader
      BY <2>1, <3>1, <3>2 DEF Counts, RefsHeld, One
    <3>3. CASE leader' # leader
      <4>1. leader = None /\ leader' = proto.out
        BY <2>1, <3>3 DEF Nest, Counts, LeaderFree
      <4>2. /\ refs' \in [Channels -> Int]
            /\ \A c \in Channels : refs'[c] = refs[c] + One(leader' = c)
        BY <2>1, <3>3, <4>1, AcquiredCounts DEF Counts
      <4>3. \A c \in Channels : One(leader = c) = 0
        BY <4>1 DEF One
      <4>4. \A c \in Channels : One(leader' = c) \in Int
        BY DEF One
      <4> QED BY <3>1, <4>2, <4>3, <4>4 DEF Counts, RefsHeld, One
    <3> QED BY <3>2, <3>3
  <2> QED BY <1>7, <2>2, <2>3 DEF ExecuteRun, Executed, Counts,
              ProtoFree, QueueFree, LeaderFree
<1>8. CASE ExecuteRunFails
  BY <1>8, KeptCounts DEF ExecuteRunFails, Executed
<1>9. CASE ExecuteUnlock
  BY <1>9, KeptCounts DEF ExecuteUnlock, Executed
<1>10. CASE Ack
  <2>1. refs' \in [Channels -> Int] /\ RefsHeld'
    <3>1. /\ proto'.channel = None
          /\ UNCHANGED <<cmd, poll, leader>>
          /\ refs' \in [Channels -> Int]
          /\ \A c \in Channels : refs'[c] = refs[c] - One(proto.channel = c)
      BY <1>10, ReleasedCounts DEF Ack, Resting, Counts
    <3> QED BY <3>1 DEF Counts, RefsHeld, One
  <2> QED BY <1>10, <2>1 DEF Ack, Counts, ProtoFree, QueueFree, LeaderFree, Resting
<1>11. CASE HandleEvent
  BY <1>11, KeptCounts DEF HandleEvent
<1>12. CASE EndPass
  BY <1>12 DEF EndPass, Counts, RefsHeld, One, Resting,
              ProtoFree, QueueFree, LeaderFree
<1> QED
  BY <1>1, <1>2, <1>3, <1>4, <1>5, <1>6, <1>7, <1>8, <1>9, <1>10, <1>11, <1>12
  DEF ProtocolTask

(* Clients and faults touch no reference. *)
LEMMA OutsideCounts == Counts /\ Outside => Counts'
<1> SUFFICES ASSUME Counts, Outside PROVE Counts'
  OBVIOUS
<1>1. UNCHANGED <<refs, cmd, poll, proto, job, leader>>
  BY DEF Outside, Connect, Disconnect, Send, Fault, jobVars
<1> QED BY <1>1, KeptCounts

(* The counts are right in every state: _processing_refs (Channel.cpp:69) is *)
(* the number of the queued line, the line being executed, the client's line *)
(* being looked at and the job led that belong to the channel.               *)
THEOREM ReferencesCounted == Spec => []RefsHeld
<1>1. Init => Counts
  BY CountsInit
<1>2. Counts /\ [Next]_vars => Counts'
  <2> SUFFICES ASSUME Counts, [Next]_vars PROVE Counts'
    OBVIOUS
  <2>1. CASE Next
    BY <2>1, PollingCounts, ProtocolCounts, OutsideCounts DEF Next
  <2>2. CASE UNCHANGED vars
    BY <2>2, KeptCounts DEF vars, jobVars
  <2> QED BY <2>1, <2>2
<1>3. Counts => RefsHeld
  BY DEF Counts
<1> QED BY <1>1, <1>2, <1>3, PTL DEF Spec

-----------------------------------------------------------------------------
(* Recursion, and what the registry's operators do to sequences.            *)

(* Every set of natural numbers has a least element. *)
LEMMA Least == ASSUME NEW T \in SUBSET Nat, T # {} PROVE \E n \in T : \A m \in T : n <= m
<1> DEFINE I == {0 .. n : n \in T}
<1>1. I \subseteq FiniteSubsetsOf(Nat) /\ I # {}
  <2>1. ASSUME NEW n \in Nat PROVE 0 .. n \in SUBSET Nat /\ IsFiniteSet(0 .. n)
    BY FS_Interval
  <2>2. ASSUME NEW n \in Nat PROVE 0 .. n \in FiniteSubsetsOf(Nat)
    BY <2>1 DEF FiniteSubsetsOf
  <2> QED BY <2>2
<1> HIDE DEF I
<1>2. IsWellFoundedOn(StrictSubsetOrdering(Nat), FiniteSubsetsOf(Nat))
  BY FS_StrictSubsetOrderingWellFounded
<1>3. PICK x \in I : \A y \in I : ~(<<y, x>> \in StrictSubsetOrdering(Nat))
  BY <1>1, <1>2, WFMin
<1>4. PICK n \in T : x = 0 .. n
  BY DEF I
<1>5. ASSUME NEW m \in T, m < n PROVE FALSE
  <2>1. 0 .. m \in I
    BY DEF I
  <2>2. /\ <<0 .. m, 0 .. n>> \in (SUBSET Nat) \X (SUBSET Nat)
        /\ 0 .. m \subseteq 0 .. n /\ 0 .. m # 0 .. n
    <3>1. n \in 0 .. n /\ n \notin 0 .. m BY <1>5
    <3> QED BY <1>5, <3>1
  <2>3. <<0 .. m, x>> \in StrictSubsetOrdering(Nat)
    BY <2>2, <1>4 DEF StrictSubsetOrdering
  <2> QED BY <1>3, <2>1, <2>3
<1>6. \A m \in T : n <= m
  BY <1>5
<1> QED BY <1>6

(* Induction up to N, with what is to be shown given as the set G of the     *)
(* numbers that have it.                                                     *)
LEMMA Induction ==
    ASSUME NEW N \in Nat, NEW G, 0 \in G, \A n \in 1..N : n - 1 \in G => n \in G
    PROVE  0..N \subseteq G
<1> DEFINE T == (0..N) \ G
<1> SUFFICES ASSUME T # {} PROVE FALSE
  OBVIOUS
<1>1. T \subseteq Nat
  OBVIOUS
<1>2. PICK n \in T : \A m \in T : n <= m
  <2> HIDE DEF T
  <2> QED BY <1>1, Least
<1>3. n \in 1..N /\ n - 1 \notin T
  BY <1>2
<1> QED BY <1>3

(* f begins with v, and each of its values up to the N-th is computed from    *)
(* the one before by a function of its own.                                  *)
Recursive(f, N, V, v, F) ==
    /\ f \in [0..N -> V]
    /\ f[0] = v
    /\ \A n \in 1..N : f[n] = F[n][f[n - 1]]

(* There is such an f.                                                       *)
LEMMA Recursion ==
    ASSUME NEW N \in Nat, NEW V, NEW v \in V, NEW F \in [1..N -> [V -> V]]
    PROVE  \E f : Recursive(f, N, V, v, F)
<1> DEFINE Upto(f, n) == f \in [0..n -> V] /\ f[0] = v
                         /\ \A m \in 1..n : f[m] = F[m][f[m - 1]]
           G == {n \in 0..N : \E f : Upto(f, n)}
<1>1. 0 \in G
  <2> DEFINE f == [m \in 0..0 |-> v]
  <2>1. Upto(f, 0)
    OBVIOUS
  <2> HIDE DEF f, Upto
  <2> QED BY <2>1
<1>2. ASSUME NEW n \in 1..N, n - 1 \in G PROVE n \in G
  <2>1. PICK f : Upto(f, n - 1)
    BY <1>2
  <2> DEFINE g == [m \in 0..n |-> IF m = n THEN F[n][f[n - 1]] ELSE f[m]]
  <2>2. n - 1 \in 0..(n - 1) /\ f[n - 1] \in V /\ F[n][f[n - 1]] \in V
    BY <2>1
  <2>3. g \in [0..n -> V]
    <3>1. ASSUME NEW m \in 0..n PROVE g[m] \in V
      BY <2>1, <2>2
    <3> QED BY <3>1
  <2>4. g[0] = v
    BY <2>1
  <2>5. ASSUME NEW m \in 1..n PROVE g[m] = F[m][g[m - 1]]
    <3>1. m - 1 \in 0..n /\ m - 1 # n /\ g[m - 1] = f[m - 1]
      OBVIOUS
    <3>2. CASE m = n
      BY <3>1, <3>2
    <3>3. CASE m # n
      <4>1. m \in 1..(n - 1) /\ g[m] = f[m]
        BY <3>3
      <4> QED BY <2>1, <3>1, <4>1
    <3> QED BY <3>2, <3>3
  <2>6. Upto(g, n)
    BY <2>3, <2>4, <2>5
  <2> HIDE DEF g, Upto
  <2> QED BY <2>6
<1>3. N \in G
  <2> HIDE DEF G
  <2>1. 0..N \subseteq G
    BY <1>1, <1>2, Induction
  <2> QED BY <2>1
<1>4. PICK f : Upto(f, N)
  BY <1>3
<1>5. Recursive(f, N, V, v, F)
  BY <1>4 DEF Recursive
<1> QED BY <1>5

(* The set of a sequence's elements, as the sequence is made longer. *)
LEMMA AppendSet ==
    ASSUME NEW S, NEW s \in Seq(S), NEW e \in S
    PROVE  ToSet(<<>>) = {} /\ ToSet(Append(s, e)) = ToSet(s) \cup {e}
<1>1. ToSet(<<>>) = {}
  BY DEF ToSet
<1>2. DOMAIN Append(s, e) = (DOMAIN s) \cup {Len(s) + 1}
  OBVIOUS
<1>3. \A i \in DOMAIN s : Append(s, e)[i] = s[i]
  OBVIOUS
<1>4. Append(s, e)[Len(s) + 1] = e
  OBVIOUS
<1>5. ToSet(Append(s, e)) = ToSet(s) \cup {e}
  BY <1>2, <1>3, <1>4, Zenon DEF ToSet
<1> QED BY <1>1, <1>5

(* What is deregistered is no longer in the registry, and all the rest is.   *)
LEMMA WithoutDead ==
    ASSUME NEW S, NEW queue \in Seq(S), NEW dead
    PROVE  /\ Without(queue, dead) \in Seq(S)
           /\ ToSet(Without(queue, dead)) = ToSet(queue) \ dead
<1> DEFINE N == Len(queue)
           Step(f, n) == IF n = 0 THEN <<>>
                         ELSE IF queue[n] \in dead THEN f[n - 1]
                         ELSE Append(f[n - 1], queue[n])
           kept == CHOOSE f : f = [n \in 0..N |-> Step(f, n)]
           F == [n \in 1..N |-> [s \in Seq(S) |->
                    IF queue[n] \in dead THEN s ELSE Append(s, queue[n])]]
<1>1. Without(queue, dead) = kept[N]
  BY DEF Without
<1>2. N \in Nat /\ \A n \in 1..N : queue[n] \in S
  OBVIOUS
<1>3. F \in [1..N -> [Seq(S) -> Seq(S)]]
  BY <1>2
<1>4. PICK g : Recursive(g, N, Seq(S), <<>>, F)
  <2> DEFINE V == Seq(S)
  <2>1. <<>> \in V /\ N \in Nat /\ F \in [1..N -> [V -> V]]
    BY <1>2, <1>3
  <2> HIDE DEF F, N, V
  <2>2. \E g : Recursive(g, N, V, <<>>, F)
    BY <2>1, Recursion
  <2> QED BY <2>2 DEF V
<1>5. kept = [n \in 0..N |-> Step(kept, n)]
  <2>1. ASSUME NEW n \in 0..N PROVE g[n] = Step(g, n)
    <3>1. n # 0 => n \in 1..N /\ n - 1 \in 0..N /\ g[n - 1] \in Seq(S)
      <4> HIDE DEF N, F
      <4> QED BY <1>2, <1>4 DEF Recursive
    <3> QED BY <1>4, <3>1 DEF Recursive
  <2>2. g = [n \in 0..N |-> Step(g, n)]
    <3> HIDE DEF Step
    <3> QED BY <1>4, <2>1 DEF Recursive
  <2> HIDE DEF Step
  <2> QED BY <2>2
<1> HIDE DEF kept
<1> DEFINE Good(n) == /\ kept[n] \in Seq(S)
                      /\ ToSet(kept[n]) = {queue[i] : i \in 1..n} \ dead
           G == {n \in 0..N : Good(n)}
<1>6. 0 \in G
  <2>1. kept[0] = <<>>
    BY <1>2, <1>5
  <2>2. ToSet(kept[0]) = {} /\ kept[0] \in Seq(S)
    BY <2>1 DEF ToSet
  <2>3. {queue[i] : i \in 1..0} = {}
    OBVIOUS
  <2>4. 0 \in 0..N
    BY <1>2
  <2> QED BY <2>2, <2>3, <2>4, Zenon
<1>7. ASSUME NEW n \in 1..N, n - 1 \in G PROVE n \in G
  <2>1. Good(n - 1)
    BY <1>7
  <2>2. {queue[i] : i \in 1..n} = {queue[i] : i \in 1..(n - 1)} \cup {queue[n]}
    BY <1>2
  <2>3. kept[n] = IF queue[n] \in dead THEN kept[n - 1]
                  ELSE Append(kept[n - 1], queue[n])
    <3>1. n \in 0..N /\ n # 0
      BY <1>2
    <3>2. kept[n] = Step(kept, n)
      <4> HIDE DEF Step, N
      <4> QED BY <1>5, <3>1
    <3> QED BY <3>1, <3>2
  <2>4. CASE queue[n] \in dead
    <3>1. kept[n] = kept[n - 1]
      BY <2>3, <2>4
    <3>2. Good(n)
      BY <2>1, <2>2, <2>4, <3>1, Zenon
    <3> QED BY <1>2, <3>2
  <2>5. CASE queue[n] \notin dead
    <3>1. kept[n] = Append(kept[n - 1], queue[n])
      BY <2>3, <2>5
    <3>2. kept[n] \in Seq(S)
      BY <1>2, <2>1, <3>1
    <3>3. ToSet(kept[n]) = ToSet(kept[n - 1]) \cup {queue[n]}
      <4> HIDE DEF N
      <4> QED BY <1>2, <2>1, <3>1, AppendSet
    <3>4. Good(n)
      <4> HIDE DEF N
      <4> QED BY <2>1, <2>2, <2>5, <3>2, <3>3
    <3> QED BY <1>2, <3>4
  <2> QED BY <2>4, <2>5
<1>8. Good(N)
  <2>1. 0..N \subseteq G
    <3> HIDE DEF G, N
    <3> QED BY <1>2, <1>6, <1>7, Induction
  <2>2. N \in 0..N
    BY <1>2
  <2> HIDE DEF Good, N
  <2> QED BY <2>1, <2>2
<1>9. ToSet(queue) = {queue[i] : i \in 1..N}
  BY DEF ToSet
<1> QED
  <2> HIDE DEF N
  <2> QED BY <1>1, <1>8, <1>9

-----------------------------------------------------------------------------
(* The channels held are alive.                                             *)

(* What makes HeldChannelsLive inductive.  A zombie is out of the registry;  *)
(* nothing that the tasks could still take a pointer from is dying; a file    *)
(* is on the stack once, so that it is not killed while it is still there;    *)
(* and the polling task carries a channel no further than the line it read.  *)
Reaping ==
    /\ zombies \cap (ToSet(channelq) \cup {last}) = {}
    /\ (zombies \cup ToSet(killQueue)) \cap (ToSet(job) \cup online) = {}
    /\ online \subseteq live
    /\ \A i, j \in DOMAIN job : job[i] = job[j] => i = j
    /\ poll.at \notin {"offer", "client"} => poll.channel = None

HeldInv == TypeOK /\ Counts /\ Reaping /\ HeldChannelsLive

(* Nothing is held in the initial state. *)
LEMMA HeldInit == Init => HeldInv
<1> SUFFICES ASSUME Init PROVE HeldInv
  OBVIOUS
<1>1. Counts
  BY CountsInit
<1>2. TypeOK
  <2>1. <<>> \in Seq(Clients) /\ <<>> \in Seq(Channels) /\ <<>> \in Seq(Files)
        /\ <<>> \in Seq({"alarm", "reset", "restart"})
    OBVIOUS
  <2>2. /\ Empty \in [channel : Channels \cup {None}, line : Kinds \cup {None}]
        /\ Polling("top") \in [at : {"top", "job", "abort", "feed", "offer", "eof", "failed",
                                     "input", "client"},
                               channel : Channels \cup {None}, line : Kinds \cup {None}]
        /\ Resting("receive") \in [at : {"receive", "execute", "wait", "ack", "pass"},
                  channel : Channels \cup {None},
                  out : Channels \cup {None}, line : Kinds \cup {None}]
    BY DEF Empty, Polling, Resting
  <2>3. /\ closing \in [Channels -> BOOLEAN] /\ refs \in [Channels -> Nat]
        /\ left \in [Channels -> Nat]
    BY DEF Init
  <2>4. /\ live = {} /\ online = {} /\ mail = {} /\ zombies = {}
        /\ channelq = <<>> /\ killQueue = <<>> /\ job = <<>> /\ events = <<>>
        /\ last = None /\ leader = None /\ unwind = FALSE /\ abort = FALSE
        /\ machine = "Idle" /\ cmd = Empty /\ poll = Polling("top")
        /\ proto = Resting("receive")
    BY DEF Init
  <2>5. /\ live \subseteq Channels /\ online \subseteq Clients
        /\ mail \subseteq Channels /\ zombies \subseteq Channels
    BY <2>4
  <2>6. /\ channelq \in Seq(Clients) /\ killQueue \in Seq(Channels)
        /\ job \in Seq(Files) /\ events \in Seq({"alarm", "reset", "restart"})
    BY <2>1, <2>4
  <2>7. /\ last \in Clients \cup {None} /\ leader \in Channels \cup {None}
        /\ unwind \in BOOLEAN /\ abort \in BOOLEAN
        /\ machine \in {"Idle", "Alarm"}
    BY <2>4
  <2>8. /\ cmd \in [channel : Channels \cup {None}, line : Kinds \cup {None}]
        /\ poll \in [at : {"top", "job", "abort", "feed", "offer", "eof", "failed",
                           "input", "client"},
                     channel : Channels \cup {None}, line : Kinds \cup {None}]
        /\ proto \in [at : {"receive", "execute", "wait", "ack", "pass"},
                      channel : Channels \cup {None},
                      out : Channels \cup {None}, line : Kinds \cup {None}]
    BY <2>2, <2>4
  <2> QED BY <2>3, <2>5, <2>6, <2>7, <2>8, Zenon DEF TypeOK, ChannelTypes,
             RegistryTypes, TaskTypes, MachineTypes
<1>3. ToSet(<<>>) = {}
  BY DEF ToSet
<1>4. Reaping /\ HeldChannelsLive
  BY <1>3, LinesAssumption DEF Init, Reaping, HeldChannelsLive, Empty, Polling,
     Resting
<1> QED BY <1>1, <1>2, <1>4 DEF HeldInv

(* The elements of a sequence of channels. *)
LEMMA SetOf ==
    ASSUME NEW S, NEW s \in Seq(S)
    PROVE  /\ ToSet(s) \subseteq S
           /\ \A x : x \in ToSet(s) <=> \E i \in 1..Len(s) : x = s[i]
BY DEF ToSet

(* What reap_channels() leaves: every channel held before is still there, and *)
(* what is deleted was dying.                                                *)
LEMMA Buried ==
    ASSUME HeldInv, Bury
    PROVE  /\ channelq' \in Seq(Clients)
           /\ ToSet(channelq') = ToSet(channelq) \ ToSet(killQueue)
           /\ ToSet(channelq') \subseteq live' /\ zombies' \subseteq live'
           /\ live' \subseteq live /\ zombies' \subseteq zombies \cup ToSet(killQueue)
           /\ ToSet(killQueue') = {} /\ killQueue' \in Seq(Channels)
           /\ zombies' \cap (ToSet(channelq') \cup {Remembered}) = {}
           /\ {Remembered, leader, cmd.channel, proto.channel} \ {None} \subseteq live'
           /\ ToSet(job) \subseteq live' /\ online \subseteq live'
           /\ mail \subseteq live'
           /\ closing' \in [Channels -> BOOLEAN]
<1> DEFINE dead == ToSet(killQueue)
           gone == Unreferenced(zombies \cup dead)
<1>1. /\ killQueue' = <<>>
      /\ zombies' = (zombies \cup dead) \ gone
      /\ live' = live \ gone
      /\ closing' = [c \in Channels |-> (closing[c] \/ c \in dead) /\ c \notin gone]
      /\ channelq' = Without(channelq, dead)
  BY DEF Bury
<1>2. gone \subseteq zombies \cup dead
  BY DEF Unreferenced
<1>3. \A c \in gone : refs[c] = 0 /\ c \notin mail
  BY DEF Unreferenced
<1> HIDE DEF gone
<1>4. /\ channelq' \in Seq(Clients)
      /\ ToSet(channelq') = ToSet(channelq) \ dead
  <2>1. channelq \in Seq(Clients)
    BY DEF HeldInv, TypeOK, ChannelTypes, RegistryTypes, TaskTypes, MachineTypes
  <2> HIDE DEF dead
  <2> QED BY <1>1, <2>1, WithoutDead
<1>5. ToSet(killQueue') = {} /\ killQueue' \in Seq(Channels)
  BY <1>1 DEF ToSet
<1>6. \A c \in {leader, cmd.channel, proto.channel} \ {None} : c \in live \ gone
  <2> SUFFICES ASSUME NEW c \in {leader, cmd.channel, proto.channel} \ {None}
               PROVE  c \in live \ gone
    OBVIOUS
  <2>1. c \in live
    BY DEF HeldInv, HeldChannelsLive
  <2>2. c \in Channels
    BY <2>1 DEF HeldInv, TypeOK, ChannelTypes, RegistryTypes, TaskTypes,
       MachineTypes
  <2>3. refs[c] = One(cmd.channel = c) + One(proto.channel = c) + One(leader = c)
                + One(poll.at = "client" /\ poll.channel = c)
    BY <2>2 DEF HeldInv, Counts, RefsHeld
  <2>4. refs[c] # 0
    BY <2>3 DEF One
  <2> QED BY <1>3, <2>1, <2>4
<1>7. /\ zombies \cup dead \cup ToSet(channelq) \cup ToSet(job) \cup mail \cup online \subseteq live
      /\ {last} \ {None} \subseteq live
      /\ zombies \cap (ToSet(channelq) \cup {last}) = {}
      /\ (zombies \cup dead) \cap (ToSet(job) \cup online) = {}
  BY DEF HeldInv, HeldChannelsLive, Reaping
<1>8. Remembered = None \/ (Remembered = last /\ last \notin dead)
  BY DEF Remembered
<1>9. None \notin zombies'
  <2>1. zombies' \subseteq Channels
    BY <1>1, <1>7 DEF HeldInv, TypeOK, ChannelTypes, RegistryTypes, TaskTypes,
       MachineTypes
  <2> QED BY <2>1, LinesAssumption
<1>10. closing' \in [Channels -> BOOLEAN]
  BY <1>1
<1> HIDE DEF dead
<1>11. ToSet(job) \subseteq live' /\ online \subseteq live' /\ mail \subseteq live'
  BY <1>1, <1>2, <1>3, <1>7
<1>12. {Remembered, leader, cmd.channel, proto.channel} \ {None} \subseteq live'
  BY <1>1, <1>2, <1>6, <1>7, <1>8
<1>13. zombies' \cap (ToSet(channelq') \cup {Remembered}) = {}
  BY <1>1, <1>2, <1>4, <1>7, <1>8, <1>9
<1>14. ToSet(channelq') \subseteq live' /\ zombies' \subseteq live' /\ live' \subseteq live
       /\ zombies' \subseteq zombies \cup dead
  BY <1>1, <1>2, <1>4, <1>7
<1> QED BY <1>4, <1>5, <1>10, <1>11, <1>12, <1>13, <1>14 DEF dead

(* The channel whose line is read is in the registry, or had the last turn,  *)
(* and has a line.                                                           *)
LEMMA TurnTaken ==
    ASSUME channelq' \in Seq(Clients)
    PROVE  NextTurn = None \/ /\ NextTurn \in ToSet(channelq') \cup {Remembered}
                              /\ left[NextTurn] > 0
<1> DEFINE others == {i \in DOMAIN channelq' :
                         channelq'[i] # Remembered /\ HasLine(channelq'[i])}
<1>1. NextTurn = IF others # {} THEN channelq'[Min(others)]
                 ELSE IF Remembered # None /\ HasLine(Remembered) THEN Remembered ELSE None
  BY DEF NextTurn
<1>2. CASE others # {}
  <2>1. others \subseteq Nat
    OBVIOUS
  <2>2. \E n \in others : \A m \in others : n <= m
    <3> HIDE DEF others
    <3> QED BY <1>2, <2>1, Least
  <2>3. Min(others) \in others
    <3> HIDE DEF others
    <3> QED BY <2>2 DEF Min
  <2>4. NextTurn = channelq'[Min(others)]
    <3> HIDE DEF others
    <3> QED BY <1>1, <1>2
  <2>5. channelq'[Min(others)] \in ToSet(channelq') /\ HasLine(channelq'[Min(others)])
    BY <2>3 DEF ToSet
  <2> QED BY <2>4, <2>5 DEF HasLine
<1>3. CASE others = {}
  <2> HIDE DEF others
  <2> QED BY <1>1, <1>3 DEF HasLine
<1> QED BY <1>2, <1>3

(* What is killed was in the queue or is one of those killed now. *)
LEMMA KilledSet ==
    ASSUME NEW S, NEW queue \in Seq(S), NEW cs \in Seq(S)
    PROVE  /\ Killed(queue, cs) \in Seq(S)
           /\ ToSet(Killed(queue, cs)) \subseteq ToSet(queue) \cup ToSet(cs)
<1> DEFINE room == KillDepth - Len(queue)
           m == IF Len(cs) < room THEN Len(cs) ELSE room
           taken == SubSeq(cs, 1, m)
<1>1. m \in Int /\ m <= Len(cs)
  BY LinesAssumption
<1>2. taken \in Seq(S) /\ \A i \in 1..Len(taken) : i \in 1..Len(cs) /\ taken[i] = cs[i]
  <2> HIDE DEF m
  <2> QED BY <1>1
<1>3. Killed(queue, cs) = queue \o taken
  BY DEF Killed
<1> HIDE DEF taken
<1>4. Killed(queue, cs) \in Seq(S)
  BY <1>2, <1>3
<1>5. ASSUME NEW x \in ToSet(Killed(queue, cs)) PROVE x \in ToSet(queue) \cup ToSet(cs)
  <2>1. PICK i \in 1..Len(queue \o taken) : x = (queue \o taken)[i]
    <3> DEFINE both == queue \o taken
    <3>1. both \in Seq(S) /\ x \in ToSet(both)
      BY <1>3, <1>4, <1>5
    <3> HIDE DEF both
    <3>2. \E i \in 1..Len(both) : x = both[i]
      BY <3>1, SetOf
    <3> QED BY <3>2 DEF both
  <2>2. CASE i <= Len(queue)
    BY <1>2, <2>1, <2>2, SetOf
  <2>3. CASE i > Len(queue)
    <3>1. i - Len(queue) \in 1..Len(taken) /\ x = taken[i - Len(queue)]
      BY <1>2, <2>1, <2>3
    <3>2. x \in ToSet(cs)
      BY <1>2, <3>1, SetOf
    <3> QED BY <3>2
  <2> QED BY <1>2, <2>1, <2>2, <2>3
<1> QED BY <1>4, <1>5

(* What Job::pop() kills is no longer on the stack. *)
LEMMA Popped ==
    ASSUME HeldInv, NEW d \in 0..Len(job), PopTo(d),
           UNCHANGED <<live, online, channelq, last, zombies, cmd, proto>>,
           mail' \subseteq live, poll' = Polling(poll'.at)
    PROVE  /\ job' \in Seq(Files) /\ killQueue' \in Seq(Channels)
           /\ closing' \in [Channels -> BOOLEAN] /\ leader' \in {None, leader}
           /\ Reaping' /\ HeldChannelsLive'
<1> DEFINE rest == SubSeq(job, d + 1, Len(job))
           popped == Reverse(rest)
<1>1. /\ job' = SubSeq(job, 1, d)
      /\ killQueue' = Killed(killQueue, popped)
      /\ leader' \in {None, leader}
      /\ closing' = [c \in Channels |-> closing[c] \/ c \in ToSet(popped)]
  BY DEF PopTo
<1>2. job \in Seq(Files) /\ Files \subseteq Channels /\ killQueue \in Seq(Channels)
  BY DEF HeldInv, TypeOK, ChannelTypes, RegistryTypes, TaskTypes, MachineTypes,
     Channels
<1>3. /\ job' \in Seq(Files) /\ Len(job') = d
      /\ \A i \in 1..d : i \in 1..Len(job) /\ job'[i] = job[i]
  BY <1>1, <1>2
<1>4. rest \in Seq(Files) /\ Len(rest) = Len(job) - d
      /\ \A i \in 1..Len(rest) : i + d \in (d + 1)..Len(job) /\ rest[i] = job[i + d]
  BY <1>2
<1>5. popped \in Seq(Files)
      /\ \A x \in ToSet(popped) : \E i \in (d + 1)..Len(job) : x = job[i]
  <2> HIDE DEF rest
  <2>1. popped = [i \in 1..Len(rest) |-> rest[(Len(rest) - i) + 1]]
    BY DEF Reverse
  <2>2. \A i \in 1..Len(rest) : (Len(rest) - i) + 1 \in 1..Len(rest)
    BY <1>4
  <2>3. popped \in Seq(Files) /\ Len(popped) = Len(rest)
    BY <1>4, <2>1, <2>2
  <2>4. ASSUME NEW x \in ToSet(popped) PROVE \E i \in (d + 1)..Len(job) : x = job[i]
    <3> HIDE DEF popped
    <3>1. PICK i \in 1..Len(rest) : x = popped[i]
      BY <2>3, <2>4, SetOf
    <3>2. x = rest[(Len(rest) - i) + 1]
      BY <2>1, <3>1
    <3> QED BY <1>4, <2>2, <3>1, <3>2
  <2> QED BY <2>3, <2>4
<1> HIDE DEF popped, rest
<1>6. /\ killQueue' \in Seq(Channels)
      /\ ToSet(killQueue') \subseteq ToSet(killQueue) \cup ToSet(popped)
  <2>1. popped \in Seq(Channels)
    BY <1>2, <1>5
  <2> QED BY <1>1, <1>2, <2>1, KilledSet
<1>7. ToSet(popped) \subseteq ToSet(job)
  BY <1>2, <1>5, SetOf
<1>8. ToSet(job') \subseteq ToSet(job) /\ ToSet(job') \cap ToSet(popped) = {}
  <2>1. ASSUME NEW x \in ToSet(job') PROVE x \in ToSet(job) /\ x \notin ToSet(popped)
    <3>1. PICK i \in 1..d : x = job'[i]
      BY <1>3, <2>1, SetOf
    <3>2. i \in 1..Len(job) /\ x = job[i]
      BY <1>3, <3>1
    <3>3. \A j \in (d + 1)..Len(job) : j \in 1..Len(job) /\ j # i
      BY <1>2, <3>1
    <3>4. DOMAIN job = 1..Len(job)
      BY <1>2
    <3>5. \A j \in (d + 1)..Len(job) : x # job[j]
      BY <3>2, <3>3, <3>4 DEF HeldInv, Reaping
    <3> QED BY <1>2, <1>5, <3>2, <3>5, SetOf
  <2> QED BY <2>1
<1>9. \A i, j \in DOMAIN job' : job'[i] = job'[j] => i = j
  <2>1. DOMAIN job' = 1..d /\ DOMAIN job = 1..Len(job)
    BY <1>2, <1>3
  <2> QED BY <1>3, <2>1 DEF HeldInv, Reaping
<1>10. ToSet(job) \subseteq Files /\ online \subseteq Clients
       /\ ToSet(popped) \cap online = {}
  <2>1. ToSet(job) \subseteq Files
    BY <1>2, SetOf
  <2>2. online \subseteq Clients
    BY DEF HeldInv, TypeOK, ChannelTypes
  <2>3. Files \cap Clients = {}
    BY LinesAssumption
  <2> QED BY <1>7, <2>1, <2>2, <2>3
<1>11. poll'.channel = None /\ poll'.at = poll'.at
  BY DEF Polling
<1>12. Reaping'
  BY <1>6, <1>7, <1>8, <1>9, <1>10, <1>11 DEF HeldInv, Reaping
<1>13. HeldChannelsLive'
  BY <1>1, <1>6, <1>7, <1>8, <1>11 DEF HeldInv, HeldChannelsLive
<1>14. closing' \in [Channels -> BOOLEAN]
  BY <1>1 DEF HeldInv, TypeOK, ChannelTypes, RegistryTypes, TaskTypes, MachineTypes
<1> QED BY <1>1, <1>3, <1>6, <1>12, <1>13, <1>14

(* No count is negative. *)
LEMMA RefsNatural == Counts' => refs' \in [Channels -> Nat]
<1> SUFFICES ASSUME Counts' PROVE refs' \in [Channels -> Nat]
  OBVIOUS
<1>1. refs' \in [Channels -> Int]
  BY DEF Counts
<1>2. ASSUME NEW c \in Channels PROVE refs'[c] \in Nat
  <2>1. refs'[c] = One(cmd'.channel = c) + One(proto'.channel = c) + One(leader' = c)
                 + One(poll'.at = "client" /\ poll'.channel = c)
    BY DEF Counts, RefsHeld
  <2> QED BY <2>1 DEF One
<1> QED BY <1>1, <1>2

(* Every step of the polling task leaves what is held alive. *)
LEMMA PollingHeld ==
    HeldInv /\ Counts' /\ PollingTask => (TypeOK /\ Reaping /\ HeldChannelsLive)'
<1> SUFFICES ASSUME HeldInv, Counts', PollingTask
             PROVE  (TypeOK /\ Reaping /\ HeldChannelsLive)'
  OBVIOUS
<1> USE LinesAssumption DEF HeldInv, TypeOK, objectVars, registryVars, jobVars,
        machineVars
<1>1. refs' \in [Channels -> Nat]
  BY RefsNatural
<1>2. CASE PollChannels
  <2>1. CASE Bury /\ left' = [c \in Channels |-> IF c \in live' THEN left[c] ELSE 0]
             /\ last' = Remembered
    <3>1. Reaping' /\ HeldChannelsLive'
      BY <1>2, <2>1, Buried DEF PollChannels, Polling, HeldInv, Reaping,
         HeldChannelsLive
    <3>2. TypeOK'
      <4>1. ChannelTypes'
        BY <1>1, <1>2, <2>1, Buried DEF PollChannels, Polling, Remembered,
           ChannelTypes
      <4>2. RegistryTypes'
        BY <1>1, <1>2, <2>1, Buried DEF PollChannels, Polling, Remembered,
           ChannelTypes, RegistryTypes
      <4>3. TaskTypes'
        BY <1>1, <1>2, <2>1, Buried DEF PollChannels, Polling, Remembered, TaskTypes
      <4>4. MachineTypes'
        BY <1>1, <1>2, <2>1, Buried DEF PollChannels, Polling, Remembered,
           MachineTypes
      <4> QED BY <4>1, <4>2, <4>3, <4>4
    <3> QED BY <3>1, <3>2
  <2>2. CASE UNCHANGED <<live, closing, left, registryVars>>
    <3>1. Reaping' /\ HeldChannelsLive'
      BY <1>2, <2>2 DEF PollChannels, Polling, HeldInv, Reaping, HeldChannelsLive
    <3>2. TypeOK'
      <4>1. ChannelTypes'
        BY <1>1, <1>2, <2>2 DEF PollChannels, Polling, ChannelTypes
      <4>2. RegistryTypes'
        BY <1>1, <1>2, <2>2 DEF PollChannels, Polling, RegistryTypes
      <4>3. TaskTypes'
        BY <1>1, <1>2, <2>2 DEF PollChannels, Polling, TaskTypes
      <4>4. MachineTypes'
        BY <1>1, <1>2, <2>2 DEF PollChannels, Polling, MachineTypes
      <4> QED BY <4>1, <4>2, <4>3, <4>4
    <3> QED BY <3>1, <3>2
  <2> QED BY <1>2, <2>1, <2>2 DEF PollChannels
<1>3. CASE PollJob
  <2>1. Reaping' /\ HeldChannelsLive'
    BY <1>3 DEF PollJob, Polling, HeldInv, Reaping, HeldChannelsLive
  <2>2. TypeOK'
    <3>1. ChannelTypes'
      BY <1>1, <1>3 DEF PollJob, Polling, ChannelTypes
    <3>2. RegistryTypes'
      BY <1>1, <1>3 DEF PollJob, Polling, RegistryTypes
    <3>3. TaskTypes'
      BY <1>1, <1>3 DEF PollJob, Polling, TaskTypes
    <3>4. MachineTypes'
      BY <1>1, <1>3 DEF PollJob, Polling, MachineTypes
    <3> QED BY <3>1, <3>2, <3>3, <3>4
  <2> QED BY <2>1, <2>2
<1>4. CASE PollAbort
  <2>1. 0 \in 0..Len(job) /\ PopTo(0) /\ poll' = Polling(poll'.at) /\ mail' \subseteq live
    BY <1>4 DEF PollAbort, Polling, HeldInv, TypeOK, ChannelTypes, RegistryTypes,
       TaskTypes, MachineTypes, HeldChannelsLive
  <2>2. UNCHANGED <<live, online, channelq, last, zombies, cmd, proto>>
    BY <1>4 DEF PollAbort
  <2>3. TypeOK'
    <3>1. ChannelTypes'
      BY <1>1, <1>4, <2>1, <2>2, Popped DEF PollAbort, Polling, ChannelTypes
    <3>2. RegistryTypes'
      BY <1>1, <1>4, <2>1, <2>2, Popped DEF PollAbort, Polling, RegistryTypes
    <3>3. TaskTypes'
      BY <1>1, <1>4, <2>1, <2>2, Popped DEF PollAbort, Polling, TaskTypes
    <3>4. MachineTypes'
      BY <1>1, <1>4, <2>1, <2>2, Popped DEF PollAbort, Polling, MachineTypes
    <3> QED BY <3>1, <3>2, <3>3, <3>4
  <2> QED BY <2>1, <2>2, <2>3, Popped
<1>5. CASE PollFeed
  <2>1. MayFeed => Last(job) \in Files /\ Last(job) \in ToSet(job)
    BY DEF MayFeed, JobActive, Last, ToSet, HeldInv, TypeOK, ChannelTypes,
       RegistryTypes, TaskTypes, MachineTypes
  <2>2. Reaping' /\ HeldChannelsLive'
    BY <1>5, <2>1 DEF PollFeed, Polling, HeldInv, Reaping, HeldChannelsLive
  <2>3. TypeOK'
    <3>1. ChannelTypes'
      BY <1>1, <1>5, <2>1 DEF PollFeed, Polling, Channels, ChannelTypes
    <3>2. RegistryTypes'
      BY <1>1, <1>5, <2>1 DEF PollFeed, Polling, Channels, RegistryTypes
    <3>3. TaskTypes'
      BY <1>1, <1>5, <2>1 DEF PollFeed, Polling, Channels, TaskTypes
    <3>4. MachineTypes'
      BY <1>1, <1>5, <2>1 DEF PollFeed, Polling, Channels, MachineTypes
    <3> QED BY <3>1, <3>2, <3>3, <3>4
  <2> QED BY <2>2, <2>3
<1>6. CASE PollOffer
  <2>1. Reaping' /\ HeldChannelsLive'
    BY <1>6 DEF PollOffer, Polling, HeldInv, Reaping, HeldChannelsLive
  <2>2. TypeOK'
    <3>1. ChannelTypes'
      BY <1>1, <1>6 DEF PollOffer, Polling, ChannelTypes
    <3>2. RegistryTypes'
      BY <1>1, <1>6 DEF PollOffer, Polling, RegistryTypes
    <3>3. TaskTypes'
      BY <1>1, <1>6 DEF PollOffer, Polling, TaskTypes
    <3>4. MachineTypes'
      BY <1>1, <1>6 DEF PollOffer, Polling, MachineTypes
    <3> QED BY <3>1, <3>2, <3>3, <3>4
  <2> QED BY <2>1, <2>2
<1>7. CASE PollEof
  <2> DEFINE d == IF JobActive THEN Len(job) - 1 ELSE 0
  <2>1. d \in 0..Len(job) /\ PopTo(d) /\ poll' = Polling(poll'.at) /\ mail' \subseteq live
    BY <1>7 DEF PollEof, Polling, HeldInv, TypeOK, ChannelTypes, RegistryTypes,
       TaskTypes, MachineTypes, HeldChannelsLive, JobActive
  <2> HIDE DEF d
  <2>2. UNCHANGED <<live, online, channelq, last, zombies, cmd, proto>>
    BY <1>7 DEF PollEof
  <2>3. TypeOK'
    <3>1. ChannelTypes'
      BY <1>1, <1>7, <2>1, <2>2, Popped DEF PollEof, Polling, ChannelTypes
    <3>2. RegistryTypes'
      BY <1>1, <1>7, <2>1, <2>2, Popped DEF PollEof, Polling, RegistryTypes
    <3>3. TaskTypes'
      BY <1>1, <1>7, <2>1, <2>2, Popped DEF PollEof, Polling, TaskTypes
    <3>4. MachineTypes'
      BY <1>1, <1>7, <2>1, <2>2, Popped DEF PollEof, Polling, MachineTypes
    <3> QED BY <3>1, <3>2, <3>3, <3>4
  <2> QED BY <2>1, <2>2, <2>3, Popped
<1>8. CASE PollFailed
  <2>1. 0 \in 0..Len(job) /\ PopTo(0) /\ poll' = Polling(poll'.at) /\ mail' \subseteq live
    BY <1>8 DEF PollFailed, Polling, HeldInv, TypeOK, ChannelTypes,
       RegistryTypes, TaskTypes, MachineTypes, HeldChannelsLive, MailTo, Open
  <2>2. UNCHANGED <<live, online, channelq, last, zombies, cmd, proto>>
    BY <1>8 DEF PollFailed
  <2>3. TypeOK'
    <3>1. ChannelTypes'
      BY <1>1, <1>8, <2>1, <2>2, Popped DEF PollFailed, Polling, ChannelTypes
    <3>2. RegistryTypes'
      BY <1>1, <1>8, <2>1, <2>2, Popped DEF PollFailed, Polling, RegistryTypes
    <3>3. TaskTypes'
      BY <1>1, <1>8, <2>1, <2>2, Popped DEF PollFailed, Polling, TaskTypes
    <3>4. MachineTypes'
      BY <1>1, <1>8, <2>1, <2>2, Popped DEF PollFailed, Polling, MachineTypes
    <3> QED BY <3>1, <3>2, <3>3, <3>4
  <2> QED BY <2>1, <2>2, <2>3, Popped
<1>9. CASE PollInput
  <2> DEFINE c == NextTurn
             kept == [d \in Channels |-> IF d \in live' THEN left[d] ELSE 0]
  <2>1. Bury /\ last' = c /\ UNCHANGED <<online, jobVars, machineVars, mail, cmd, proto>>
        /\ poll.at = "input"
    BY <1>9 DEF PollInput
  <2>2. c = None \/ /\ c \in ToSet(channelq') \cup {Remembered}
                    /\ left[c] > 0
    BY <2>1, Buried, TurnTaken
  <2>3. \/ c = None /\ poll' = Polling("top") /\ left' = kept
        \/ /\ c # None
           /\ \E k \in Kinds : poll' = [at |-> "client", channel |-> c, line |-> k]
           /\ left' = [kept EXCEPT ![c] = @ - 1]
    BY <1>9 DEF PollInput
  <2> HIDE DEF c
  <2>4. c \in live' \cup {None} /\ c \in Clients \cup {None} /\ c \notin zombies'
    <3>1. c \in live' \cup {None}
      BY <2>1, <2>2, Buried
    <3>2. ToSet(channelq') \subseteq Clients
      BY <2>1, Buried, SetOf
    <3>3. Remembered \in Clients \cup {None}
      BY DEF HeldInv, TypeOK, ChannelTypes, RegistryTypes, TaskTypes,
         MachineTypes, Remembered
    <3>4. zombies' \subseteq Channels
      BY <2>1, Buried DEF HeldInv, TypeOK, ChannelTypes, RegistryTypes,
         TaskTypes, MachineTypes
    <3> QED BY <2>1, <2>2, <3>1, <3>2, <3>3, <3>4, Buried
  <2>5. Reaping'
    BY <2>1, <2>3, <2>4, Buried DEF Polling, Reaping
  <2>6. HeldChannelsLive'
    BY <2>1, <2>3, <2>4, Buried DEF Polling, HeldInv, HeldChannelsLive
  <2>7. left' \in [Channels -> Nat]
    <3>1. kept \in [Channels -> Nat]
      BY DEF HeldInv, TypeOK, ChannelTypes, RegistryTypes, TaskTypes, MachineTypes
    <3>2. CASE c = None
      BY <2>3, <3>1, <3>2
    <3>3. CASE c # None
      <4>1. c \in Channels /\ kept[c] = left[c] /\ left[c] > 0
        BY <2>2, <2>4, <3>3 DEF Channels
      <4>2. left' = [kept EXCEPT ![c] = kept[c] - 1]
        BY <2>3, <3>3
      <4> HIDE DEF kept
      <4> QED BY <3>1, <4>1, <4>2
    <3> QED BY <3>2, <3>3
  <2>8. TypeOK'
    <3>1. ChannelTypes'
      BY <1>1, <2>1, <2>3, <2>4, <2>7, Buried DEF Polling, Channels, ChannelTypes
    <3>2. RegistryTypes'
      BY <1>1, <2>1, <2>3, <2>4, <2>7, Buried DEF Polling, Channels,
         ChannelTypes, RegistryTypes
    <3>3. TaskTypes'
      BY <1>1, <2>1, <2>3, <2>4, <2>7, Buried DEF Polling, Channels, TaskTypes
    <3>4. MachineTypes'
      BY <1>1, <2>1, <2>3, <2>4, <2>7, Buried DEF Polling, Channels, MachineTypes
    <3> QED BY <3>1, <3>2, <3>3, <3>4
  <2> QED BY <2>5, <2>6, <2>8
<1>10. CASE PollClient
  <2>1. Reaping' /\ HeldChannelsLive'
    BY <1>10 DEF PollClient, Polling, HeldInv, Reaping, HeldChannelsLive, MailTo,
       Open
  <2>2. TypeOK'
    <3>1. ChannelTypes'
      BY <1>1, <1>10 DEF PollClient, Polling, MailTo, Open, ChannelTypes
    <3>2. RegistryTypes'
      BY <1>1, <1>10 DEF PollClient, Polling, MailTo, Open, RegistryTypes
    <3>3. TaskTypes'
      BY <1>1, <1>10 DEF PollClient, Polling, MailTo, Open, TaskTypes
    <3>4. MachineTypes'
      BY <1>1, <1>10 DEF PollClient, Polling, MailTo, Open, MachineTypes
    <3> QED BY <3>1, <3>2, <3>3, <3>4
  <2> QED BY <2>1, <2>2
<1> QED
  BY <1>2, <1>3, <1>4, <1>5, <1>6, <1>7, <1>8, <1>9, <1>10 DEF PollingTask

(* Every step of the protocol task leaves what is held alive. *)
LEMMA ProtocolHeld ==
    HeldInv /\ Counts' /\ ProtocolTask => (TypeOK /\ Reaping /\ HeldChannelsLive)'
<1> SUFFICES ASSUME HeldInv, Counts', ProtocolTask
             PROVE  (TypeOK /\ Reaping /\ HeldChannelsLive)'
  OBVIOUS
<1> USE LinesAssumption DEF HeldInv, TypeOK, objectVars, registryVars, jobVars,
        machineVars
<1>1. refs' \in [Channels -> Nat]
  BY RefsNatural
<1>2. CASE Receive
  <2>1. Reaping' /\ HeldChannelsLive'
    BY <1>2 DEF Receive, Resting, Empty, LeaderChannel, Reaping, HeldChannelsLive
  <2>2. TypeOK'
    <3>1. ChannelTypes'
      BY <1>1, <1>2 DEF Receive, Resting, Empty, LeaderChannel, ChannelTypes
    <3>2. RegistryTypes'
      BY <1>1, <1>2 DEF Receive, Resting, Empty, LeaderChannel, RegistryTypes
    <3>3. TaskTypes'
      BY <1>1, <1>2 DEF Receive, Resting, Empty, LeaderChannel, RegistryTypes,
         TaskTypes
    <3>4. MachineTypes'
      BY <1>1, <1>2 DEF Receive, Resting, Empty, LeaderChannel, MachineTypes
    <3> QED BY <3>1, <3>2, <3>3, <3>4
  <2> QED BY <2>1, <2>2
<1>3. CASE DropLine
  <2>1. Reaping' /\ HeldChannelsLive'
    BY <1>3 DEF DropLine, Resting, Empty, Reaping, HeldChannelsLive
  <2>2. TypeOK'
    <3>1. ChannelTypes'
      BY <1>1, <1>3 DEF DropLine, Resting, Empty, ChannelTypes
    <3>2. RegistryTypes'
      BY <1>1, <1>3 DEF DropLine, Resting, Empty, RegistryTypes
    <3>3. TaskTypes'
      BY <1>1, <1>3 DEF DropLine, Resting, Empty, TaskTypes
    <3>4. MachineTypes'
      BY <1>1, <1>3 DEF DropLine, Resting, Empty, MachineTypes
    <3> QED BY <3>1, <3>2, <3>3, <3>4
  <2> QED BY <2>1, <2>2
<1>4. CASE ExecuteReport
  <2>1. Reaping' /\ HeldChannelsLive'
    BY <1>4 DEF ExecuteReport, Executed, MailTo, Open, Reaping, HeldChannelsLive
  <2>2. TypeOK'
    <3>1. ChannelTypes'
      BY <1>1, <1>4 DEF ExecuteReport, Executed, MailTo, Open, ChannelTypes
    <3>2. RegistryTypes'
      BY <1>1, <1>4 DEF ExecuteReport, Executed, MailTo, Open, RegistryTypes
    <3>3. TaskTypes'
      BY <1>1, <1>4 DEF ExecuteReport, Executed, MailTo, Open, TaskTypes
    <3>4. MachineTypes'
      BY <1>1, <1>4 DEF ExecuteReport, Executed, MailTo, Open, MachineTypes
    <3> QED BY <3>1, <3>2, <3>3, <3>4
  <2> QED BY <2>1, <2>2
<1>5. CASE ExecuteGcode
  <2>1. Reaping' /\ HeldChannelsLive'
    BY <1>5 DEF ExecuteGcode, Reaping, HeldChannelsLive
  <2>2. TypeOK'
    <3>1. ChannelTypes'
      BY <1>1, <1>5 DEF ExecuteGcode, ChannelTypes
    <3>2. RegistryTypes'
      BY <1>1, <1>5 DEF ExecuteGcode, RegistryTypes
    <3>3. TaskTypes'
      BY <1>1, <1>5 DEF ExecuteGcode, TaskTypes
    <3>4. MachineTypes'
      BY <1>1, <1>5 DEF ExecuteGcode, MachineTypes
    <3> QED BY <3>1, <3>2, <3>3, <3>4
  <2> QED BY <2>1, <2>2
<1>6. CASE WaitOver
  <2>1. Reaping' /\ HeldChannelsLive'
    BY <1>6 DEF WaitOver, Executed, Reaping, HeldChannelsLive
  <2>2. TypeOK'
    <3>1. ChannelTypes'
      BY <1>1, <1>6 DEF WaitOver, Executed, ChannelTypes
    <3>2. RegistryTypes'
      BY <1>1, <1>6 DEF WaitOver, Executed, RegistryTypes
    <3>3. TaskTypes'
      BY <1>1, <1>6 DEF WaitOver, Executed, TaskTypes
    <3>4. MachineTypes'
      BY <1>1, <1>6 DEF WaitOver, Executed, MachineTypes
    <3> QED BY <3>1, <3>2, <3>3, <3>4
  <2> QED BY <2>1, <2>2
<1>7. CASE ExecuteBad
  <2>1. Reaping' /\ HeldChannelsLive'
    BY <1>7 DEF ExecuteBad, Executed, MailTo, Open, Reaping, HeldChannelsLive
  <2>2. TypeOK'
    <3>1. ChannelTypes'
      BY <1>1, <1>7 DEF ExecuteBad, Executed, MailTo, Open, ChannelTypes
    <3>2. RegistryTypes'
      BY <1>1, <1>7 DEF ExecuteBad, Executed, MailTo, Open, RegistryTypes
    <3>3. TaskTypes'
      BY <1>1, <1>7 DEF ExecuteBad, Executed, MailTo, Open, TaskTypes
    <3>4. MachineTypes'
      BY <1>1, <1>7 DEF ExecuteBad, Executed, MailTo, Open, MachineTypes
    <3> QED BY <3>1, <3>2, <3>3, <3>4
  <2> QED BY <2>1, <2>2
<1>8. CASE ExecuteRunFails
  <2>1. Reaping' /\ HeldChannelsLive'
    BY <1>8 DEF ExecuteRunFails, Executed, MailTo, Open, Reaping, HeldChannelsLive
  <2>2. TypeOK'
    <3>1. ChannelTypes'
      BY <1>1, <1>8 DEF ExecuteRunFails, Executed, MailTo, Open, ChannelTypes
    <3>2. RegistryTypes'
      BY <1>1, <1>8 DEF ExecuteRunFails, Executed, MailTo, Open, RegistryTypes
    <3>3. TaskTypes'
      BY <1>1, <1>8 DEF ExecuteRunFails, Executed, MailTo, Open, TaskTypes
    <3>4. MachineTypes'
      BY <1>1, <1>8 DEF ExecuteRunFails, Executed, MailTo, Open, MachineTypes
    <3> QED BY <3>1, <3>2, <3>3, <3>4
  <2> QED BY <2>1, <2>2
<1>9. CASE ExecuteUnlock
  <2>1. Reaping' /\ HeldChannelsLive'
    BY <1>9 DEF ExecuteUnlock, Executed, Reaping, HeldChannelsLive
  <2>2. TypeOK'
    <3>1. ChannelTypes'
      BY <1>1, <1>9 DEF ExecuteUnlock, Executed, ChannelTypes
    <3>2. RegistryTypes'
      BY <1>1, <1>9 DEF ExecuteUnlock, Executed, RegistryTypes
    <3>3. TaskTypes'
      BY <1>1, <1>9 DEF ExecuteUnlock, Executed, TaskTypes
    <3>4. MachineTypes'
      BY <1>1, <1>9 DEF ExecuteUnlock, Executed, MachineTypes
    <3> QED BY <3>1, <3>2, <3>3, <3>4
  <2> QED BY <2>1, <2>2
<1>10. CASE Ack
  <2>1. Reaping' /\ HeldChannelsLive'
    BY <1>10 DEF Ack, Resting, MailTo, Open, Reaping, HeldChannelsLive
  <2>2. TypeOK'
    <3>1. ChannelTypes'
      BY <1>1, <1>10 DEF Ack, Resting, MailTo, Open, ChannelTypes
    <3>2. RegistryTypes'
      BY <1>1, <1>10 DEF Ack, Resting, MailTo, Open, RegistryTypes
    <3>3. TaskTypes'
      BY <1>1, <1>10 DEF Ack, Resting, MailTo, Open, TaskTypes
    <3>4. MachineTypes'
      BY <1>1, <1>10 DEF Ack, Resting, MailTo, Open, MachineTypes
    <3> QED BY <3>1, <3>2, <3>3, <3>4
  <2> QED BY <2>1, <2>2
<1>11. CASE HandleEvent
  <2>1. Reaping' /\ HeldChannelsLive'
    BY <1>11 DEF HandleEvent, Reaping, HeldChannelsLive
  <2>2. TypeOK'
    <3>1. ChannelTypes'
      BY <1>1, <1>11 DEF HandleEvent, ChannelTypes
    <3>2. RegistryTypes'
      BY <1>1, <1>11 DEF HandleEvent, RegistryTypes
    <3>3. TaskTypes'
      BY <1>1, <1>11 DEF HandleEvent, TaskTypes
    <3>4. MachineTypes'
      <4>1. /\ Tail(events) \in Seq({"alarm", "reset", "restart"})
            /\ Append(Tail(events), "restart") \in Seq({"alarm", "reset", "restart"})
        BY <1>11 DEF HandleEvent, MachineTypes
      <4>2. events' \in {Tail(events), Append(Tail(events), "restart")}
        BY <1>11 DEF HandleEvent
      <4>3. unwind' \in BOOLEAN /\ abort' \in BOOLEAN /\ machine' \in {"Idle", "Alarm"}
        BY <1>11 DEF HandleEvent, MachineTypes
      <4> QED BY <4>1, <4>2, <4>3 DEF MachineTypes
    <3> QED BY <3>1, <3>2, <3>3, <3>4
  <2> QED BY <2>1, <2>2
<1>12. CASE EndPass
  <2>1. Reaping' /\ HeldChannelsLive'
    BY <1>12 DEF EndPass, Resting, Reaping, HeldChannelsLive
  <2>2. TypeOK'
    <3>1. ChannelTypes'
      BY <1>1, <1>12 DEF EndPass, Resting, ChannelTypes
    <3>2. RegistryTypes'
      BY <1>1, <1>12 DEF EndPass, Resting, RegistryTypes
    <3>3. TaskTypes'
      BY <1>1, <1>12 DEF EndPass, Resting, TaskTypes
    <3>4. MachineTypes'
      BY <1>1, <1>12 DEF EndPass, Resting, MachineTypes
    <3> QED BY <3>1, <3>2, <3>3, <3>4
  <2> QED BY <2>1, <2>2
<1>13. CASE ExecuteRun
  <2>1. PICK f \in Files \ live, n \in 0..FileLines :
           /\ Nest(f, n, proto.out)
           /\ refs' = IF leader' = leader THEN refs ELSE Acquired(proto.out)
    BY <1>13 DEF ExecuteRun
  <2>2. /\ live' = live \cup {f} /\ left' = [left EXCEPT ![f] = n]
        /\ job' = Append(job, f) /\ n \in Nat
        /\ leader' = leader \/ (leader' = proto.out /\ proto.out \in live)
        /\ UNCHANGED <<online, closing, registryVars, machineVars, mail, cmd, poll>>
        /\ proto' = [proto EXCEPT !.at = "ack"]
    <3>1. live' = live \cup {f} /\ left' = [left EXCEPT ![f] = n] /\ job' = Append(job, f)
      BY <2>1 DEF Nest
    <3>2. leader' = leader \/ (leader' = proto.out /\ proto.out \in live)
      BY <2>1 DEF Nest, Open
    <3>3. UNCHANGED <<online, closing, registryVars, machineVars, mail, cmd, poll>>
          /\ proto' = [proto EXCEPT !.at = "ack"]
      BY <1>13 DEF ExecuteRun, Executed
    <3> QED BY <2>1, <3>1, <3>2, <3>3
  <2>3. job \in Seq(Files) /\ job' \in Seq(Files) /\ ToSet(job') = ToSet(job) \cup {f}
    BY <2>2, AppendSet DEF RegistryTypes
  <2>4. f \notin ToSet(job) \cup ToSet(killQueue) \cup zombies \cup online
    BY <2>1 DEF HeldChannelsLive, Reaping
  <2>5. \A i, j \in DOMAIN job' : job'[i] = job'[j] => i = j
    <3>1. \A i \in DOMAIN job : job[i] \in ToSet(job) /\ job'[i] = job[i]
      BY <2>2, <2>3 DEF ToSet
    <3>2. DOMAIN job' = (DOMAIN job) \cup {Len(job) + 1} /\ job'[Len(job) + 1] = f
      BY <2>2, <2>3
    <3> QED BY <2>4, <3>1, <3>2 DEF Reaping
  <2>6. Reaping' /\ HeldChannelsLive'
    BY <2>2, <2>3, <2>4, <2>5 DEF Reaping, HeldChannelsLive, TaskTypes
  <2>7. TypeOK'
    <3>1. ChannelTypes'
      BY <1>1, <2>2, <2>3 DEF Channels, ChannelTypes
    <3>2. RegistryTypes'
      BY <1>1, <2>2, <2>3 DEF Channels, RegistryTypes, TaskTypes
    <3>3. TaskTypes'
      BY <1>1, <2>2, <2>3 DEF Channels, TaskTypes
    <3>4. MachineTypes'
      BY <1>1, <2>2, <2>3 DEF Channels, MachineTypes
    <3> QED BY <3>1, <3>2, <3>3, <3>4
  <2> QED BY <2>6, <2>7
<1> QED
  BY <1>2, <1>3, <1>4, <1>5, <1>6, <1>7, <1>8, <1>9, <1>10, <1>11, <1>12, <1>13
  DEF ProtocolTask

(* Clients that come and go, and faults, leave what is held alive. *)
LEMMA OutsideHeld ==
    HeldInv /\ Counts' /\ Outside => (TypeOK /\ Reaping /\ HeldChannelsLive)'
<1> SUFFICES ASSUME HeldInv, Counts', Outside
             PROVE  (TypeOK /\ Reaping /\ HeldChannelsLive)'
  OBVIOUS
<1> USE LinesAssumption DEF HeldInv, TypeOK, objectVars, registryVars, jobVars,
        machineVars
<1>1. refs' \in [Channels -> Nat]
  BY RefsNatural
<1>2. ASSUME NEW c \in Clients, Connect(c)
      PROVE  TypeOK' /\ Reaping' /\ HeldChannelsLive'
  <2>1. channelq' \in Seq(Clients) /\ ToSet(channelq') = ToSet(channelq) \cup {c}
    BY <1>2, AppendSet DEF Connect, RegistryTypes
  <2>2. c \notin zombies \cup ToSet(killQueue)
    BY <1>2 DEF Connect, HeldChannelsLive
  <2>3. Reaping' /\ HeldChannelsLive'
    BY <1>2, <2>1, <2>2 DEF Connect, Reaping, HeldChannelsLive
  <2>4. TypeOK'
    <3>1. ChannelTypes'
      BY <1>1, <1>2, <2>1 DEF Connect, Channels, ChannelTypes
    <3>2. RegistryTypes'
      BY <1>1, <1>2, <2>1 DEF Connect, Channels, RegistryTypes
    <3>3. TaskTypes'
      BY <1>1, <1>2, <2>1 DEF Connect, Channels, TaskTypes
    <3>4. MachineTypes'
      BY <1>1, <1>2, <2>1 DEF Connect, Channels, MachineTypes
    <3> QED BY <3>1, <3>2, <3>3, <3>4
  <2> QED BY <2>3, <2>4
<1>3. ASSUME NEW c \in Clients, Disconnect(c)
      PROVE  TypeOK' /\ Reaping' /\ HeldChannelsLive'
  <2>1. killQueue' \in Seq(Channels) /\ ToSet(killQueue') \subseteq ToSet(killQueue) \cup {c}
    <3>1. <<c>> \in Seq(Channels) /\ ToSet(<<c>>) = {c}
      BY DEF Channels, ToSet
    <3> QED BY <1>3, <3>1, KilledSet DEF Disconnect, RegistryTypes
  <2>2. c \notin ToSet(job)
    BY SetOf DEF RegistryTypes
  <2>3. Reaping' /\ HeldChannelsLive'
    BY <1>3, <2>1, <2>2 DEF Disconnect, Reaping, HeldChannelsLive
  <2>4. TypeOK'
    <3>1. ChannelTypes'
      <4>1. closing' \in [Channels -> BOOLEAN] /\ left' \in [Channels -> Nat]
        <5>1. closing \in [Channels -> BOOLEAN] /\ left \in [Channels -> Nat]
          BY DEF ChannelTypes
        <5>2. [closing EXCEPT ![c] = TRUE] \in [Channels -> BOOLEAN]
              /\ [left EXCEPT ![c] = 0] \in [Channels -> Nat]
          BY <5>1, Zenon
        <5>3. \/ /\ closing' = [closing EXCEPT ![c] = TRUE]
                 /\ left' = [left EXCEPT ![c] = 0]
              \/ closing' = closing /\ left' = left
          BY <1>3 DEF Disconnect
        <5> QED BY <5>1, <5>2, <5>3
      <4>2. UNCHANGED <<live, mail>> /\ online' \subseteq online
        BY <1>3 DEF Disconnect
      <4> QED BY <1>1, <4>1, <4>2 DEF ChannelTypes
    <3>2. RegistryTypes'
      BY <1>1, <1>3, <2>1 DEF Disconnect, Channels, RegistryTypes
    <3>3. TaskTypes'
      BY <1>1, <1>3, <2>1 DEF Disconnect, Channels, TaskTypes
    <3>4. MachineTypes'
      BY <1>1, <1>3, <2>1 DEF Disconnect, Channels, MachineTypes
    <3> QED BY <3>1, <3>2, <3>3, <3>4
  <2> QED BY <2>3, <2>4
<1>4. ASSUME NEW c \in Senders, Send(c)
      PROVE  TypeOK' /\ Reaping' /\ HeldChannelsLive'
  <2>1. Reaping' /\ HeldChannelsLive'
    BY <1>4 DEF Send, Reaping, HeldChannelsLive
  <2>2. TypeOK'
    <3>1. ChannelTypes'
      BY <1>1, <1>4 DEF Send, Channels, ChannelTypes
    <3>2. RegistryTypes'
      BY <1>1, <1>4 DEF Send, Channels, RegistryTypes
    <3>3. TaskTypes'
      BY <1>1, <1>4 DEF Send, Channels, TaskTypes
    <3>4. MachineTypes'
      BY <1>1, <1>4 DEF Send, Channels, MachineTypes
    <3> QED BY <3>1, <3>2, <3>3, <3>4
  <2> QED BY <2>1, <2>2
<1>5. ASSUME NEW e \in Faults, Fault(e)
      PROVE  TypeOK' /\ Reaping' /\ HeldChannelsLive'
  <2>1. Reaping' /\ HeldChannelsLive'
    BY <1>5 DEF Fault, Reaping, HeldChannelsLive
  <2>2. TypeOK'
    <3>1. ChannelTypes'
      BY <1>1, <1>5 DEF Fault, ChannelTypes
    <3>2. RegistryTypes'
      BY <1>1, <1>5 DEF Fault, RegistryTypes
    <3>3. TaskTypes'
      BY <1>1, <1>5 DEF Fault, TaskTypes
    <3>4. MachineTypes'
      BY <1>1, <1>5 DEF Fault, MachineTypes
    <3> QED BY <3>1, <3>2, <3>3, <3>4
  <2> QED BY <2>1, <2>2
<1> QED
  BY <1>2, <1>3, <1>4, <1>5 DEF Outside

(* The invariant holds in every state. *)
LEMMA HeldInvariant == Spec => []HeldInv
<1>1. Init => HeldInv
  BY HeldInit
<1>2. HeldInv /\ [Next]_vars => HeldInv'
  <2> SUFFICES ASSUME HeldInv, [Next]_vars PROVE HeldInv'
    OBVIOUS
  <2>1. CASE Next
    <3>1. Counts'
      BY <2>1, PollingCounts, ProtocolCounts, OutsideCounts DEF HeldInv, Next
    <3> QED BY <2>1, <3>1, PollingHeld, ProtocolHeld, OutsideHeld DEF HeldInv, Next
  <2>2. CASE UNCHANGED vars
    <3>1. Counts'
      BY <2>2, KeptCounts DEF HeldInv, vars, jobVars
    <3>2. Reaping' /\ HeldChannelsLive'
      BY <2>2 DEF HeldInv, Reaping, HeldChannelsLive,
                  vars, objectVars, registryVars, jobVars, machineVars
    <3>3. TypeOK'
      <4> USE <2>2 DEF HeldInv, TypeOK, vars, objectVars, registryVars, jobVars,
              machineVars
      <4>1. ChannelTypes' /\ RegistryTypes'
        BY DEF ChannelTypes, RegistryTypes
      <4>2. TaskTypes' /\ MachineTypes'
        BY DEF TaskTypes, MachineTypes
      <4> QED BY <4>1, <4>2
    <3> QED BY <3>1, <3>2, <3>3 DEF HeldInv
  <2> QED BY <2>1, <2>2
<1> QED BY <1>1, <1>2, PTL DEF Spec

(* Every variable keeps its type; above all, no count of references            *)
(* (Channel.cpp:69) and no count of lines goes below zero.                   *)
THEOREM TypesKept == Spec => []TypeOK
<1>1. HeldInv => TypeOK
  BY DEF HeldInv
<1> QED BY <1>1, HeldInvariant, PTL

(* No pointer that either task follows is to a channel that reap_channels()  *)
(* (Serial.cpp:78) has deleted, however clients come and go meanwhile.       *)
THEOREM NoDanglingChannel == Spec => []HeldChannelsLive
<1>1. HeldInv => HeldChannelsLive
  BY DEF HeldInv
<1> QED BY <1>1, HeldInvariant, PTL

-----------------------------------------------------------------------------
(* The job owns the machine.                                                 *)

(* One sender, that sends a line when the last has been answered.  With more *)
(* lines under way a client's can be received behind the one that starts a   *)
(* job.                                                                      *)
OneAtATime == Window <= 1 /\ \A c, d \in Senders : c = d

AtWork == proto.at = "execute"

(* Of a client there is at most one line, wherever it is. *)
OneLine(c) ==
    left[c] + One(poll.channel = c) + One(cmd.channel = c) + One(proto.channel = c)
        <= (IF c \in Senders THEN 1 ELSE 0)

(* Without resets a job is aborted only for an alarm. *)
NothingUnwinds == ~unwind /\ ToSet(events) \subseteq {"alarm"}

Someones ==
    /\ cmd # Empty => cmd.channel \in Channels
    /\ AtWork => proto.channel \in Channels
    /\ poll.at = "client" => poll.channel \in Clients

(* What the polling task decided on still holds when it acts: the protocol   *)
(* task cannot nest a file meanwhile, as no line of the job is in flight.    *)
JobRead ==
    /\ poll.at \in {"abort", "feed", "offer", "eof", "failed"} => JobActive
    /\ poll.at \in {"offer", "eof", "failed"} => refs[Last(job)] = 0
    /\ poll.at = "offer" => poll.channel = Last(job)

(* A job about to be aborted nests no file: the machine is in alarm, or a    *)
(* line has unlocked it, and that was the job's last.                        *)
Aborted == poll.at = "abort" => machine = "Alarm" \/ (cmd = Empty /\ ~AtWork)

(* Of a job one line is in flight, and it is the innermost file's. *)
OwnLines ==
    JobActive => /\ cmd # Empty => cmd.channel = Last(job)
                 /\ AtWork => proto.channel = Last(job) /\ cmd = Empty
(* Behind a client's line, which may start a job, nothing waits. *)
ClientAlone == AtWork /\ proto.channel \in Clients => cmd = Empty
(* A line that has outlived its job is dropped or refused. *)
Orphans ==
    ~JobActive => /\ AtWork /\ proto.channel \in Files => machine = "Alarm"
                  /\ cmd.channel \in Files => closing[cmd.channel]

OwnInv ==
    /\ \A c \in Clients : OneLine(c)
    /\ NothingUnwinds /\ Someones /\ JobRead /\ Aborted /\ OwnLines /\ ClientAlone /\ Orphans

(* Whoever is counted has a reference. *)
LEMMA InFlight ==
    ASSUME HeldInv
    PROVE  \A c \in Channels : refs[c] \in Nat /\ (c \in {cmd.channel, proto.channel, leader} => refs[c] # 0)
<1> TAKE c \in Channels
<1>1. refs[c] \in Nat
  BY DEF HeldInv, TypeOK, ChannelTypes
<1>2. refs[c] = One(cmd.channel = c) + One(proto.channel = c) + One(leader = c)
                + One(poll.at = "client" /\ poll.channel = c)
  BY DEF HeldInv, Counts, RefsHeld
<1> QED BY <1>1, <1>2 DEF One

(* Nothing is in flight in the initial state. *)
LEMMA OwnInit == Init => OwnInv
<1> SUFFICES ASSUME Init PROVE OwnInv
  OBVIOUS
<1> USE LinesAssumption DEF Init
<1>1. ASSUME NEW c \in Clients PROVE OneLine(c)
  BY DEF OneLine, One, Channels, Empty, Polling, Resting
<1>2. NothingUnwinds
  BY DEF NothingUnwinds, ToSet
<1>3. Someones /\ JobRead /\ Aborted /\ OwnLines /\ ClientAlone /\ Orphans
  BY DEF Someones, JobRead, Aborted, OwnLines, ClientAlone, Orphans, AtWork,
     Empty, Polling, Resting, JobActive,
         Channels
<1> QED BY <1>1, <1>2, <1>3 DEF OwnInv

(* The innermost file is a file of the stack. *)
LEMMA LastFile ==
    ASSUME HeldInv, JobActive
    PROVE  Last(job) \in Files /\ Last(job) \in ToSet(job) /\ Last(job) = job[Len(job)] /\ Len(job) \in 1 .. Len(job)
<1>1. job \in Seq(Files) /\ job # <<>>
  BY DEF HeldInv, Counts, JobActive
<1>2. Len(job) \in 1 .. Len(job)
  BY <1>1
<1>3. job[Len(job)] \in Files
  BY <1>1, <1>2
<1> QED BY <1>1, <1>2, <1>3 DEF Last, ToSet

(* Of a file that may be read no line is in flight. *)
LEMMA NotInFlight ==
    ASSUME HeldInv, OwnInv, JobActive, refs[Last(job)] = 0
    PROVE  cmd = Empty /\ ~AtWork /\ proto.channel # Last(job) /\ leader # Last(job)
<1>1. Last(job) \in Channels
  BY LastFile DEF Channels
<1>2. Last(job) \notin {cmd.channel, proto.channel, leader}
  BY <1>1, InFlight
<1> QED BY <1>2 DEF OwnInv, OwnLines

(* What is popped is closed, so that a line of it still queued is dropped. *)
LEMMA LastPopped ==
    ASSUME HeldInv, JobActive, NEW d \in 0 .. Len(job) - 1, PopTo(d)
    PROVE  /\ closing'[Last(job)]
           /\ d = 0 => ~JobActive'
<1> DEFINE rest == SubSeq(job, d + 1, Len(job))
           popped == Reverse(rest)
<1>1. job \in Seq(Files) /\ Last(job) = job[Len(job)] /\ Last(job) \in Channels /\ Len(job) \in Nat
  BY LastFile DEF HeldInv, Counts, Channels
<1>2. rest \in Seq(Files) /\ Len(rest) = Len(job) - d /\ rest[Len(rest)] = job[Len(job)]
  <2>1. rest \in Seq(Files) /\ Len(rest) = Len(job) - d
        /\ \A i \in 1 .. Len(rest) : rest[i] = job[i + d]
    BY <1>1
  <2>2. Len(rest) \in 1 .. Len(rest) /\ Len(rest) + d = Len(job)
    BY <1>1, <2>1
  <2> HIDE DEF rest
  <2> QED BY <2>1, <2>2
<1>3. 1 \in 1 .. Len(rest) /\ (Len(rest) - 1) + 1 = Len(rest)
  BY <1>1, <1>2
<1> HIDE DEF rest
<1>4. popped = [i \in 1 .. Len(rest) |-> rest[(Len(rest) - i) + 1]]
  BY DEF Reverse
<1>5. popped[1] = Last(job) /\ DOMAIN popped = 1 .. Len(rest)
  BY <1>1, <1>2, <1>3, <1>4
<1>6. Last(job) \in ToSet(popped)
  BY <1>3, <1>5 DEF ToSet
<1>7. closing' = [c \in Channels |-> closing[c] \/ c \in ToSet(popped)] /\ job' = SubSeq(job, 1, d)
  BY DEF PopTo, rest
<1>8. closing'[Last(job)]
  <2> HIDE DEF popped
  <2> QED BY <1>1, <1>6, <1>7
<1>9. d = 0 => job' = <<>>
  BY <1>1, <1>7
<1> QED BY <1>8, <1>9 DEF JobActive

(* Every step of the polling task keeps the lines in flight the job's. *)
LEMMA PollingOwn ==
    ASSUME OneAtATime, HeldInv, OwnInv, PollingTask
    PROVE  OwnInv'
<1> USE LinesAssumption DEF HeldInv, TypeOK, objectVars, registryVars, jobVars,
        machineVars, Channels, JobActive
<1>0. /\ \A c \in Clients : OneLine(c)
      /\ NothingUnwinds /\ Someones /\ JobRead /\ Aborted /\ OwnLines /\ ClientAlone /\ Orphans
  BY DEF OwnInv
<1>1. CASE PollChannels
  <2>1. \A c \in Clients : OneLine(c)'
    <3>1. left' \in {left, [c \in Channels |-> IF c \in live' THEN left[c] ELSE 0]}
      BY <1>1 DEF PollChannels
    <3>2. poll'.channel = None /\ UNCHANGED <<cmd, proto>>
      BY <1>1 DEF PollChannels, Polling
    <3> TAKE c \in Clients
    <3>3. left[c] \in Nat /\ left'[c] \in {left[c], 0}
      BY <3>1 DEF ChannelTypes
    <3> QED BY <1>0, <3>2, <3>3 DEF OneLine, One
  <2>2. NothingUnwinds' /\ Someones'
    BY <1>0, <1>1 DEF PollChannels, Bury, Unreferenced, Polling, NothingUnwinds,
       Someones, AtWork
  <2>3. JobRead' /\ Aborted'
    BY <1>0, <1>1 DEF PollChannels, Bury, Unreferenced, Polling, JobRead,
       Aborted, AtWork, NothingUnwinds
  <2>4. OwnLines' /\ ClientAlone' /\ Orphans'
    BY <1>0, <1>1, InFlight DEF PollChannels, Bury, Unreferenced, Polling,
       OwnLines, ClientAlone, Orphans, AtWork
  <2> QED BY <2>1, <2>2, <2>3, <2>4 DEF OwnInv
<1>2. CASE PollJob
  <2>1. \A c \in Clients : OneLine(c)'
    BY <1>0, <1>2 DEF PollJob, Polling, OneLine, One, ChannelTypes, TaskTypes
  <2>2. NothingUnwinds' /\ Someones'
    BY <1>0, <1>2 DEF PollJob, Polling, NothingUnwinds, Someones, AtWork
  <2>3. JobRead' /\ Aborted'
    BY <1>0, <1>2 DEF PollJob, Polling, JobRead, Aborted, AtWork, NothingUnwinds
  <2>4. OwnLines' /\ ClientAlone' /\ Orphans'
    BY <1>0, <1>2, InFlight DEF PollJob, Polling, OwnLines, ClientAlone, Orphans,
       AtWork
  <2> QED BY <2>1, <2>2, <2>3, <2>4 DEF OwnInv
<1>3. CASE PollAbort
  <2>1. \A c \in Clients : OneLine(c)'
    BY <1>0, <1>3 DEF PollAbort, PopTo, Polling, OneLine, One, ChannelTypes,
       TaskTypes
  <2>2. NothingUnwinds' /\ Someones'
    BY <1>0, <1>3 DEF PollAbort, PopTo, Polling, NothingUnwinds, Someones, AtWork
  <2>3. JobRead' /\ Aborted'
    BY <1>0, <1>3 DEF PollAbort, PopTo, Polling, JobRead, Aborted, AtWork,
       NothingUnwinds
  <2>4. OwnLines' /\ ClientAlone' /\ Orphans'
    <3>1. JobActive /\ PopTo(0) /\ 0 \in 0 .. Len(job) - 1 /\ UNCHANGED <<cmd, proto, machine>>
      BY <1>0, <1>3 DEF PollAbort, JobRead, Counts
    <3>2. closing'[Last(job)] /\ ~JobActive'
      BY <3>1, LastPopped
    <3>3. AtWork /\ proto.channel \in Files => machine = "Alarm"
      BY <1>0, <1>3 DEF PollAbort, Aborted
    <3>4. cmd.channel \in Files => cmd.channel = Last(job)
      BY <1>0, <3>1 DEF OwnLines, Empty
    <3>5. Orphans'
      BY <3>1, <3>2, <3>3, <3>4 DEF Orphans, AtWork
    <3> QED BY <1>0, <3>1, <3>2, <3>5 DEF OwnLines, ClientAlone, AtWork
  <2> QED BY <2>1, <2>2, <2>3, <2>4 DEF OwnInv
<1>4. CASE PollFeed
  <2>1. \A c \in Clients : OneLine(c)'
    BY <1>0, <1>4 DEF PollFeed, MayFeed, Polling, OneLine, One, ChannelTypes,
       TaskTypes
  <2>2. NothingUnwinds' /\ Someones'
    BY <1>0, <1>4 DEF PollFeed, MayFeed, Polling, NothingUnwinds, Someones, AtWork
  <2>3. JobRead' /\ Aborted'
    BY <1>0, <1>4 DEF PollFeed, MayFeed, Polling, JobRead, Aborted, AtWork,
       NothingUnwinds
  <2>4. OwnLines' /\ ClientAlone' /\ Orphans'
    BY <1>0, <1>4, InFlight DEF PollFeed, MayFeed, Polling, OwnLines,
       ClientAlone, Orphans, AtWork
  <2> QED BY <2>1, <2>2, <2>3, <2>4 DEF OwnInv
<1>5. CASE PollOffer
  <2>1. \A c \in Clients : OneLine(c)'
    BY <1>0, <1>5 DEF PollOffer, Acquired, Polling, OneLine, One, ChannelTypes,
       TaskTypes
  <2>2. NothingUnwinds' /\ Someones'
    <3>1. poll.channel \in Channels
      BY <1>0, <1>5, LastFile DEF PollOffer, JobRead
    <3> QED BY <1>0, <1>5, <3>1 DEF PollOffer, Acquired, Polling, NothingUnwinds,
               Someones, AtWork
  <2>3. JobRead' /\ Aborted'
    BY <1>0, <1>5 DEF PollOffer, Acquired, Polling, JobRead, Aborted, AtWork,
       NothingUnwinds
  <2>4. OwnLines' /\ ClientAlone' /\ Orphans'
    <3>1. JobActive /\ ~AtWork /\ poll.channel = Last(job)
      BY <1>0, <1>5, NotInFlight DEF PollOffer, JobRead
    <3>2. UNCHANGED <<job, proto, machine, closing>>
          /\ cmd' \in {cmd, [channel |-> poll.channel, line |-> poll.line]}
      BY <1>5 DEF PollOffer
    <3> QED BY <1>0, <3>1, <3>2 DEF OwnLines, ClientAlone, Orphans, AtWork
  <2> QED BY <2>1, <2>2, <2>3, <2>4 DEF OwnInv
<1>6. CASE PollEof
  <2>1. \A c \in Clients : OneLine(c)'
    BY <1>0, <1>6 DEF PollEof, Polling, OneLine, One, ChannelTypes, TaskTypes
  <2>2. NothingUnwinds' /\ Someones'
    BY <1>0, <1>6 DEF PollEof, Polling, NothingUnwinds, Someones, AtWork
  <2>3. JobRead' /\ Aborted'
    BY <1>0, <1>6 DEF PollEof, Polling, JobRead, Aborted, AtWork, NothingUnwinds
  <2>4. OwnLines' /\ ClientAlone' /\ Orphans'
    <3>1. cmd = Empty /\ ~AtWork
      BY <1>0, <1>6, NotInFlight DEF PollEof, JobRead
    <3>2. UNCHANGED <<cmd, proto>>
      BY <1>6 DEF PollEof
    <3> QED BY <3>1, <3>2 DEF OwnLines, ClientAlone, Orphans, AtWork, Empty
  <2> QED BY <2>1, <2>2, <2>3, <2>4 DEF OwnInv
<1>7. CASE PollFailed
  <2>1. \A c \in Clients : OneLine(c)'
    BY <1>0, <1>7 DEF PollFailed, PopTo, Polling, OneLine, One, ChannelTypes,
       TaskTypes
  <2>2. NothingUnwinds' /\ Someones'
    BY <1>0, <1>7 DEF PollFailed, PopTo, Polling, NothingUnwinds, Someones, AtWork
  <2>3. JobRead' /\ Aborted'
    BY <1>0, <1>7 DEF PollFailed, PopTo, Polling, JobRead, Aborted, AtWork,
       NothingUnwinds
  <2>4. OwnLines' /\ ClientAlone' /\ Orphans'
    <3>1. cmd = Empty /\ ~AtWork
      BY <1>0, <1>7, NotInFlight DEF PollFailed, JobRead
    <3>2. UNCHANGED <<cmd, proto>>
      BY <1>7 DEF PollFailed
    <3> QED BY <3>1, <3>2 DEF OwnLines, ClientAlone, Orphans, AtWork, Empty
  <2> QED BY <2>1, <2>2, <2>3, <2>4 DEF OwnInv
<1>8. CASE PollInput
  <2>0. NextTurn # None => NextTurn \in Clients /\ left[NextTurn] > 0 /\ NextTurn \in live'
    <3>1. Bury
      BY <1>8 DEF PollInput
    <3>2. /\ channelq' \in Seq(Clients) /\ ToSet(channelq') \subseteq live'
          /\ {Remembered} \ {None} \subseteq live'
      BY <3>1, Buried
    <3>3. ToSet(channelq') \subseteq Clients
      BY <3>2, SetOf
    <3>4. Remembered \in Clients \cup {None}
      BY DEF Remembered, RegistryTypes
    <3> QED BY <3>2, <3>3, <3>4, TurnTaken
  <2>1. \A c \in Clients : OneLine(c)'
    <3> DEFINE kept == [d \in Channels |-> IF d \in live' THEN left[d] ELSE 0]
    <3>1. poll.channel = None /\ UNCHANGED <<cmd, proto>>
      BY <1>8 DEF PollInput, Reaping
    <3>2. \A c \in Clients : left[c] \in Nat /\ kept[c] \in {left[c], 0}
      BY DEF ChannelTypes
    <3>3. CASE NextTurn = None
      <4>1. left' = kept /\ poll'.channel = None
        BY <1>8, <3>3 DEF PollInput, Polling
      <4> HIDE DEF kept
      <4> QED BY <1>0, <3>1, <3>2, <4>1 DEF OneLine, One
    <3>4. CASE NextTurn # None
      <4>1. NextTurn \in Clients /\ left[NextTurn] > 0 /\ NextTurn \in live'
        BY <2>0, <3>4
      <4>2. kept[NextTurn] = left[NextTurn]
        BY <4>1
      <4>3. left' = [kept EXCEPT ![NextTurn] = @ - 1] /\ poll'.channel = NextTurn
        <5>1. left' = [kept EXCEPT ![NextTurn] = @ - 1]
          BY <1>8, <3>4, Zenon DEF PollInput
        <5>2. \E k \in Kinds : poll' = [at |-> "client", channel |-> NextTurn, line |-> k]
          BY <1>8, <3>4, Zenon DEF PollInput
        <5>3. poll'.channel = NextTurn
          BY <5>2
        <5> QED BY <5>1, <5>3
      <4>4. kept \in [Channels -> Nat]
        BY DEF ChannelTypes
      <4> HIDE DEF kept
      <4> TAKE c \in Clients
      <4>5. CASE c = NextTurn
        <5>1. left'[c] = left[c] - 1
          BY <4>2, <4>3, <4>4, <4>5
        <5> QED BY <1>0, <3>1, <3>2, <4>3, <4>5, <5>1 DEF OneLine, One
      <4>6. CASE c # NextTurn
        <5>1. left'[c] = kept[c]
          BY <4>3, <4>4, <4>6
        <5> QED BY <1>0, <3>1, <3>2, <4>3, <4>6, <5>1 DEF OneLine, One
      <4> QED BY <4>5, <4>6
    <3> QED BY <3>3, <3>4
  <2>2. NothingUnwinds' /\ Someones'
    <3>1. poll'.at = "client" => NextTurn # None /\ poll'.channel = NextTurn
      BY <1>8 DEF PollInput, Polling
    <3>2. UNCHANGED <<cmd, proto, unwind, events>>
      BY <1>8 DEF PollInput
    <3> QED BY <1>0, <2>0, <3>1, <3>2 DEF NothingUnwinds, Someones, AtWork
  <2>3. JobRead' /\ Aborted'
    BY <1>0, <1>8 DEF PollInput, Polling, JobRead, Aborted, AtWork, NothingUnwinds
  <2>4. OwnLines' /\ ClientAlone' /\ Orphans'
    <3>1. UNCHANGED <<cmd, proto, job, machine>> /\ Bury
      BY <1>8 DEF PollInput
    <3>2. cmd.channel \in Files /\ closing[cmd.channel] => closing'[cmd.channel]
      BY <3>1, InFlight DEF Bury, Unreferenced
    <3> QED BY <1>0, <3>1, <3>2 DEF OwnLines, ClientAlone, Orphans, AtWork
  <2> QED BY <2>1, <2>2, <2>3, <2>4 DEF OwnInv
<1>9. CASE PollClient
  <2>1. \A c \in Clients : OneLine(c)'
    BY <1>0, <1>9 DEF PollClient, KeptOut, Polling, OneLine, One, ChannelTypes,
       TaskTypes
  <2>2. NothingUnwinds' /\ Someones'
    BY <1>0, <1>9 DEF PollClient, KeptOut, Polling, NothingUnwinds, Someones, AtWork
  <2>3. JobRead' /\ Aborted'
    BY <1>0, <1>9 DEF PollClient, KeptOut, Polling, JobRead, Aborted, AtWork,
       NothingUnwinds
  <2>4. OwnLines' /\ ClientAlone' /\ Orphans'
    <3>1. CASE KeptOut
      BY <1>0, <1>9, <3>1 DEF PollClient, OwnLines, ClientAlone, Orphans, AtWork
    <3>2. CASE ~KeptOut
      <4>1. poll.channel \in Clients /\ UNCHANGED <<job, proto, machine, closing>>
            /\ cmd'.channel = poll.channel /\ ~JobActive
        BY <1>0, <1>9, <3>2 DEF PollClient, Someones, KeptOut
      <4>2. ~(AtWork /\ proto.channel \in Clients)
        <5> SUFFICES ASSUME AtWork, proto.channel \in Clients PROVE FALSE
          OBVIOUS
        <5>1. OneLine(poll.channel) /\ OneLine(proto.channel)
              /\ left[poll.channel] \in Nat /\ left[proto.channel] \in Nat
          BY <1>0, <4>1 DEF ChannelTypes
        <5>2. poll.channel \in Senders /\ proto.channel \in Senders
          BY <5>1 DEF OneLine, One
        <5>3. poll.channel = proto.channel
          BY <5>2 DEF OneAtATime
        <5> QED BY <5>1, <5>3 DEF OneLine, One
      <4>3. cmd'.channel \notin Files
        BY <4>1
      <4> QED BY <1>0, <4>1, <4>2, <4>3 DEF OwnLines, ClientAlone, Orphans, AtWork
    <3> QED BY <3>1, <3>2
  <2> QED BY <2>1, <2>2, <2>3, <2>4 DEF OwnInv
<1> QED BY <1>1, <1>2, <1>3, <1>4, <1>5, <1>6, <1>7, <1>8, <1>9 DEF PollingTask

(* So does every step of the protocol task. *)
LEMMA ProtocolOwn ==
    ASSUME OneAtATime, HeldInv, OwnInv, ProtocolTask
    PROVE  OwnInv'
<1> USE LinesAssumption DEF HeldInv, TypeOK, objectVars, registryVars, jobVars,
        machineVars, Channels, JobActive
<1>0. /\ \A c \in Clients : OneLine(c)
      /\ NothingUnwinds /\ Someones /\ JobRead /\ Aborted /\ OwnLines /\ ClientAlone /\ Orphans
  BY DEF OwnInv
<1>1. CASE Receive
  <2>1. \A c \in Clients : OneLine(c)'
    BY <1>0, <1>1 DEF Receive, LeaderLost, LeaderChannel, Released, Resting,
       Empty, OneLine, One, ChannelTypes, TaskTypes
  <2>2. NothingUnwinds' /\ Someones'
    BY <1>0, <1>1 DEF Receive, LeaderLost, LeaderChannel, Released, Resting,
       Empty, NothingUnwinds, Someones, AtWork
  <2>3. JobRead' /\ Aborted'
    BY <1>0, <1>1, InFlight, NotInFlight, LastFile DEF Receive, LeaderLost,
       LeaderChannel, Released, Resting, Empty, JobRead, Aborted, AtWork,
       OwnLines
  <2>4. OwnLines' /\ ClientAlone' /\ Orphans'
    BY <1>0, <1>1, InFlight DEF Receive, LeaderLost, LeaderChannel, Released,
       Resting, Empty, OwnLines, ClientAlone, Orphans, AtWork, Someones
  <2> QED BY <2>1, <2>2, <2>3, <2>4 DEF OwnInv
<1>2. CASE DropLine
  <2>1. \A c \in Clients : OneLine(c)'
    BY <1>0, <1>2 DEF DropLine, Released, Resting, Empty, OneLine, One,
       ChannelTypes, TaskTypes
  <2>2. NothingUnwinds' /\ Someones'
    BY <1>0, <1>2 DEF DropLine, Released, Resting, Empty, NothingUnwinds,
       Someones, AtWork
  <2>3. JobRead' /\ Aborted'
    BY <1>0, <1>2, InFlight, NotInFlight, LastFile DEF DropLine, Released,
       Resting, Empty, JobRead, Aborted, AtWork, OwnLines
  <2>4. OwnLines' /\ ClientAlone' /\ Orphans'
    BY <1>0, <1>2, InFlight DEF DropLine, Released, Resting, Empty, OwnLines,
       ClientAlone, Orphans, AtWork, Someones
  <2> QED BY <2>1, <2>2, <2>3, <2>4 DEF OwnInv
<1>3. CASE ExecuteReport
  <2>1. \A c \in Clients : OneLine(c)'
    BY <1>0, <1>3 DEF ExecuteReport, Executed, Executing, OneLine, One,
       ChannelTypes, TaskTypes
  <2>2. NothingUnwinds' /\ Someones'
    BY <1>0, <1>3 DEF ExecuteReport, Executed, Executing, NothingUnwinds,
       Someones, AtWork
  <2>3. JobRead' /\ Aborted'
    BY <1>0, <1>3, InFlight, NotInFlight, LastFile DEF ExecuteReport, Executed,
       Executing, JobRead, Aborted, AtWork, OwnLines
  <2>4. OwnLines' /\ ClientAlone' /\ Orphans'
    BY <1>0, <1>3, InFlight DEF ExecuteReport, Executed, Executing, OwnLines,
       ClientAlone, Orphans, AtWork, Someones
  <2> QED BY <2>1, <2>2, <2>3, <2>4 DEF OwnInv
<1>4. CASE ExecuteGcode
  <2>1. \A c \in Clients : OneLine(c)'
    BY <1>0, <1>4 DEF ExecuteGcode, Executed, Executing, OneLine, One,
       ChannelTypes, TaskTypes
  <2>2. NothingUnwinds' /\ Someones'
    BY <1>0, <1>4 DEF ExecuteGcode, Executed, Executing, NothingUnwinds,
       Someones, AtWork
  <2>3. JobRead' /\ Aborted'
    BY <1>0, <1>4, InFlight, NotInFlight, LastFile DEF ExecuteGcode, Executed,
       Executing, JobRead, Aborted, AtWork, OwnLines
  <2>4. OwnLines' /\ ClientAlone' /\ Orphans'
    BY <1>0, <1>4, InFlight DEF ExecuteGcode, Executed, Executing, OwnLines,
       ClientAlone, Orphans, AtWork, Someones
  <2> QED BY <2>1, <2>2, <2>3, <2>4 DEF OwnInv
<1>5. CASE WaitOver
  <2>1. \A c \in Clients : OneLine(c)'
    BY <1>0, <1>5 DEF WaitOver, Executed, Executing, OneLine, One, ChannelTypes,
       TaskTypes
  <2>2. NothingUnwinds' /\ Someones'
    BY <1>0, <1>5 DEF WaitOver, Executed, Executing, NothingUnwinds, Someones,
       AtWork
  <2>3. JobRead' /\ Aborted'
    BY <1>0, <1>5, InFlight, NotInFlight, LastFile DEF WaitOver, Executed,
       Executing, JobRead, Aborted, AtWork, OwnLines
  <2>4. OwnLines' /\ ClientAlone' /\ Orphans'
    BY <1>0, <1>5, InFlight DEF WaitOver, Executed, Executing, OwnLines,
       ClientAlone, Orphans, AtWork, Someones
  <2> QED BY <2>1, <2>2, <2>3, <2>4 DEF OwnInv
<1>6. CASE ExecuteBad
  <2>1. \A c \in Clients : OneLine(c)'
    BY <1>0, <1>6 DEF ExecuteBad, Executed, Executing, OneLine, One,
       ChannelTypes, TaskTypes
  <2>2. NothingUnwinds' /\ Someones'
    <3>1. events \in Seq({"alarm", "reset", "restart"})
      BY DEF MachineTypes
    <3>2. ToSet(Append(events, "alarm")) \subseteq ToSet(events) \cup {"alarm"}
      BY <3>1, AppendSet
    <3>3. events' \in {events, Append(events, "alarm")} /\ UNCHANGED <<unwind, cmd, poll>>
          /\ proto' = [proto EXCEPT !.at = "ack"]
      BY <1>6 DEF ExecuteBad, Executed
    <3>4. NothingUnwinds'
      BY <1>0, <3>2, <3>3 DEF NothingUnwinds
    <3>5. Someones'
      BY <1>0, <3>3 DEF Someones, AtWork, Counts
    <3> QED BY <3>4, <3>5
  <2>3. JobRead' /\ Aborted'
    BY <1>0, <1>6, InFlight, NotInFlight, LastFile DEF ExecuteBad, Executed,
       Executing, JobRead, Aborted, AtWork, OwnLines
  <2>4. OwnLines' /\ ClientAlone' /\ Orphans'
    BY <1>0, <1>6, InFlight DEF ExecuteBad, Executed, Executing, OwnLines,
       ClientAlone, Orphans, AtWork, Someones
  <2> QED BY <2>1, <2>2, <2>3, <2>4 DEF OwnInv
<1>7. CASE ExecuteRun
  <2>1. \A c \in Clients : OneLine(c)'
    BY <1>0, <1>7 DEF ExecuteRun, Nest, Acquired, Executed, Executing, OneLine,
       One, ChannelTypes, TaskTypes
  <2>2. NothingUnwinds' /\ Someones'
    BY <1>0, <1>7 DEF ExecuteRun, Nest, Acquired, Executed, Executing,
       NothingUnwinds, Someones, AtWork
  <2>3. JobRead' /\ Aborted'
    BY <1>0, <1>7, InFlight, NotInFlight, LastFile DEF ExecuteRun, Nest,
       Acquired, Executed, Executing, JobRead, Aborted, AtWork, OwnLines
  <2>4. OwnLines' /\ ClientAlone' /\ Orphans'
    BY <1>0, <1>7, InFlight DEF ExecuteRun, Nest, Acquired, Executed, Executing,
       OwnLines, ClientAlone, Orphans, AtWork, Someones
  <2> QED BY <2>1, <2>2, <2>3, <2>4 DEF OwnInv
<1>8. CASE ExecuteRunFails
  <2>1. \A c \in Clients : OneLine(c)'
    BY <1>0, <1>8 DEF ExecuteRunFails, Executed, Executing, OneLine, One,
       ChannelTypes, TaskTypes
  <2>2. NothingUnwinds' /\ Someones'
    BY <1>0, <1>8 DEF ExecuteRunFails, Executed, Executing, NothingUnwinds,
       Someones, AtWork
  <2>3. JobRead' /\ Aborted'
    BY <1>0, <1>8, InFlight, NotInFlight, LastFile DEF ExecuteRunFails, Executed,
       Executing, JobRead, Aborted, AtWork, OwnLines
  <2>4. OwnLines' /\ ClientAlone' /\ Orphans'
    BY <1>0, <1>8, InFlight DEF ExecuteRunFails, Executed, Executing, OwnLines,
       ClientAlone, Orphans, AtWork, Someones
  <2> QED BY <2>1, <2>2, <2>3, <2>4 DEF OwnInv
<1>9. CASE ExecuteUnlock
  <2>1. \A c \in Clients : OneLine(c)'
    BY <1>0, <1>9 DEF ExecuteUnlock, Executed, Executing, OneLine, One,
       ChannelTypes, TaskTypes
  <2>2. NothingUnwinds' /\ Someones'
    BY <1>0, <1>9 DEF ExecuteUnlock, Executed, Executing, NothingUnwinds,
       Someones, AtWork
  <2>3. JobRead' /\ Aborted'
    BY <1>0, <1>9, InFlight, NotInFlight, LastFile DEF ExecuteUnlock, Executed,
       Executing, JobRead, Aborted, AtWork, OwnLines
  <2>4. OwnLines' /\ ClientAlone' /\ Orphans'
    BY <1>0, <1>9, InFlight DEF ExecuteUnlock, Executed, Executing, OwnLines,
       ClientAlone, Orphans, AtWork, Someones
  <2> QED BY <2>1, <2>2, <2>3, <2>4 DEF OwnInv
<1>10. CASE Ack
  <2>1. \A c \in Clients : OneLine(c)'
    BY <1>0, <1>10 DEF Ack, Released, Resting, OneLine, One, ChannelTypes, TaskTypes
  <2>2. NothingUnwinds' /\ Someones'
    BY <1>0, <1>10 DEF Ack, Released, Resting, NothingUnwinds, Someones, AtWork
  <2>3. JobRead' /\ Aborted'
    BY <1>0, <1>10, InFlight, NotInFlight, LastFile DEF Ack, Released, Resting,
       JobRead, Aborted, AtWork, OwnLines
  <2>4. OwnLines' /\ ClientAlone' /\ Orphans'
    BY <1>0, <1>10, InFlight DEF Ack, Released, Resting, OwnLines, ClientAlone,
       Orphans, AtWork, Someones
  <2> QED BY <2>1, <2>2, <2>3, <2>4 DEF OwnInv
<1>11. CASE HandleEvent
  <2>1. \A c \in Clients : OneLine(c)'
    <3>1. UNCHANGED <<cmd, poll, proto>>
          /\ left' \in {left, [c \in Channels |-> IF c \in ToSet(channelq) THEN 0 ELSE left[c]]}
      BY <1>11 DEF HandleEvent
    <3> TAKE c \in Clients
    <3>2. left[c] \in Nat /\ left'[c] \in {left[c], 0}
      BY <3>1 DEF ChannelTypes
    <3> QED BY <1>0, <3>1, <3>2 DEF OneLine, One
  <2>2. NothingUnwinds' /\ Someones'
    <3>1. events \in Seq({"alarm", "reset", "restart"}) /\ events # <<>>
      BY <1>11 DEF HandleEvent, MachineTypes
    <3>2. Head(events) \in ToSet(events) /\ ToSet(Tail(events)) \subseteq ToSet(events)
      <4>1. Head(events) = events[1] /\ 1 \in DOMAIN events
        BY <3>1
      <4>2. \A i \in DOMAIN Tail(events) : i + 1 \in DOMAIN events /\ Tail(events)[i] = events[i + 1]
        BY <3>1
      <4> QED BY <4>1, <4>2 DEF ToSet
    <3>3. Head(events) = "alarm"
      BY <1>0, <3>2 DEF NothingUnwinds
    <3>4. events' = Tail(events) /\ UNCHANGED <<unwind, cmd, proto, poll>>
      BY <1>11, <3>3 DEF HandleEvent
    <3> QED BY <1>0, <3>2, <3>4 DEF NothingUnwinds, Someones, AtWork
  <2>3. JobRead' /\ Aborted'
    BY <1>0, <1>11, InFlight, NotInFlight, LastFile DEF HandleEvent, JobRead,
       Aborted, AtWork, OwnLines
  <2>4. OwnLines' /\ ClientAlone' /\ Orphans'
    BY <1>0, <1>11, InFlight DEF HandleEvent, OwnLines, ClientAlone, Orphans,
       AtWork, Someones
  <2> QED BY <2>1, <2>2, <2>3, <2>4 DEF OwnInv
<1>12. CASE EndPass
  <2>1. \A c \in Clients : OneLine(c)'
    BY <1>0, <1>12 DEF EndPass, Resting, OneLine, One, ChannelTypes, TaskTypes
  <2>2. NothingUnwinds' /\ Someones'
    BY <1>0, <1>12 DEF EndPass, Resting, NothingUnwinds, Someones, AtWork
  <2>3. JobRead' /\ Aborted'
    BY <1>0, <1>12, InFlight, NotInFlight, LastFile DEF EndPass, Resting,
       JobRead, Aborted, AtWork, OwnLines
  <2>4. OwnLines' /\ ClientAlone' /\ Orphans'
    BY <1>0, <1>12, InFlight DEF EndPass, Resting, OwnLines, ClientAlone,
       Orphans, AtWork, Someones
  <2> QED BY <2>1, <2>2, <2>3, <2>4 DEF OwnInv
<1> QED BY <1>1, <1>2, <1>3, <1>4, <1>5, <1>6, <1>7, <1>8, <1>9, <1>10, <1>11,
           <1>12 DEF ProtocolTask

(* So do clients and alarms. *)
LEMMA OutsideOwn ==
    ASSUME OneAtATime, "reset" \notin Faults, HeldInv, OwnInv, Outside
    PROVE  OwnInv'
<1> USE LinesAssumption DEF HeldInv, TypeOK, objectVars, registryVars, jobVars,
        machineVars, Channels, JobActive
<1>0. /\ \A c \in Clients : OneLine(c)
      /\ NothingUnwinds /\ Someones /\ JobRead /\ Aborted /\ OwnLines /\ ClientAlone /\ Orphans
  BY DEF OwnInv
<1>1. ASSUME NEW c \in Clients, Connect(c) PROVE OwnInv'
  <2>1. \A b \in Clients : OneLine(b)'
    BY <1>0, <1>1 DEF Connect, OneLine, One, ChannelTypes, TaskTypes
  <2>2. NothingUnwinds' /\ Someones'
    BY <1>0, <1>1 DEF Connect, NothingUnwinds, Someones, AtWork
  <2>3. JobRead' /\ Aborted'
    BY <1>0, <1>1 DEF Connect, JobRead, Aborted, AtWork
  <2>4. OwnLines' /\ ClientAlone' /\ Orphans'
    BY <1>0, <1>1 DEF Connect, OwnLines, ClientAlone, Orphans, AtWork
  <2> QED BY <2>1, <2>2, <2>3, <2>4 DEF OwnInv
<1>2. ASSUME NEW c \in Clients, Disconnect(c) PROVE OwnInv'
  <2>1. \A b \in Clients : OneLine(b)'
    BY <1>0, <1>2 DEF Disconnect, OneLine, One, ChannelTypes, TaskTypes
  <2>2. NothingUnwinds' /\ Someones'
    BY <1>0, <1>2 DEF Disconnect, NothingUnwinds, Someones, AtWork
  <2>3. JobRead' /\ Aborted'
    BY <1>0, <1>2 DEF Disconnect, JobRead, Aborted, AtWork
  <2>4. OwnLines' /\ ClientAlone' /\ Orphans'
    <3>1. UNCHANGED <<job, cmd, proto, machine>> /\ closing' \in {closing, [closing EXCEPT ![c] = TRUE]}
      BY <1>2 DEF Disconnect
    <3>2. closing \in [Channels -> BOOLEAN]
      BY DEF ChannelTypes
    <3>3. \A d \in Channels : closing[d] => closing'[d]
      BY <3>1, <3>2
    <3> QED BY <1>0, <3>1, <3>3 DEF OwnLines, ClientAlone, Orphans, AtWork
  <2> QED BY <2>1, <2>2, <2>3, <2>4 DEF OwnInv
<1>3. ASSUME NEW c \in Senders, Send(c) PROVE OwnInv'
  <2>1. \A b \in Clients : OneLine(b)'
    <3> DEFINE places == {place \in {"poll", "cmd", "proto"} :
                             \/ place = "poll" /\ poll.channel = c
                             \/ place = "cmd" /\ cmd.channel = c
                             \/ place = "proto" /\ proto.channel = c}
    <3>1. left[c] \in Nat /\ c \in Clients
      BY DEF ChannelTypes
    <3>2. IsFiniteSet(places) /\ Cardinality(places) \in Nat
      <4>1. IsFiniteSet({"poll", "cmd", "proto"})
        <5>1. IsFiniteSet({"poll"})
          BY FS_Singleton
        <5>2. IsFiniteSet({"poll"} \cup {"cmd"})
          BY <5>1, FS_AddElement
        <5>3. IsFiniteSet(({"poll"} \cup {"cmd"}) \cup {"proto"})
          BY <5>2, FS_AddElement
        <5>4. ({"poll"} \cup {"cmd"}) \cup {"proto"} = {"poll", "cmd", "proto"}
          OBVIOUS
        <5> QED BY <5>3, <5>4
      <4>2. IsFiniteSet(places)
        BY <4>1, FS_Subset
      <4> QED BY <4>2, FS_CardinalityType
    <3>3. left[c] + Cardinality(places) < 1
      BY <1>3, <3>1, <3>2 DEF Send, Unanswered, OneAtATime
    <3>4. left[c] = 0 /\ places = {}
      BY <3>1, <3>2, <3>3, FS_EmptySet
    <3>5. poll.channel # c /\ cmd.channel # c /\ proto.channel # c
      BY <3>4
    <3>6. left' = [left EXCEPT ![c] = @ + 1] /\ UNCHANGED <<poll, cmd, proto>>
      BY <1>3 DEF Send
    <3> HIDE DEF places
    <3> TAKE b \in Clients
    <3>7. left[b] \in Nat /\ left'[b] = IF b = c THEN left[b] + 1 ELSE left[b]
      BY <3>6 DEF ChannelTypes
    <3>8. CASE b = c
      BY <3>4, <3>5, <3>6, <3>7, <3>8 DEF OneLine, One
    <3>9. CASE b # c
      BY <1>0, <3>6, <3>7, <3>9 DEF OneLine, One
    <3> QED BY <3>8, <3>9
  <2>2. NothingUnwinds' /\ Someones'
    BY <1>0, <1>3 DEF Send, NothingUnwinds, Someones, AtWork
  <2>3. JobRead' /\ Aborted'
    BY <1>0, <1>3 DEF Send, JobRead, Aborted, AtWork
  <2>4. OwnLines' /\ ClientAlone' /\ Orphans'
    BY <1>0, <1>3 DEF Send, OwnLines, ClientAlone, Orphans, AtWork
  <2> QED BY <2>1, <2>2, <2>3, <2>4 DEF OwnInv
<1>4. ASSUME NEW e \in Faults, Fault(e) PROVE OwnInv'
  <2>1. \A b \in Clients : OneLine(b)'
    BY <1>0, <1>4 DEF Fault, OneLine, One, ChannelTypes, TaskTypes
  <2>2. NothingUnwinds' /\ Someones'
    <3>1. events \in Seq({"alarm", "reset", "restart"}) /\ e = "alarm"
      BY DEF MachineTypes
    <3>2. ToSet(Append(events, e)) \subseteq ToSet(events) \cup {"alarm"}
      BY <3>1, AppendSet
    <3>3. events' = Append(events, e) /\ UNCHANGED <<unwind, cmd, proto, poll>>
      BY <1>4 DEF Fault
    <3> QED BY <1>0, <3>2, <3>3 DEF NothingUnwinds, Someones, AtWork
  <2>3. JobRead' /\ Aborted'
    BY <1>0, <1>4 DEF Fault, JobRead, Aborted, AtWork
  <2>4. OwnLines' /\ ClientAlone' /\ Orphans'
    BY <1>0, <1>4 DEF Fault, OwnLines, ClientAlone, Orphans, AtWork
  <2> QED BY <2>1, <2>2, <2>3, <2>4 DEF OwnInv
<1> QED BY <1>1, <1>2, <1>3, <1>4 DEF Outside

(* Every step keeps the lines in flight the job's. *)
LEMMA OwnNext ==
    ASSUME OneAtATime, "reset" \notin Faults, HeldInv, OwnInv, [Next]_vars
    PROVE  OwnInv'
<1>1. CASE Next
  BY <1>1, PollingOwn, ProtocolOwn, OutsideOwn DEF Next
<1>2. CASE UNCHANGED vars
  <2> USE <1>2 DEF OwnInv, vars, objectVars, registryVars, jobVars, machineVars,
          JobActive
  <2>1. \A c \in Clients : OneLine(c)'
    BY DEF OneLine, One
  <2>2. NothingUnwinds' /\ Someones' /\ JobRead' /\ Aborted'
    BY DEF NothingUnwinds, Someones, JobRead, Aborted, AtWork
  <2>3. OwnLines' /\ ClientAlone' /\ Orphans'
    BY DEF OwnLines, ClientAlone, Orphans, AtWork
  <2> QED BY <2>1, <2>2, <2>3
<1> QED BY <1>1, <1>2

(* While a job runs, the lines executed are its innermost file's             *)
(* (ProcessSettings.cpp:1369), however files nest, end, fail and are aborted *)
(* by alarms, for one sender that waits for its answers, without resets.     *)
THEOREM JobHasMachine ==
    ASSUME OneAtATime, "reset" \notin Faults
    PROVE  Spec => []JobOwnsMachine
<1>1. Init => OwnInv
  BY OwnInit
<1>2. HeldInv /\ OwnInv /\ [Next]_vars => OwnInv'
  BY OwnNext
<1>3. OwnInv => JobOwnsMachine
  BY DEF OwnInv, OwnLines, JobOwnsMachine, Executing, AtWork
<1> QED BY <1>1, <1>2, <1>3, HeldInvariant, PTL DEF Spec

-----------------------------------------------------------------------------
(* Lines implements Interpreter.                                             *)

(* The lines of f still to be taken, and who asked for a file: the mapping   *)
(* of RunsAsCalls.                                                           *)
Todo == [f \in Files |->
            IF f \in ToSet(job)
            THEN left[f] + One(poll.channel = f) + One(cmd.channel = f)
            ELSE 0]
Caller == IF ~Executing({"run"}) THEN "nobody"
          ELSE IF proto.channel \in Clients THEN "client"
          ELSE IF proto.channel \in ToSet(job) THEN "file" ELSE "nobody"

(* What the mapping needs besides OwnInv: only living channels are           *)
(* closing, no file on the stack is, and a file found at its end has no      *)
(* line left when it is unnested.                                            *)
CallInv ==
    /\ \A c \in Channels : closing[c] => c \in live
    /\ \A f \in ToSet(job) : ~closing[f]
    /\ poll.at = "eof" => left[Last(job)] = 0

(* A step of Lines that changes the mapped state the way a step of           *)
(* Interpreter does is that step.  Here: a line of the file is taken.        *)
LEMMA StepOf ==
    ASSUME job # <<>>, Caller = "nobody", Todo[Last(job)] > 0,
           Todo' = [Todo EXCEPT ![Last(job)] = @ - 1], Caller' \in {"nobody", "file"}, job' = job
    PROVE  Calls!Step
BY DEF Calls!Step, Todo, Caller, Last, Calls!Last

(* The lines of f still to be taken, while f is on the stack.                *)
Waiting(f) == left[f] + One(poll.channel = f) + One(cmd.channel = f)

(* What moves a line on its way to the protocol task is no step.             *)
LEMMA StutterOf ==
    ASSUME job' = job, \A f \in ToSet(job) : Waiting(f)' = Waiting(f), Caller' = Caller
    PROVE  [Calls!Next]_(Calls!vars)
<1>1. Todo' = Todo
  BY DEF Todo, Waiting
<1>2. UNCHANGED Calls!vars
  BY <1>1 DEF Calls!vars, Todo, Caller
<1> QED BY <1>2

(* A client asks.                                                            *)
LEMMA RequestOf ==
    ASSUME job = <<>>, job' = job, Caller = "nobody", Caller' = "client", Todo' = Todo
    PROVE  Calls!Request
BY DEF Calls!Request, Todo, Caller

(* The file cannot be opened, or the machine is in alarm.                    *)
LEMMA RefuseOf ==
    ASSUME job' = job, Caller # "nobody", Caller' = "nobody", Todo' = Todo
    PROVE  Calls!Refuse
BY DEF Calls!Refuse, Todo, Caller

(* A file that has come to its end returns.                                  *)
LEMMA ReturnOf ==
    ASSUME job # <<>>, Caller = "nobody", Todo[Last(job)] = 0, job' = Front(job),
           Todo' = Todo, Caller' = Caller
    PROVE  Calls!Return
BY DEF Calls!Return, Todo, Caller, Last, Calls!Last, Front, Calls!Front

(* The job is aborted.                                                       *)
LEMMA AbortOf ==
    ASSUME job # <<>>, job' = <<>>, Todo' = [f \in Files |-> 0], Caller' = "nobody"
    PROVE  Calls!Abort
BY DEF Calls!Abort, Todo, Caller

(* A file is nested.                                                         *)
LEMMA CallOf ==
    ASSUME Caller # "nobody", Caller' = "nobody", NEW f \in Files, NEW n \in 0 .. FileLines, f \notin ToSet(job),
           job' = Append(job, f), Todo' = [Todo EXCEPT ![f] = n]
    PROVE  Calls!Call(f, n)
BY DEF Calls!Call, Todo, Caller, ToSet, Calls!ToSet

(* The files of the stack are alive, open and not about to be buried.        *)
LEMMA JobFiles ==
    ASSUME HeldInv, CallInv, NEW f \in ToSet(job)
    PROVE  /\ f \in Files /\ f \in Channels /\ f \notin Clients /\ f # None
           /\ f \in live /\ ~closing[f] /\ left[f] \in Nat
           /\ f \notin ToSet(killQueue) \cup zombies
<1>1. f \in Files
  BY SetOf DEF HeldInv, Counts
<1>2. left[f] \in Nat
  BY <1>1 DEF HeldInv, TypeOK, ChannelTypes, Channels
<1> QED BY <1>1, <1>2, LinesAssumption DEF HeldInv, HeldChannelsLive, Reaping,
           CallInv, Channels

(* Burying channels closes none of them.                                     *)
LEMMA BuriedCalls ==
    ASSUME HeldInv, CallInv, Bury
    PROVE  /\ \A c \in Channels : closing'[c] => c \in live'
           /\ \A f \in ToSet(job) : ~closing'[f] /\ f \in live'
<1>1. /\ closing' = [c \in Channels |-> (closing[c] \/ c \in ToSet(killQueue))
                                         /\ c \notin Unreferenced(zombies \cup ToSet(killQueue))]
      /\ live' = live \ Unreferenced(zombies \cup ToSet(killQueue))
  BY DEF Bury
<1>2. ASSUME NEW c \in Channels, closing'[c] PROVE c \in live'
  BY <1>1, <1>2 DEF CallInv, HeldInv, HeldChannelsLive
<1>3. ASSUME NEW f \in ToSet(job) PROVE ~closing'[f] /\ f \in live'
  <2>1. f \in Channels /\ f \in live /\ ~closing[f] /\ f \notin ToSet(killQueue) \cup zombies
    BY JobFiles
  <2> QED BY <1>1, <2>1 DEF Unreferenced
<1> QED BY <1>2, <1>3

(* What popping leaves is a prefix of the stack, and what it takes off       *)
(* was above it.                                                             *)
LEMMA PoppedFiles ==
    ASSUME HeldInv, NEW d \in 0..Len(job), PopTo(d)
    PROVE  LET popped == Reverse(SubSeq(job, d + 1, Len(job)))
           IN  /\ job' \in Seq(Files) /\ Len(job') = d
               /\ \A i \in 1..d : i \in 1..Len(job) /\ job'[i] = job[i]
               /\ popped \in Seq(Files) /\ ToSet(popped) \subseteq ToSet(job)
               /\ ToSet(job') \subseteq ToSet(job) /\ ToSet(job') \cap ToSet(popped) = {}
<1> DEFINE rest == SubSeq(job, d + 1, Len(job))
           popped == Reverse(rest)
<1>1. job' = SubSeq(job, 1, d)
  BY DEF PopTo
<1>2. job \in Seq(Files)
  BY DEF HeldInv, TypeOK, RegistryTypes
<1>3. /\ job' \in Seq(Files) /\ Len(job') = d
      /\ \A i \in 1..d : i \in 1..Len(job) /\ job'[i] = job[i]
  BY <1>1, <1>2
<1>4. rest \in Seq(Files) /\ Len(rest) = Len(job) - d
      /\ \A i \in 1..Len(rest) : i + d \in (d + 1)..Len(job) /\ rest[i] = job[i + d]
  BY <1>2
<1>5. popped \in Seq(Files)
      /\ \A x \in ToSet(popped) : \E i \in (d + 1)..Len(job) : x = job[i]
  <2> HIDE DEF rest
  <2>1. popped = [i \in 1..Len(rest) |-> rest[(Len(rest) - i) + 1]]
    BY DEF Reverse
  <2>2. \A i \in 1..Len(rest) : (Len(rest) - i) + 1 \in 1..Len(rest)
    BY <1>4
  <2>3. popped \in Seq(Files) /\ Len(popped) = Len(rest)
    BY <1>4, <2>1, <2>2
  <2>4. ASSUME NEW x \in ToSet(popped) PROVE \E i \in (d + 1)..Len(job) : x = job[i]
    <3> HIDE DEF popped
    <3>1. PICK i \in 1..Len(rest) : x = popped[i]
      BY <2>3, <2>4, SetOf
    <3>2. x = rest[(Len(rest) - i) + 1]
      BY <2>1, <3>1
    <3> QED BY <1>4, <2>2, <3>1, <3>2
  <2> QED BY <2>3, <2>4
<1> HIDE DEF popped, rest
<1>7. ToSet(popped) \subseteq ToSet(job)
  BY <1>2, <1>5, SetOf
<1>8. ToSet(job') \subseteq ToSet(job) /\ ToSet(job') \cap ToSet(popped) = {}
  <2>1. ASSUME NEW x \in ToSet(job') PROVE x \in ToSet(job) /\ x \notin ToSet(popped)
    <3>1. PICK i \in 1..d : x = job'[i]
      BY <1>3, <2>1, SetOf
    <3>2. i \in 1..Len(job) /\ x = job[i]
      BY <1>3, <3>1
    <3>3. \A j \in (d + 1)..Len(job) : j \in 1..Len(job) /\ j # i
      BY <1>2, <3>1
    <3>4. DOMAIN job = 1..Len(job)
      BY <1>2
    <3>5. \A j \in (d + 1)..Len(job) : x # job[j]
      BY <3>2, <3>3, <3>4 DEF HeldInv, Reaping
    <3> QED BY <1>2, <1>5, <3>2, <3>5, SetOf
  <2> QED BY <2>1
<1> QED BY <1>3, <1>5, <1>7, <1>8 DEF popped, rest

(* Popping closes no file that stays on the stack.                           *)
LEMMA PoppedCalls ==
    ASSUME HeldInv, CallInv, NEW d \in 0..Len(job), PopTo(d), live' = live, poll'.at # "eof"
    PROVE  CallInv'
<1> DEFINE popped == Reverse(SubSeq(job, d + 1, Len(job)))
<1>1. /\ ToSet(popped) \subseteq ToSet(job)
      /\ ToSet(job') \subseteq ToSet(job) /\ ToSet(job') \cap ToSet(popped) = {}
      /\ job' \in Seq(Files)
  BY PoppedFiles
<1>2. closing' = [c \in Channels |-> closing[c] \/ c \in ToSet(popped)]
  BY DEF PopTo
<1> HIDE DEF popped
<1>3. ToSet(job') \subseteq Files /\ ToSet(job) \subseteq live
  BY <1>1, SetOf DEF HeldInv, HeldChannelsLive
<1>4. ASSUME NEW c \in Channels, closing'[c] PROVE c \in live'
  BY <1>1, <1>2, <1>3, <1>4 DEF CallInv
<1>5. ASSUME NEW f \in ToSet(job') PROVE ~closing'[f]
  <2>1. f \in Channels /\ f \notin ToSet(popped) /\ ~closing[f]
    BY <1>1, <1>3 DEF CallInv, Channels
  <2> QED BY <1>2, <2>1
<1> QED BY <1>4, <1>5 DEF CallInv

(* Popping everything is an abort, of the call being made too.               *)
LEMMA AllPopped ==
    ASSUME HeldInv, OwnInv, JobActive, PopTo(0), UNCHANGED proto
    PROVE  Calls!Abort
<1>1. 0 \in 0 .. Len(job)
  BY DEF HeldInv, Counts
<1>2. job' = <<>>
  BY <1>1, PoppedFiles
<1>3. ToSet(job') = {}
  BY <1>2 DEF ToSet
<1>4. Todo' = [f \in Files |-> 0]
  BY <1>3 DEF Todo
<1>5. Caller' = "nobody"
  <2>1. Executing({"run"}) => proto.channel \notin Clients
    BY LastFile, LinesAssumption DEF OwnInv, OwnLines, AtWork, Executing
  <2> QED BY <1>3, <2>1 DEF Caller, Executing
<1> QED BY <1>2, <1>4, <1>5, AbortOf DEF JobActive

(* Every step of the polling task is a step of Interpreter or none.          *)
LEMMA PollingCalls ==
    ASSUME HeldInv, OwnInv, CallInv, PollingTask
    PROVE  CallInv' /\ [Calls!Next]_(Calls!vars)
<1> USE LinesAssumption DEF HeldInv, TypeOK, objectVars, registryVars, jobVars,
        machineVars, Channels, JobActive
<1>0. NothingUnwinds /\ Someones /\ JobRead /\ Aborted /\ OwnLines /\ ClientAlone /\ Orphans
  BY DEF OwnInv
<1>1. CASE PollChannels
  <2>1. CallInv'
    <3>1. poll'.at # "eof" /\ UNCHANGED job /\ (Bury \/ UNCHANGED <<closing, live>>)
      BY <1>1 DEF PollChannels, Polling
    <3> QED BY <3>1, BuriedCalls DEF CallInv
  <2>2. [Calls!Next]_(Calls!vars)
    <3>1. job' = job /\ Caller' = Caller
      BY <1>0, <1>1 DEF PollChannels, Bury, Unreferenced, Polling, Caller, Executing
    <3>2. ASSUME NEW f \in ToSet(job) PROVE Waiting(f)' = Waiting(f)
      BY <1>0, <1>1, <3>1, JobFiles DEF PollChannels, Bury, Unreferenced,
         Polling, Waiting, One, JobRead, Someones, Empty, Reaping
    <3> QED BY <3>1, <3>2, StutterOf
  <2> QED BY <2>1, <2>2
<1>2. CASE PollJob
  <2>1. CallInv'
    BY <1>0, <1>2, JobFiles DEF PollJob, Polling, CallInv, ChannelTypes
  <2>2. [Calls!Next]_(Calls!vars)
    <3>1. job' = job /\ Caller' = Caller
      BY <1>0, <1>2 DEF PollJob, Polling, Caller, Executing
    <3>2. ASSUME NEW f \in ToSet(job) PROVE Waiting(f)' = Waiting(f)
      BY <1>0, <1>2, <3>1, JobFiles DEF PollJob, Polling, Waiting, One, JobRead,
         Someones, Empty, Reaping
    <3> QED BY <3>1, <3>2, StutterOf
  <2> QED BY <2>1, <2>2
<1>3. CASE PollAbort
  <2>1. CallInv'
    <3>1. 0 \in 0 .. Len(job) /\ PopTo(0) /\ live' = live /\ poll'.at # "eof"
      BY <1>3 DEF PollAbort, Polling, Counts
    <3> QED BY <3>1, PoppedCalls
  <2>2. [Calls!Next]_(Calls!vars)
    <3>1. JobActive /\ PopTo(0) /\ UNCHANGED proto
      BY <1>0, <1>3 DEF PollAbort, JobRead
    <3> QED BY <3>1, AllPopped DEF Calls!Next
  <2> QED BY <2>1, <2>2
<1>4. CASE PollFeed
  <2>1. CallInv'
    BY <1>0, <1>4, JobFiles DEF PollFeed, MayFeed, Polling, CallInv, ChannelTypes
  <2>2. [Calls!Next]_(Calls!vars)
    <3>1. UNCHANGED <<job, proto, cmd>> /\ poll.channel = None
      BY <1>4 DEF PollFeed, Reaping
    <3>2. \/ left' = left /\ poll'.channel = None
          \/ /\ JobActive /\ left[Last(job)] > 0 /\ poll'.channel = Last(job)
             /\ left' = [left EXCEPT ![Last(job)] = @ - 1]
      BY <1>4 DEF PollFeed, MayFeed, Polling
    <3>3. Caller' = Caller
      BY <3>1 DEF Caller, Executing
    <3>4. ASSUME NEW f \in ToSet(job) PROVE Waiting(f)' = Waiting(f)
      <4>1. f \in Channels /\ f # None /\ left[f] \in Nat /\ left \in [Channels -> Nat]
        BY JobFiles DEF ChannelTypes
      <4>2. CASE left' = left /\ poll'.channel = None
        BY <3>1, <4>1, <4>2 DEF Waiting
      <4>3. CASE left' = [left EXCEPT ![Last(job)] = @ - 1] /\ poll'.channel = Last(job)
        <5>1. left'[f] = IF f = Last(job) THEN left[f] - 1 ELSE left[f]
          BY <4>1, <4>3
        <5> QED BY <3>1, <4>1, <4>3, <5>1 DEF Waiting, One
      <4> QED BY <3>2, <4>2, <4>3
    <3> QED BY <3>1, <3>3, <3>4, StutterOf
  <2> QED BY <2>1, <2>2
<1>5. CASE PollOffer
  <2>1. CallInv'
    BY <1>0, <1>5, JobFiles DEF PollOffer, Acquired, Polling, CallInv, ChannelTypes
  <2>2. [Calls!Next]_(Calls!vars)
    <3>1. /\ JobActive /\ poll.channel = Last(job) /\ ~closing[Last(job)]
          /\ cmd = Empty /\ UNCHANGED <<job, proto, left>> /\ poll'.channel = None
      BY <1>0, <1>5, LastFile, JobFiles, NotInFlight DEF PollOffer, Polling, JobRead
    <3>2. cmd'.channel = Last(job)
      BY <1>5, <3>1 DEF PollOffer
    <3>3. Caller' = Caller
      BY <3>1 DEF Caller, Executing
    <3>4. ASSUME NEW f \in ToSet(job) PROVE Waiting(f)' = Waiting(f)
      <4>1. f # None /\ left[f] \in Nat
        BY JobFiles
      <4> QED BY <3>1, <3>2, <4>1 DEF Waiting, One, Empty
    <3> QED BY <3>1, <3>3, <3>4, StutterOf
  <2> QED BY <2>1, <2>2
<1>6. CASE PollEof
  <2>1. CallInv'
    <3>1. Len(job) - 1 \in 0 .. Len(job) /\ PopTo(Len(job) - 1) /\ live' = live /\ poll'.at # "eof"
      BY <1>0, <1>6, LastFile DEF PollEof, Polling, JobRead, Counts
    <3> QED BY <3>1, PoppedCalls
  <2>2. [Calls!Next]_(Calls!vars)
    <3>1. /\ JobActive /\ cmd = Empty /\ ~AtWork /\ poll.channel = None /\ left[Last(job)] = 0
          /\ UNCHANGED <<cmd, proto, left>> /\ poll'.channel = None
      BY <1>0, <1>6, NotInFlight DEF PollEof, Polling, JobRead, Reaping, CallInv
    <3>2. /\ Len(job) - 1 \in 0 .. Len(job) /\ PopTo(Len(job) - 1) /\ job \in Seq(Files) /\ Last(job) = job[Len(job)]
          /\ Last(job) \in ToSet(job) /\ Last(job) \in Files /\ Len(job) \in 1 .. Len(job)
      BY <1>6, <3>1, LastFile DEF PollEof, Counts
    <3>3. /\ job' \in Seq(Files) /\ Len(job') = Len(job) - 1 /\ ToSet(job') \subseteq ToSet(job)
          /\ \A i \in 1 .. Len(job) - 1 : job'[i] = job[i]
      BY <3>2, PoppedFiles
    <3>4. job' = Front(job)
      BY <3>2 DEF PopTo, Front
    <3>5. ToSet(job) \subseteq ToSet(job') \cup {Last(job)}
      <4>1. ASSUME NEW i \in 1 .. Len(job) PROVE job[i] \in ToSet(job') \cup {Last(job)}
        <5>1. CASE i = Len(job)
          BY <3>2, <5>1
        <5>2. CASE i # Len(job)
          <6>1. i \in 1 .. Len(job) - 1 /\ i \in 1 .. Len(job')
            BY <3>2, <3>3, <5>2
          <6>2. job'[i] = job[i]
            BY <3>3, <6>1
          <6> QED BY <3>3, <6>1, <6>2, SetOf
        <5> QED BY <5>1, <5>2
      <4> QED BY <3>2, <4>1, SetOf
    <3>6. \A f \in ToSet(job) : Waiting(f) = left[f] /\ Waiting(f)' = left[f]
      <4>1. \A f \in ToSet(job) : f # None /\ left[f] \in Nat
        BY JobFiles
      <4> QED BY <3>1, <4>1 DEF Waiting, One, Empty
    <3>7. Todo[Last(job)] = 0
      BY <3>1, <3>2, <3>6 DEF Todo, Waiting
    <3>8. Todo' = Todo
      <4>1. ASSUME NEW f \in Files
            PROVE  (IF f \in ToSet(job') THEN Waiting(f)' ELSE 0) = (IF f \in ToSet(job) THEN Waiting(f) ELSE 0)
        BY <3>1, <3>3, <3>5, <3>6
      <4> QED BY <4>1 DEF Todo, Waiting
    <3>9. Caller = "nobody" /\ Caller' = "nobody"
      BY <3>1 DEF Caller, Executing, AtWork
    <3> QED BY <3>1, <3>4, <3>7, <3>8, <3>9, ReturnOf DEF Calls!Next
  <2> QED BY <2>1, <2>2
<1>7. CASE PollFailed
  <2>1. CallInv'
    <3>1. 0 \in 0 .. Len(job) /\ PopTo(0) /\ live' = live /\ poll'.at # "eof"
      BY <1>7 DEF PollFailed, Polling, Counts
    <3> QED BY <3>1, PoppedCalls
  <2>2. [Calls!Next]_(Calls!vars)
    <3>1. JobActive /\ PopTo(0) /\ UNCHANGED proto
      BY <1>0, <1>7 DEF PollFailed, JobRead
    <3> QED BY <3>1, AllPopped DEF Calls!Next
  <2> QED BY <2>1, <2>2
<1>8. CASE PollInput
  <2>1. CallInv'
    <3>1. poll'.at # "eof" /\ UNCHANGED job /\ Bury
      BY <1>8 DEF PollInput, Polling
    <3> QED BY <3>1, BuriedCalls DEF CallInv
  <2>2. [Calls!Next]_(Calls!vars)
    <3> DEFINE kept == [e \in Channels |-> IF e \in live' THEN left[e] ELSE 0]
    <3>1. UNCHANGED <<job, proto, cmd>> /\ Bury /\ poll.channel = None
      BY <1>8 DEF PollInput, Reaping
    <3>2. Caller' = Caller
      BY <3>1 DEF Caller, Executing
    <3>3. NextTurn \in Clients \cup {None}
      <4>1. channelq' \in Seq(Clients)
        BY <3>1, Buried
      <4>2. ToSet(channelq') \subseteq Clients
        BY <4>1, SetOf
      <4>3. Remembered \in Clients \cup {None}
        BY DEF Remembered, RegistryTypes
      <4> QED BY <4>1, <4>2, <4>3, TurnTaken
    <3>4. /\ poll'.channel \in {None, NextTurn}
          /\ left' = kept \/ left' = [kept EXCEPT ![NextTurn] = @ - 1]
      <4>1. CASE NextTurn = None
        BY <1>8, <4>1 DEF PollInput, Polling
      <4>2. CASE NextTurn # None
        <5>1. left' = [kept EXCEPT ![NextTurn] = @ - 1]
          BY <1>8, <4>2, Zenon DEF PollInput
        <5>2. \E k \in Kinds : poll' = [at |-> "client", channel |-> NextTurn, line |-> k]
          BY <1>8, <4>2, Zenon DEF PollInput
        <5>3. poll'.channel = NextTurn
          BY <5>2
        <5> QED BY <5>1, <5>3
      <4> QED BY <4>1, <4>2
    <3>5. ASSUME NEW f \in ToSet(job) PROVE Waiting(f)' = Waiting(f)
      <4>1. f \in Channels /\ f # None /\ f \notin Clients /\ left[f] \in Nat
        BY JobFiles
      <4>2. f \in live'
        BY <3>1, BuriedCalls
      <4>3. kept[f] = left[f] /\ kept \in [Channels -> Nat]
        BY <4>1, <4>2 DEF ChannelTypes
      <4> HIDE DEF kept
      <4>4. left'[f] = left[f]
        BY <3>3, <3>4, <4>1, <4>3
      <4>5. poll'.channel # f
        BY <3>3, <3>4, <4>1
      <4> QED BY <3>1, <4>1, <4>4, <4>5 DEF Waiting, One
    <3> QED BY <3>1, <3>2, <3>5, StutterOf
  <2> QED BY <2>1, <2>2
<1>9. CASE PollClient
  <2>1. CallInv'
    BY <1>0, <1>9, JobFiles DEF PollClient, KeptOut, Polling, CallInv, ChannelTypes
  <2>2. [Calls!Next]_(Calls!vars)
    <3>1. job' = job /\ Caller' = Caller
      BY <1>0, <1>9 DEF PollClient, KeptOut, Polling, Caller, Executing
    <3>2. ASSUME NEW f \in ToSet(job) PROVE Waiting(f)' = Waiting(f)
      BY <1>0, <1>9, <3>1, JobFiles DEF PollClient, KeptOut, Polling, Waiting,
         One, JobRead, Someones, Empty, Reaping
    <3> QED BY <3>1, <3>2, StutterOf
  <2> QED BY <2>1, <2>2
<1> QED BY <1>1, <1>2, <1>3, <1>4, <1>5, <1>6, <1>7, <1>8, <1>9 DEF PollingTask

(* Most steps change nothing CallInv speaks of.                              *)
LEMMA CallsKept ==
    ASSUME CallInv, UNCHANGED <<closing, live, job, poll, left>>
    PROVE  CallInv'
BY DEF CallInv

(* A step that moves no line and makes no call is none of Interpreter.       *)
LEMMA QuietStep ==
    ASSUME CallInv, UNCHANGED <<closing, live, job, poll, left, cmd>>, Caller' = Caller
    PROVE  CallInv' /\ [Calls!Next]_(Calls!vars)
<1>1. \A f \in ToSet(job) : Waiting(f)' = Waiting(f)
  BY DEF Waiting, One
<1> QED BY <1>1, CallsKept, StutterOf

(* A line that may run a file is a client's or the innermost file's:         *)
(* one that has outlived its job is refused for the alarm.                   *)
LEMMA CallersOf ==
    ASSUME HeldInv, OwnInv, Executing({"run"}), machine # "Alarm"
    PROVE  Caller # "nobody"
<1>1. proto.channel \in Clients \cup Files
  BY DEF OwnInv, Someones, Executing, AtWork, Channels
<1>2. proto.channel \in Files => proto.channel \in ToSet(job)
  BY LastFile DEF OwnInv, Orphans, OwnLines, Executing, AtWork
<1> QED BY <1>1, <1>2 DEF Caller

(* A line that has been carried out without nesting a file: a refusal if     *)
(* it asked for one.                                                         *)
LEMMA LineEnds ==
    ASSUME CallInv, AtWork, proto'.at # "execute",
           UNCHANGED <<closing, live, job, poll, left, cmd>>
    PROVE  CallInv' /\ [Calls!Next]_(Calls!vars)
<1>1. Caller' = "nobody"
  BY DEF Caller, Executing
<1>2. CASE Caller = "nobody"
  BY <1>1, <1>2, QuietStep
<1>3. CASE Caller # "nobody"
  <2>1. Todo' = Todo
    BY DEF Todo
  <2> QED BY <1>1, <1>3, <2>1, RefuseOf, CallsKept DEF Calls!Next
<1> QED BY <1>2, <1>3

(* A line is received: a step of the innermost file, which makes a call      *)
(* if the line runs a file; or a client's line, which may be a request.      *)
LEMMA LinesTaken ==
    ASSUME HeldInv, OwnInv, CallInv, Receive
    PROVE  CallInv' /\ [Calls!Next]_(Calls!vars)
<1> USE LinesAssumption DEF HeldInv, TypeOK, objectVars, registryVars, jobVars,
        machineVars, Channels, JobActive
<1>0. Someones /\ JobRead /\ OwnLines /\ Orphans
  BY DEF OwnInv
<1>1. UNCHANGED <<closing, live, job, poll, left>> /\ cmd' = Empty /\ proto.at = "receive"
  BY DEF Receive
<1>2. CallInv' /\ Caller = "nobody"
  BY <1>1, CallsKept DEF Caller, Executing
<1>3. CASE cmd = Empty
  <2>1. Caller' = "nobody" /\ UNCHANGED cmd
    BY <1>1, <1>3 DEF Receive, Resting, Caller, Executing
  <2> QED BY <1>1, <1>2, <2>1, QuietStep
<1>4. CASE cmd # Empty
  <2>1. /\ ~closing[cmd.channel] /\ cmd.channel \in Clients \cup Files
        /\ proto'.channel = cmd.channel
    BY <1>0, <1>4 DEF Receive, Someones
  <2>2. CASE cmd.channel \in Clients
    <3>1. job = <<>>
      BY <1>0, <1>4, <2>2, LastFile DEF OwnLines
    <3>2. ToSet(job) = {}
      BY <3>1 DEF ToSet
    <3>3. Todo' = Todo
      BY <1>1, <3>2 DEF Todo
    <3>4. Caller' \in {"nobody", "client"}
      BY <2>1, <2>2 DEF Caller
    <3>5. CASE Caller' = "client"
      BY <1>1, <1>2, <3>1, <3>3, <3>5, RequestOf DEF Calls!Next
    <3>6. CASE Caller' = "nobody"
      <4>1. \A f \in ToSet(job) : Waiting(f)' = Waiting(f)
        BY <3>2
      <4> QED BY <1>1, <1>2, <3>6, <4>1, StutterOf
    <3> QED BY <1>2, <3>4, <3>5, <3>6
  <2>3. CASE cmd.channel \in Files
    <3>1. job # <<>> /\ cmd.channel = Last(job) /\ Last(job) \in ToSet(job) /\ Last(job) \in Files
      BY <1>0, <1>4, <2>1, <2>3, LastFile DEF OwnLines, Orphans
    <3>2. ASSUME NEW f \in ToSet(job)
          PROVE  /\ Waiting(f) \in Nat /\ (f = Last(job) => Waiting(f) > 0)
                 /\ Waiting(f)' = IF f = Last(job) THEN Waiting(f) - 1 ELSE Waiting(f)
      <4>1. f # None /\ left[f] \in Nat
        BY JobFiles
      <4>2. One(cmd.channel = f) = (IF f = Last(job) THEN 1 ELSE 0) /\ One(cmd'.channel = f) = 0
        BY <1>1, <3>1, <4>1 DEF One, Empty
      <4> QED BY <1>1, <4>1, <4>2 DEF Waiting, One
    <3>3. Todo = [f \in Files |-> IF f \in ToSet(job) THEN Waiting(f) ELSE 0]
      BY DEF Todo, Waiting
    <3>4. Todo' = [f \in Files |-> IF f \in ToSet(job) THEN Waiting(f)' ELSE 0]
      BY <1>1 DEF Todo, Waiting
    <3>5. Todo[Last(job)] > 0
      <4>1. Waiting(Last(job)) > 0
        BY <3>1, <3>2
      <4> QED BY <3>1, <3>3, <4>1
    <3>6. Todo' = [Todo EXCEPT ![Last(job)] = @ - 1]
      BY <3>1, <3>2, <3>3, <3>4
    <3>7. Caller' \in {"nobody", "file"}
      BY <2>1, <2>3 DEF Caller
    <3> QED BY <1>1, <1>2, <3>1, <3>5, <3>6, <3>7, StepOf DEF Calls!Next
  <2> QED BY <2>1, <2>2, <2>3
<1> QED BY <1>3, <1>4

(* A file is opened and nested: a call.                                      *)
LEMMA FilesCalled ==
    ASSUME HeldInv, OwnInv, CallInv, ExecuteRun
    PROVE  CallInv' /\ [Calls!Next]_(Calls!vars)
<1> USE LinesAssumption DEF HeldInv, TypeOK, objectVars, registryVars, jobVars,
        machineVars, Channels, JobActive
<1>0. Someones /\ JobRead /\ OwnLines /\ Orphans
  BY DEF OwnInv
<1>1. PICK f \in Files \ live, n \in 0 .. FileLines : Nest(f, n, proto.out)
  BY DEF ExecuteRun
<1>2. /\ live' = live \cup {f} /\ left' = [left EXCEPT ![f] = n] /\ job' = Append(job, f)
      /\ UNCHANGED <<closing, poll, cmd>> /\ proto' = [proto EXCEPT !.at = "ack"]
      /\ Executing({"run"}) /\ machine # "Alarm"
  BY <1>1 DEF Nest, ExecuteRun, Executed
<1>3. job \in Seq(Files) /\ f \notin ToSet(job) /\ job' \in Seq(Files)
  BY <1>2 DEF HeldChannelsLive, RegistryTypes
<1>4. ToSet(job') = ToSet(job) \cup {f}
  <2>1. Len(job') = Len(job) + 1 /\ job'[Len(job) + 1] = f /\ \A i \in 1 .. Len(job) : job'[i] = job[i]
    BY <1>2, <1>3
  <2>2. ASSUME NEW x \in ToSet(job') PROVE x \in ToSet(job) \cup {f}
    <3>1. PICK i \in 1 .. Len(job') : x = job'[i]
      BY <1>3, <2>2, SetOf
    <3>2. CASE i \in 1 .. Len(job)
      BY <1>3, <2>1, <3>1, <3>2, SetOf
    <3>3. CASE i \notin 1 .. Len(job)
      <4>1. i = Len(job) + 1
        BY <1>3, <2>1, <3>1, <3>3
      <4> QED BY <2>1, <3>1, <4>1
    <3> QED BY <3>2, <3>3
  <2>3. ASSUME NEW x \in ToSet(job) PROVE x \in ToSet(job')
    <3>1. PICK i \in 1 .. Len(job) : x = job[i]
      BY <1>3, <2>3, SetOf
    <3>2. i \in 1 .. Len(job') /\ job'[i] = x
      BY <1>3, <2>1, <3>1
    <3> QED BY <1>3, <3>2, SetOf
  <2>4. f \in ToSet(job')
    <3>1. Len(job) + 1 \in 1 .. Len(job')
      BY <1>3, <2>1
    <3> QED BY <1>3, <2>1, <3>1, SetOf
  <2> QED BY <2>2, <2>3, <2>4
<1>5. f \in Channels /\ f # None /\ f \notin {poll.channel, cmd.channel} /\ ~closing[f]
  BY DEF HeldChannelsLive, CallInv
<1>6. left' \in [Channels -> Nat] /\ left'[f] = n /\ \A g \in Channels : g # f => left'[g] = left[g]
  BY <1>2, <1>5 DEF ChannelTypes
<1>7. CallInv'
  <2>1. poll'.at # "eof"
    <3>1. CASE JobActive
      BY <1>0, <1>2, <3>1, NotInFlight DEF JobRead, Executing, AtWork
    <3>2. CASE ~JobActive
      BY <1>0, <1>2, <3>2 DEF JobRead
    <3> QED BY <3>1, <3>2
  <2> QED BY <1>2, <1>4, <1>5, <2>1 DEF CallInv
<1>8. Todo' = [Todo EXCEPT ![f] = n]
  <2>1. \A g \in Files : Waiting(g)' = IF g = f THEN n ELSE Waiting(g)
    BY <1>2, <1>5, <1>6 DEF Waiting, One
  <2>2. Todo = [g \in Files |-> IF g \in ToSet(job) THEN Waiting(g) ELSE 0]
    BY DEF Todo, Waiting
  <2>3. Todo' = [g \in Files |-> IF g \in ToSet(job') THEN Waiting(g)' ELSE 0]
    BY DEF Todo, Waiting
  <2> QED BY <1>4, <2>1, <2>2, <2>3
<1>9. Caller # "nobody" /\ Caller' = "nobody"
  <2>1. Caller # "nobody"
    BY <1>2, CallersOf
  <2>2. Caller' = "nobody"
    <3>1. proto'.at # "execute"
      BY <1>2 DEF TaskTypes
    <3> QED BY <3>1 DEF Caller, Executing
  <2> QED BY <2>1, <2>2
<1>10. Calls!Call(f, n)
  BY <1>2, <1>3, <1>8, <1>9, CallOf
<1> QED BY <1>7, <1>10 DEF Calls!Next

(* Every step of the protocol task is a step of Interpreter or none.         *)
LEMMA ProtocolCalls ==
    ASSUME HeldInv, OwnInv, CallInv, ProtocolTask
    PROVE  CallInv' /\ [Calls!Next]_(Calls!vars)
<1> USE LinesAssumption DEF HeldInv, TypeOK, objectVars, registryVars, jobVars,
        machineVars, Channels, JobActive
<1>0. NothingUnwinds /\ OwnLines
  BY DEF OwnInv
<1>1. CASE Receive
  BY <1>1, LinesTaken
<1>2. CASE DropLine
  <2>1. UNCHANGED <<closing, live, job, poll, left>> /\ cmd' = Empty /\ cmd.channel \notin ToSet(job)
    BY <1>2 DEF DropLine, CallInv
  <2>2. Caller = "nobody" /\ Caller' = "nobody"
    BY <1>2 DEF DropLine, Resting, Caller, Executing
  <2>3. ASSUME NEW f \in ToSet(job) PROVE Waiting(f)' = Waiting(f)
    <3>1. f # None /\ f # cmd.channel
      BY <2>1, JobFiles
    <3> QED BY <2>1, <3>1 DEF Waiting, One, Empty
  <2> QED BY <2>1, <2>2, <2>3, CallsKept, StutterOf
<1>3. CASE ExecuteReport \/ ExecuteBad \/ ExecuteRunFails \/ ExecuteUnlock \/ ExecuteGcode
  <2>1. /\ AtWork /\ UNCHANGED <<closing, live, job, poll, left, cmd>>
        /\ \/ proto' = [proto EXCEPT !.at = "ack"]
           \/ proto' = [proto EXCEPT !.at = "wait"]
    BY <1>3 DEF ExecuteReport, ExecuteBad, ExecuteRunFails, ExecuteUnlock,
       ExecuteGcode, Executing, Executed, AtWork
  <2>2. proto'.at # "execute"
    BY <2>1 DEF TaskTypes
  <2> QED BY <2>1, <2>2, LineEnds
<1>4. CASE ExecuteRun
  BY <1>4, FilesCalled
<1>5. CASE WaitOver \/ Ack \/ EndPass
  <2>1. /\ UNCHANGED <<closing, live, job, poll, left, cmd>> /\ proto.at \in {"wait", "ack", "pass"}
        /\ \/ proto' = [proto EXCEPT !.at = "ack"]
           \/ proto' \in {Resting("pass"), Resting("receive")}
    BY <1>5 DEF WaitOver, Ack, EndPass, Executed
  <2>2. proto'.at # "execute" /\ proto.at # "execute"
    BY <2>1 DEF TaskTypes, Resting
  <2>3. Caller' = Caller
    BY <2>2 DEF Caller, Executing
  <2> QED BY <2>1, <2>3, QuietStep
<1>6. CASE HandleEvent
  <2>1. Head(events) = "alarm"
    <3>1. events # <<>> /\ Len(events) \in 1 .. Len(events) /\ events[1] = Head(events)
      BY <1>6 DEF HandleEvent, MachineTypes
    <3>2. events[1] \in ToSet(events)
      BY <3>1 DEF ToSet
    <3> QED BY <1>0, <3>1, <3>2 DEF NothingUnwinds
  <2>2. UNCHANGED <<closing, live, job, poll, left, cmd, proto>>
    BY <1>6, <2>1 DEF HandleEvent
  <2>3. Caller' = Caller
    BY <2>2 DEF Caller, Executing
  <2> QED BY <2>2, <2>3, QuietStep
<1> QED BY <1>1, <1>2, <1>3, <1>4, <1>5, <1>6 DEF ProtocolTask

(* Clients change no file's lines, and faults are none of Interpreter's.     *)
LEMMA OutsideCalls ==
    ASSUME HeldInv, OwnInv, CallInv, Outside
    PROVE  CallInv' /\ [Calls!Next]_(Calls!vars)
<1> USE LinesAssumption DEF HeldInv, TypeOK, objectVars, registryVars, jobVars,
        machineVars, Channels
<1>1. /\ UNCHANGED <<job, poll, cmd, proto>>
      /\ \/ UNCHANGED <<live, closing, left>>
         \/ \E c \in Clients : /\ live' = live \cup {c} /\ UNCHANGED <<closing, left>>
         \/ \E c \in Clients : /\ c \in live
                               /\ live' = live
                               /\ closing' \in {closing, [closing EXCEPT ![c] = TRUE]}
                               /\ left' \in {left, [left EXCEPT ![c] = 0]}
         \/ \E c \in Clients : /\ UNCHANGED <<live, closing>> /\ left' = [left EXCEPT ![c] = @ + 1]
  <2>1. ASSUME NEW c \in Clients, Disconnect(c) PROVE c \in live
    BY <2>1 DEF Disconnect, Reaping
  <2> QED BY <2>1 DEF Outside, Connect, Disconnect, Send, Fault
<1>2. \A c \in Channels : closing'[c] => c \in live'
  BY <1>1 DEF CallInv, ChannelTypes
<1>3. \A f \in ToSet(job) : ~closing'[f] /\ left'[f] = left[f]
  <2> TAKE f \in ToSet(job)
  <2>1. f \in Channels /\ f \notin Clients /\ ~closing[f]
    BY JobFiles
  <2> QED BY <1>1, <2>1 DEF ChannelTypes
<1>4. CallInv'
  <2>1. poll.at = "eof" => left'[Last(job)] = left[Last(job)]
    BY <1>3, LastFile DEF OwnInv, JobRead
  <2> QED BY <1>1, <1>2, <1>3, <2>1 DEF CallInv
<1>5. Caller' = Caller
  BY <1>1 DEF Caller, Executing
<1>6. \A f \in ToSet(job) : Waiting(f)' = Waiting(f)
  BY <1>1, <1>3 DEF Waiting
<1> QED BY <1>1, <1>4, <1>5, <1>6, StutterOf

(* Every step keeps CallInv and is a step of Interpreter or none.            *)
LEMMA CallsNext ==
    ASSUME HeldInv, OwnInv, CallInv, [Next]_vars
    PROVE  CallInv' /\ [Calls!Next]_(Calls!vars)
<1>1. CASE UNCHANGED vars
  <2>1. UNCHANGED <<closing, live, job, poll, left, cmd, proto>>
    BY <1>1 DEF vars, objectVars, registryVars, jobVars, machineVars
  <2>2. Caller' = Caller
    BY <2>1 DEF Caller, Executing
  <2> QED BY <2>1, <2>2, QuietStep
<1> QED BY <1>1, PollingCalls, ProtocolCalls, OutsideCalls DEF Next

(* The initial states are the initial states of Interpreter.                 *)
LEMMA CallsInit == Init => CallInv /\ Calls!Init
<1> SUFFICES ASSUME Init PROVE CallInv /\ Calls!Init
  OBVIOUS
<1>1. CallInv
  BY DEF Init, CallInv, ToSet, Polling
<1>2. ToSet(job) = {} /\ ~Executing({"run"})
  BY DEF Init, ToSet, Executing, Resting
<1>3. Calls!Init
  BY <1>2 DEF Init, Calls!Init
<1> QED BY <1>1, <1>3

(* The job stack and the hand-off of lines implement calls of files          *)
(* (Job.cpp:99, Protocol.cpp:324, ProcessSettings.cpp:1369): of a job every  *)
(* line is the innermost file's, a file it runs is nested before its next    *)
(* line is taken, and it returns after its last.  Without resets, and with   *)
(* one sender that waits for each answer.                                    *)
THEOREM FilesRunAsCalls ==
    ASSUME OneAtATime, "reset" \notin Faults
    PROVE  Spec => RunsAsCalls
<1>1. Init => HeldInv /\ OwnInv /\ CallInv /\ Calls!Init
  BY HeldInit, OwnInit, CallsInit
<1>3. HeldInv /\ OwnInv /\ [Next]_vars => OwnInv'
  BY OwnNext
<1>4. HeldInv /\ OwnInv /\ CallInv /\ [Next]_vars => CallInv' /\ [Calls!Next]_(Calls!vars)
  BY CallsNext
<1> QED BY <1>1, <1>3, <1>4, HeldInvariant, PTL DEF Spec, RunsAsCalls, Calls!Spec
=============================================================================
