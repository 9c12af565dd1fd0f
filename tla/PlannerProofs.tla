--------------------------- MODULE PlannerProofs ---------------------------
(***************************************************************************)
(* The planner for a ring of any size, any moves and any override values.  *)
(*                                                                         *)
(* The first part proves Spec => []PlannedInsideQueue.  It never looks at  *)
(* a speed: planner_recalculate() moves block_buffer_planned to some block *)
(* between its old value and the newest block, whichever the speeds make   *)
(* it, and every other handler keeps it between the tail and the head.     *)
(*                                                                         *)
(* The second part is about the speeds.  It proves Spec => []TypeOK,       *)
(* Spec => []PlanOptimal and Spec => AccelerationBounded from one          *)
(* inductive invariant, PInv: the queued blocks are a plan in which every  *)
(* speed is within its limit, can be reached from the block before, braked *)
(* from into the block after and stopped from within what is queued, and   *)
(* is at its limit or as near to a neighbour's as acceleration allows; the *)
(* blocks up to block_buffer_planned are so by acceleration alone; and the *)
(* profile that prep_buffer() rides leads from the speed it has to the     *)
(* speed planned for the next block.                                       *)
(***************************************************************************)
EXTENDS Planner, TLAPS, WellFoundedInduction

RingTypeOK ==
  /\ tail \in Slots /\ head \in Slots /\ nextHead \in Slots /\ planned \in Slots
  /\ plBlock \in BOOLEAN

IInv == RingTypeOK /\ PlannedInsideQueue

IsPlan(plan) ==
  plan = [buffer |-> plan.buffer, planned |-> plan.planned,
          plBlock |-> plan.plBlock, prep |-> plan.prep]

-----------------------------------------------------------------------------
(* Arithmetic of the ring.                                                   *)

LEMMA RingArithmetic ==
  /\ \A i \in Slots : NextIndex(i) \in Slots /\ NextIndex(i) # i
  /\ \A i, j \in Slots : Distance(i, j) \in 0 .. N - 1 /\ (Distance(i, j) = 0 <=> i = j)
  /\ \A i, j \in Slots : NextIndex(j) # i => Distance(i, NextIndex(j)) = Distance(i, j) + 1
  /\ \A i, j \in Slots : i # j => Distance(NextIndex(i), j) = Distance(i, j) - 1
  /\ \A i \in Slots, k \in 0 .. N - 1 : Ahead(i, k) \in Slots /\ Distance(i, Ahead(i, k)) = k
BY PlannerAssumption DEF Slots, NextIndex, Distance, Ahead

\* A set of block positions after p has a last one, or p stands in for it.
LEMMA LastExists ==
  ASSUME NEW p \in Nat, NEW n \in Nat, NEW S \in SUBSET (p + 1 .. n - 1)
  PROVE  \E k \in S \cup {p} : \A j \in S : j <= k
<1>1. CASE S = {}
  BY <1>1
<1>2. CASE S # {}
  <2> DEFINE T == {n - k : k \in S}
  <2>1. T \subseteq Nat /\ T # {}
    BY <1>2
  <2>2. PICK t \in T : \A u \in T : ~ (<<u, t>> \in OpToRel(<, Nat))
    BY <2>1, NatLessThanWellFounded, WFMin, Zenon
  <2>3. PICK k \in S : t = n - k
    OBVIOUS
  <2>4. \A j \in S : ~ (n - j < n - k)
    BY <2>1, <2>2, <2>3 DEF OpToRel
  <2> QED
    BY <2>4
<1> QED
  BY <1>1, <1>2

-----------------------------------------------------------------------------
(* The planning routines.                                                    *)

\* Stepper::update_plan_block_parameters() leaves the planned pointer alone.
LEMMA UpdateTailPlanned ==
  ASSUME NEW plan, IsPlan(plan)
  PROVE  /\ IsPlan(UpdateTail(plan))
         /\ UpdateTail(plan).planned = plan.planned
         /\ UpdateTail(plan).plBlock \in {plan.plBlock, FALSE}
BY DEF IsPlan, UpdateTail

\* planner_recalculate() moves the planned pointer forwards, short of the head.
LEMMA RecalculatePlanned ==
  ASSUME RingTypeOK, NEW plan, IsPlan(plan), NEW h \in Slots, plan.planned \in Slots,
         Distance(tail, plan.planned) < Distance(tail, h) \/ plan.planned = tail
  PROVE  /\ Recalculate(plan, h).planned \in Slots
         /\ Recalculate(plan, h).plBlock \in {plan.plBlock, FALSE}
         /\ h = tail => Recalculate(plan, h).planned = plan.planned
         /\ h # tail => Distance(tail, Recalculate(plan, h).planned) < Distance(tail, h)
<1> DEFINE n == Distance(tail, h)
           p == Distance(tail, plan.planned)
           upd == NotifyStepper(plan, p)
           r == Recalculate(plan, h)
<1>1. n \in 0 .. N - 1 /\ p \in 0 .. N - 1 /\ (n = 0 <=> h = tail)
      /\ (p < n \/ p = 0) /\ tail \in Slots
  BY RingArithmetic DEF RingTypeOK
<1>2. IsPlan(upd) /\ upd.planned = plan.planned /\ upd.plBlock \in {plan.plBlock, FALSE}
  BY UpdateTailPlanned DEF NotifyStepper
<1>3. CASE n = 0 \/ p = n - 1
  <2>1. r = plan
    BY <1>3 DEF Recalculate
  <2> QED
    BY <2>1, <1>1, <1>3, PlannerAssumption
<1>4. CASE ~(n = 0 \/ p = n - 1)
  <2>1. PICK S \in SUBSET (p + 1 .. n - 1) :
          /\ r.planned = Slot(CHOOSE k \in S \cup {p} : \A j \in S : j <= k)
          /\ r.plBlock = upd.plBlock
    BY <1>2, <1>4 DEF Recalculate, IsPlan
  <2> DEFINE last == CHOOSE k \in S \cup {p} : \A j \in S : j <= k
  <2> HIDE DEF n, p
  <2>2. last \in S \cup {p}
    BY <1>1, LastExists, PlannerAssumption
  <2> HIDE DEF last
  <2>3. last \in 0 .. n - 1
    BY <2>2, <1>1, <1>4, PlannerAssumption
  <2>4. r.planned = Slot(last) /\ r.plBlock = upd.plBlock
    BY <2>1 DEF last
  <2>5. last \in 0 .. N - 1
    BY <2>3, <1>1, PlannerAssumption
  <2>6. Slot(last) \in Slots /\ Distance(tail, Slot(last)) = last
    BY <2>5, <1>1, RingArithmetic DEF Slot
  <2>7. Distance(tail, r.planned) < n
    BY <2>3, <2>4, <2>6, <1>1, PlannerAssumption
  <2> QED
    BY <2>4, <2>6, <2>7, <1>1, <1>2, <1>4 DEF n
<1> QED
  BY <1>3, <1>4

\* plan_cycle_reinitialize() brings the planned pointer back to the tail first.
LEMMA ReinitializePlanned ==
  ASSUME IInv, NEW plan, IsPlan(plan)
  PROVE  /\ Reinitialize(plan).planned \in Slots
         /\ Reinitialize(plan).plBlock \in {plan.plBlock, FALSE}
         /\ head = tail => Reinitialize(plan).planned = tail
         /\ head # tail => Distance(tail, Reinitialize(plan).planned) < Count
<1> DEFINE start == [UpdateTail(plan) EXCEPT !.planned = tail]
<1>1. /\ IsPlan(start)
      /\ start.planned = tail
      /\ start.plBlock \in {plan.plBlock, FALSE}
  <2> DEFINE upd == UpdateTail(plan)
  <2>1. IsPlan(upd) /\ upd.plBlock \in {plan.plBlock, FALSE}
    BY UpdateTailPlanned
  <2> HIDE DEF upd
  <2>2. [upd EXCEPT !.planned = tail] =
          [buffer |-> upd.buffer, planned |-> tail, plBlock |-> upd.plBlock, prep |-> upd.prep]
    BY <2>1 DEF IsPlan
  <2> QED
    BY <2>1, <2>2 DEF IsPlan, upd
<1> HIDE DEF start
<1>2. tail \in Slots /\ head \in Slots /\ RingTypeOK
  BY DEF IInv, RingTypeOK
<1>3. /\ Recalculate(start, head).planned \in Slots
      /\ Recalculate(start, head).plBlock \in {start.plBlock, FALSE}
      /\ head = tail => Recalculate(start, head).planned = start.planned
      /\ head # tail => Distance(tail, Recalculate(start, head).planned) < Distance(tail, head)
  BY <1>1, <1>2, RecalculatePlanned
<1>4. Reinitialize(plan) = Recalculate(start, head)
  BY DEF Reinitialize, start
<1> QED
  BY <1>1, <1>3, <1>4 DEF Count

-----------------------------------------------------------------------------
(* The invariant.                                                            *)

\* The queue of an initialised planner is empty and its pointers agree.
LEMMA InitInvariant == Init => IInv
<1> SUFFICES ASSUME Init PROVE IInv
  OBVIOUS
<1>1. tail = 0 /\ head = 0 /\ nextHead = 1 /\ planned = 0 /\ plBlock = FALSE
  BY DEF Init
<1>2. 0 \in Slots /\ 1 \in Slots /\ NextIndex(0) = 1 /\ Distance(0, 0) = 0
  BY PlannerAssumption DEF Slots, NextIndex, Distance
<1>3. RingTypeOK
  BY <1>1, <1>2 DEF RingTypeOK
<1>4. PlannedInsideQueue
  BY <1>1, <1>2 DEF PlannedInsideQueue, Count
<1> QED
  BY <1>3, <1>4 DEF IInv

\* plan_buffer_line() moves the head, never onto the tail.
LEMMA BufferLineStep ==
  ASSUME IInv, NEW s \in Shapes, BufferLine(s)
  PROVE  IInv'
<1>1. PICK b : /\ Adopt(Recalculate([Plan EXCEPT !.buffer[head] = b], nextHead))
               /\ head' = nextHead /\ nextHead' = NextIndex(nextHead) /\ tail' = tail
               /\ tail # nextHead
  BY DEF BufferLine, Full
<1> DEFINE plan == [Plan EXCEPT !.buffer[head] = b]
<1>2. IsPlan(plan) /\ plan.planned = planned /\ plan.plBlock = plBlock
  BY DEF IsPlan, Plan
<1> HIDE DEF plan
<1>3. RingTypeOK /\ tail \in Slots /\ head \in Slots /\ nextHead \in Slots /\ planned \in Slots
  BY DEF IInv, RingTypeOK
<1>4. Distance(tail, planned) < Distance(tail, nextHead)
  <2>1. nextHead = NextIndex(head) /\ Distance(tail, planned) <= Distance(tail, head)
    BY DEF IInv, PlannedInsideQueue, Count
  <2>2. Distance(tail, nextHead) = Distance(tail, head) + 1
    BY <1>1, <1>3, <2>1, RingArithmetic
  <2>3. Distance(tail, head) \in 0 .. N - 1 /\ Distance(tail, planned) \in 0 .. N - 1
    BY <1>3, RingArithmetic
  <2> QED
    BY <2>1, <2>2, <2>3, PlannerAssumption
<1>5. /\ planned' \in Slots
      /\ plBlock' \in {plBlock, FALSE}
      /\ Distance(tail, planned') < Distance(tail, nextHead)
  <2>1. /\ Recalculate(plan, nextHead).planned \in Slots
        /\ Recalculate(plan, nextHead).plBlock \in {plan.plBlock, FALSE}
        /\ Distance(tail, Recalculate(plan, nextHead).planned) < Distance(tail, nextHead)
    BY <1>1, <1>2, <1>3, <1>4, RecalculatePlanned
  <2> QED
    BY <1>1, <1>2, <2>1 DEF Adopt, plan
<1>6. Distance(tail, nextHead) \in 0 .. N - 1 /\ Distance(tail, planned') \in 0 .. N - 1
  BY <1>3, <1>5, RingArithmetic
<1>7. RingTypeOK'
  BY <1>1, <1>3, <1>5, RingArithmetic DEF RingTypeOK, IInv
<1>8. PlannedInsideQueue'
  <2>1. Distance(tail, planned)' = Distance(tail, planned')
    BY <1>1 DEF Distance
  <2>2. Count' = Distance(tail, nextHead)
    BY <1>1 DEF Distance, Count
  <2> QED
    BY <1>1, <1>5, <1>6, <2>1, <2>2, PlannerAssumption DEF PlannedInsideQueue,
       NextIndex
<1> QED
  BY <1>7, <1>8 DEF IInv

\* What a handler that keeps the queue and replans from the tail leaves behind.
LEMMA ReplannedStep ==
  ASSUME IInv, NEW plan, IsPlan(plan), plan.plBlock \in {plBlock, FALSE},
         Adopt(Reinitialize(plan)), UNCHANGED <<tail, head, nextHead>>
  PROVE  IInv'
<1>1. /\ planned' \in Slots
      /\ plBlock' \in {plBlock, FALSE}
      /\ head = tail => planned' = tail
      /\ head # tail => Distance(tail, planned') < Count
  BY ReinitializePlanned DEF Adopt
<1>2. tail \in Slots /\ head \in Slots /\ nextHead \in Slots /\ plBlock \in BOOLEAN
  BY DEF IInv, RingTypeOK
<1>3. Count \in 0 .. N - 1 /\ Distance(tail, planned') \in 0 .. N - 1
      /\ Distance(tail, tail) = 0
  BY <1>1, <1>2, RingArithmetic DEF Count
<1>4. RingTypeOK'
  BY <1>1, <1>2 DEF RingTypeOK
<1>5. Distance(tail, planned)' = Distance(tail, planned') /\ Count' = Count
  BY DEF Distance, Count
<1>6. PlannedInsideQueue'
  <2>1. nextHead' = NextIndex(head)'
    BY DEF IInv, PlannedInsideQueue, NextIndex
  <2>2. Distance(tail, planned)' <= Count' /\ (head' # tail' => Distance(tail, planned)' < Count')
    BY <1>1, <1>3, <1>5, PlannerAssumption
  <2>3. plBlock' => head' # tail'
    BY <1>1 DEF IInv, PlannedInsideQueue
  <2> QED
    BY <2>1, <2>2, <2>3 DEF PlannedInsideQueue
<1> QED
  BY <1>4, <1>6 DEF IInv

\* A segment that completes the tail block discards it, and pushes the planned
\* pointer along if it stood there.
LEMMA SegmentStep ==
  ASSUME IInv, Segment
  PROVE  IInv'
<1>1. /\ head # tail /\ UNCHANGED <<head, nextHead>>
      /\ \/ tail' = NextIndex(tail) /\ planned' = PlannedAfterDiscard /\ plBlock' = FALSE
         \/ UNCHANGED <<tail, planned>> /\ plBlock' = TRUE
  BY DEF Segment
<1>2. tail \in Slots /\ head \in Slots /\ nextHead \in Slots /\ planned \in Slots
  BY DEF IInv, RingTypeOK
<1>3. /\ nextHead = NextIndex(head)
      /\ Distance(tail, planned) < Distance(tail, head)
      /\ Distance(tail, head) \in 1 .. N - 1 /\ Distance(tail, planned) \in 0 .. N - 1
  BY <1>1, <1>2, RingArithmetic, PlannerAssumption DEF IInv, PlannedInsideQueue,
     Count
<1>4. CASE tail' = NextIndex(tail) /\ planned' = PlannedAfterDiscard /\ plBlock' = FALSE
  <2>1. NextIndex(tail) \in Slots /\ Distance(NextIndex(tail), head) = Distance(tail, head) - 1
    BY <1>1, <1>2, RingArithmetic
  <2>2. /\ planned' \in Slots
        /\ \/ planned' = tail' /\ Distance(tail', planned') = 0
           \/ Distance(tail', planned') = Distance(tail, planned) - 1
    BY <1>2, <1>4, <2>1, RingArithmetic DEF PlannedAfterDiscard
  <2>3. Distance(tail', head) = 0 <=> tail' = head
    BY <1>2, <1>4, <2>1, RingArithmetic
  <2>4. RingTypeOK'
    BY <1>1, <1>2, <1>4, <2>1, <2>2 DEF RingTypeOK
  <2>5. Distance(tail, planned)' = Distance(tail', planned') /\ Count' = Distance(tail', head)
    BY <1>1 DEF Distance, Count
  <2>6. PlannedInsideQueue'
    BY <1>1, <1>3, <1>4, <2>1, <2>2, <2>3, <2>5, PlannerAssumption
       DEF PlannedInsideQueue, NextIndex
  <2> QED
    BY <2>4, <2>6 DEF IInv
<1>5. CASE UNCHANGED <<tail, planned>> /\ plBlock' = TRUE
  BY <1>1, <1>5 DEF IInv, RingTypeOK, PlannedInsideQueue, Count, Distance, NextIndex
<1> QED
  BY <1>1, <1>4, <1>5

\* The handlers that touch no index, or only drop the claim on the tail block.
LEMMA IndicesUnchanged ==
  ASSUME IInv, UNCHANGED ring, plBlock' \in {plBlock, FALSE}
  PROVE  IInv'
<1>1. RingTypeOK'
  BY DEF IInv, RingTypeOK, ring
<1>2. NextIndex(head)' = NextIndex(head) /\ Count' = Count
      /\ Distance(tail, planned)' = Distance(tail, planned)
  BY DEF Count, Distance, NextIndex, ring
<1>3. head' = head /\ tail' = tail /\ nextHead' = nextHead
  BY DEF ring
<1>4. PlannedInsideQueue'
  <2>1. nextHead' = NextIndex(head)' /\ Distance(tail, planned)' <= Count'
        /\ (head' # tail' => Distance(tail, planned)' < Count')
    BY <1>2, <1>3 DEF IInv, PlannedInsideQueue
  <2>2. plBlock' => head' # tail'
    BY <1>3, Zenon DEF IInv, PlannedInsideQueue
  <2> QED
    BY <2>1, <2>2 DEF PlannedInsideQueue
<1> QED
  BY <1>1, <1>4 DEF IInv

\* Every step of the planner and of prep_buffer() keeps the ring consistent.
LEMMA NextInvariant == IInv /\ [Next]_vars => IInv'
<1> SUFFICES ASSUME IInv, [Next]_vars PROVE IInv'
  OBVIOUS
<1>0. /\ IsPlan(Plan) /\ Plan.plBlock = plBlock /\ Plan.planned = planned
      /\ UpdateTail(Plan).planned = planned /\ UpdateTail(Plan).plBlock \in {plBlock, FALSE}
  BY DEF IsPlan, Plan, UpdateTail
<1>1. ASSUME NEW s \in Shapes, BufferLine(s) PROVE IInv'
  BY <1>1, BufferLineStep
<1>2. ASSUME NEW o \in Overrides, FeedOverride(o) PROVE IInv'
  <2>1. CASE head = tail
    BY <1>2, <2>1, IndicesUnchanged DEF FeedOverride, ring
  <2>2. CASE head # tail
    <3>1. PICK limited : /\ Adopt(Reinitialize([Plan EXCEPT !.buffer = limited]))
                         /\ UNCHANGED <<tail, head, nextHead>>
      BY <1>2, <2>2 DEF FeedOverride
    <3>2. /\ IsPlan([Plan EXCEPT !.buffer = limited])
          /\ [Plan EXCEPT !.buffer = limited].plBlock = plBlock
      BY DEF IsPlan, Plan
    <3> QED
      BY <3>1, <3>2, ReplannedStep
  <2> QED
    BY <2>1, <2>2
<1>3. CASE Segment
  BY <1>3, SegmentStep
<1>4. CASE CycleStart
  BY <1>4, IndicesUnchanged DEF CycleStart
<1>5. CASE FeedHold
  BY <1>0, <1>5, IndicesUnchanged DEF FeedHold, Adopt, ring
<1>6. CASE CycleStop
  <2>1. CASE UNCHANGED <<ring, plBlock>>
    BY <2>1, IndicesUnchanged
  <2>2. CASE Adopt(Reinitialize(Plan)) /\ UNCHANGED <<tail, head, nextHead>>
    BY <1>0, <2>2, ReplannedStep
  <2> QED
    BY <1>6, <2>1, <2>2 DEF CycleStop
<1>7. CASE ResumeIdle
  BY <1>7, IndicesUnchanged DEF ResumeIdle
<1>8. CASE UNCHANGED vars
  BY <1>8, IndicesUnchanged DEF vars, ring
<1> QED
  BY <1>1, <1>2, <1>3, <1>4, <1>5, <1>6, <1>7, <1>8 DEF Next

\* The indices of the ring stay inside it, whatever its size and whatever is
\* queued, overridden, held and run.
THEOREM RingTypeCorrect == Spec => []RingTypeOK
<1>1. IInv => RingTypeOK
  BY DEF IInv
<1> QED
  BY InitInvariant, NextInvariant, <1>1, PTL DEF Spec

\* block_buffer_planned never leaves the queued blocks, and next_buffer_head
\* never loses the head, for a ring of any size: the invariant of the TLC runs.
THEOREM PlannedStaysInQueue == Spec => []PlannedInsideQueue
<1>1. IInv => PlannedInsideQueue
  BY DEF IInv
<1> QED
  BY InitInvariant, NextInvariant, <1>1, PTL DEF Spec

-----------------------------------------------------------------------------
(* Numbers.                                                                  *)

\* A set of numbers has a least one.
LEMMA Least == ASSUME NEW T \in SUBSET Nat, T # {} PROVE \E i \in T : \A j \in T : i <= j
<1>1. T \subseteq Nat /\ T # {}
  OBVIOUS
<1>2. PICK i \in T : \A j \in T : ~ (<<j, i>> \in OpToRel(<, Nat))
  BY <1>1, NatLessThanWellFounded, WFMin, Zenon
<1>3. ASSUME NEW j \in T PROVE ~ (j < i)
  BY <1>1, <1>2 DEF OpToRel
<1> QED BY <1>1, <1>3

\* What holds at i and passes from each number to the next holds up to j.
LEMMA Upward ==
  ASSUME NEW i \in Nat, NEW j \in Nat, NEW S, i \in S,
         \A k \in i .. j - 1 : k \in S => k + 1 \in S
  PROVE  \A k \in i .. j : k \in S
<1> DEFINE T == (i .. j) \ S
<1> SUFFICES ASSUME T # {} PROVE FALSE
  OBVIOUS
<1>1. T \in SUBSET Nat
  OBVIOUS
<1>2. PICK k \in T : \A u \in T : k <= u
  <2> HIDE DEF T
  <2> QED BY <1>1, Least
<1>3. k # i /\ k - 1 \in i .. j - 1 /\ k - 1 \notin T
  BY <1>2
<1> QED BY <1>3, <1>2

\* What holds at j and passes from each number to the one before holds down to i.
LEMMA Downward ==
  ASSUME NEW i \in Nat, NEW j \in Nat, NEW S, j \in S,
         \A k \in i .. j - 1 : k + 1 \in S => k \in S
  PROVE  \A k \in i .. j : k \in S
<1> DEFINE T == {u \in 0 .. j : i <= j - u /\ j - u \notin S}
<1> SUFFICES ASSUME T # {} PROVE FALSE
  <2>1. ASSUME NEW k \in i .. j, k \notin S PROVE FALSE
    <3>1. j - k \in 0 .. j /\ j - (j - k) = k
      OBVIOUS
    <3>2. j - k \in T
      BY <2>1, <3>1
    <3> QED BY <3>2
  <2> QED BY <2>1
<1>1. T \in SUBSET Nat
  OBVIOUS
<1>2. PICK u \in T : \A w \in T : u <= w
  <2> HIDE DEF T
  <2> QED BY <1>1, Least
<1>3. u # 0 /\ u - 1 \notin T /\ u - 1 \in 0 .. j
  BY <1>2
<1>4. j - (u - 1) \in S /\ j - u \in i .. j - 1 /\ (j - u) + 1 = j - (u - 1)
  BY <1>2, <1>3
<1> QED BY <1>2, <1>4

\* A sequence that starts at v and in which each value is made of the one before.
Recursive(f, k, V, v, F) ==
  /\ f \in [0 .. k -> V]
  /\ f[0] = v
  /\ \A i \in 1 .. k : f[i] = F[i][f[i - 1]]

\* Such a sequence exists: what CHOOSE needs in the passes of planner_recalculate().
LEMMA Recursion ==
  ASSUME NEW j \in Nat, NEW V, NEW v \in V, NEW F \in [1 .. j -> [V -> V]]
  PROVE  \E f : Recursive(f, j, V, v, F)
<1> DEFINE S == {k \in 0 .. j : \E f : Recursive(f, k, V, v, F)}
<1>1. 0 \in S
  <2> DEFINE f == [i \in 0 .. 0 |-> v]
  <2>1. Recursive(f, 0, V, v, F)
    BY DEF Recursive
  <2> HIDE DEF f
  <2> QED BY <2>1
<1>2. ASSUME NEW k \in 0 .. j - 1, k \in S PROVE k + 1 \in S
  <2>1. PICK f : Recursive(f, k, V, v, F)
    BY <1>2
  <2> DEFINE g == [i \in 0 .. k + 1 |-> IF i = k + 1 THEN F[k + 1][f[k]] ELSE f[i]]
  <2>2. k \in 0 .. k /\ f[k] \in V /\ k + 1 \in 1 .. j
    BY <2>1 DEF Recursive
  <2>3. F[k + 1][f[k]] \in V
    BY <2>2
  <2>4. \A i \in 0 .. k : g[i] = f[i] /\ f[i] \in V
    BY <2>1 DEF Recursive
  <2>5. g \in [0 .. k + 1 -> V]
    <3>1. ASSUME NEW i \in 0 .. k + 1 PROVE g[i] \in V
      <4>1. CASE i = k + 1
        BY <2>3, <4>1
      <4>2. CASE i # k + 1
        <5>1. i \in 0 .. k
          BY <4>2
        <5> QED BY <2>4, <5>1
      <4> QED BY <4>1, <4>2
    <3> QED BY <3>1
  <2>6. ASSUME NEW i \in 1 .. k + 1 PROVE g[i] = F[i][g[i - 1]]
    <3>1. i - 1 \in 0 .. k /\ g[i - 1] = f[i - 1]
      BY <2>4
    <3>2. CASE i = k + 1
      BY <3>1, <3>2
    <3>3. CASE i # k + 1
      <4>1. i \in 1 .. k /\ i \in 0 .. k
        BY <3>3
      <4> QED BY <2>1, <2>4, <3>1, <4>1 DEF Recursive
    <3> QED BY <3>2, <3>3
  <2>7. g[0] = v
    BY <2>1, <2>4 DEF Recursive
  <2> HIDE DEF g
  <2>8. Recursive(g, k + 1, V, v, F)
    BY <2>5, <2>6, <2>7 DEF Recursive
  <2> QED BY <2>8
<1>3. j \in S
  <2> HIDE DEF S
  <2>1. \A k \in 0 .. j : k \in S
    BY <1>1, <1>2, Upward
  <2> QED BY <2>1
<1> QED BY <1>3

-----------------------------------------------------------------------------
(* A plan as three sequences: the two passes of planner_recalculate().       *)

\* What a plan of n blocks must satisfy, from the i-th on: e are the speeds at the blocks' starts, the
\* last of them that at the end, l what is left of each and m the limit of each.
Below(e, m, n) == \A k \in 1 .. n - 1 : e[k] <= m[k]
Climbs(e, l, i, n) == \A k \in i .. n - 1 : e[k + 1] <= e[k] + l[k]
Brakes(e, l, i, n) == \A k \in i .. n - 1 : e[k] <= e[k + 1] + l[k]
Reached(e, l, m, k) == e[k] = m[k] \/ e[k] = e[k - 1] + l[k - 1]
Tight(e, l, m, i, n) == \A k \in i .. n - 1 : Reached(e, l, m, k) \/ e[k] = e[k + 1] + l[k]

\* What is left to travel from each block to the end of the queue, and speeds that can be stopped from
\* within it.
Remaining(r, l, n) ==
  /\ r \in [0 .. n -> Nat] /\ r[n] = 0
  /\ \A k \in 0 .. n - 1 : r[k] = r[k + 1] + l[k]
Stoppable(e, r, n) == \A k \in 0 .. n : e[k] <= r[k]

\* The shape of a plan of n blocks, at rest at its end.
Plans(e, l, m, n) ==
  /\ e \in [0 .. n -> Nat] /\ e[n] = 0
  /\ l \in [0 .. n - 1 -> Nat \ {0}]
  /\ m \in [0 .. n - 1 -> Nat]

\* The two passes over the blocks after the p-th.
BackAt(f, e, l, m, p, n, k) ==
  IF k = p THEN e[k]
  ELSE IF k = n - 1 THEN Lower(m[k], l[k])
  ELSE IF e[k] = m[k] THEN e[k]
  ELSE Lower(m[k], f[k + 1] + l[k])
Back(f, e, l, m, p, n) ==
  /\ f \in [p .. n - 1 -> Nat]
  /\ \A k \in p .. n - 1 : f[k] = BackAt(f, e, l, m, p, n, k)
OnAt(f, b, l, p, k) ==
  IF k = p \/ f[k - 1] >= b[k] THEN b[k] ELSE Accelerated(f[k - 1], l[k - 1], b[k])
On(f, b, l, p, n) ==
  /\ f \in [p .. n - 1 -> Nat]
  /\ \A k \in p .. n - 1 : f[k] = OnAt(f, b, l, p, k)

\* The plan e with the speeds f after its p-th block.
Replanned(e, f, p, n) == [k \in 0 .. n |-> IF p < k /\ k < n THEN f[k] ELSE e[k]]

\* Lower() is the smaller of its arguments.
LEMMA LowerOf == \A a, b \in Nat : Lower(a, b) \in Nat /\ Lower(a, b) <= a /\ Lower(a, b) <= b
                                   /\ Lower(a, b) \in {a, b}
BY DEF Lower

\* The reverse pass.
LEMMA BackPass ==
  ASSUME NEW n \in Nat, NEW p \in Nat, p < n - 1, NEW e, NEW l, NEW m, Plans(e, l, m, n),
         NEW b, Back(b, e, l, m, p, n)
  PROVE  /\ b[p] = e[p]
         /\ \A k \in p + 1 .. n - 1 :
              /\ b[k] <= m[k]
              /\ \/ b[k] = m[k]
                 \/ k = n - 1 /\ b[k] = l[k]
                 \/ k < n - 1 /\ b[k] = b[k + 1] + l[k]
         /\ \A k \in p + 1 .. n - 2 : e[k] = m[k] \/ b[k] <= b[k + 1] + l[k]
         /\ b[n - 1] <= l[n - 1]
<1>1. b[p] = e[p]
  BY DEF Back, BackAt
<1>2. ASSUME NEW k \in p + 1 .. n - 1
      PROVE  /\ b[k] <= m[k]
             /\ \/ b[k] = m[k]
                \/ k = n - 1 /\ b[k] = l[k]
                \/ k < n - 1 /\ b[k] = b[k + 1] + l[k]
             /\ k = n - 1 => b[k] <= l[k]
             /\ k # n - 1 => e[k] = m[k] \/ b[k] <= b[k + 1] + l[k]
  <2>1. m[k] \in Nat /\ l[k] \in Nat /\ e[k] \in Nat /\ b[k] \in Nat /\ k # p
    BY DEF Plans, Back
  <2>2. CASE k = n - 1
    <3>1. b[k] = Lower(m[k], l[k])
      BY <2>1, <2>2 DEF Back, BackAt
    <3> QED BY <2>1, <2>2, <3>1 DEF Lower
  <2>3. CASE k # n - 1
    <3>1. k + 1 \in p .. n - 1 /\ b[k + 1] \in Nat /\ k < n - 1
      BY <2>3 DEF Back
    <3>2. b[k] = IF e[k] = m[k] THEN e[k] ELSE Lower(m[k], b[k + 1] + l[k])
      BY <2>1, <2>3 DEF Back, BackAt
    <3> QED BY <2>1, <2>3, <3>1, <3>2 DEF Lower
  <2> QED BY <2>2, <2>3
<1>3. ASSUME NEW k \in p + 1 .. n - 2 PROVE e[k] = m[k] \/ b[k] <= b[k + 1] + l[k]
  <2>1. k \in p + 1 .. n - 1 /\ k # n - 1
    OBVIOUS
  <2> QED BY <1>2, <2>1
<1>4. b[n - 1] <= l[n - 1]
  <2>1. n - 1 \in p + 1 .. n - 1
    OBVIOUS
  <2> QED BY <1>2, <2>1
<1>5. \A k \in p + 1 .. n - 1 :
        /\ b[k] <= m[k]
        /\ \/ b[k] = m[k]
           \/ k = n - 1 /\ b[k] = l[k]
           \/ k < n - 1 /\ b[k] = b[k + 1] + l[k]
  BY <1>2
<1> QED BY <1>1, <1>3, <1>4, <1>5

\* The forward pass.
LEMMA OnPass ==
  ASSUME NEW n \in Nat, NEW p \in Nat, p < n - 1, NEW e, NEW l, NEW m, Plans(e, l, m, n),
         NEW b, Back(b, e, l, m, p, n), NEW f, On(f, b, l, p, n)
  PROVE  /\ f[p] = b[p]
         /\ \A k \in p + 1 .. n - 1 :
              /\ f[k] <= b[k] /\ f[k] <= f[k - 1] + l[k - 1]
              /\ f[k] = b[k] \/ f[k] = f[k - 1] + l[k - 1]
<1>1. f[p] = b[p]
  BY DEF On, OnAt
<1>2. ASSUME NEW k \in p + 1 .. n - 1
      PROVE  /\ f[k] <= b[k] /\ f[k] <= f[k - 1] + l[k - 1]
             /\ f[k] = b[k] \/ f[k] = f[k - 1] + l[k - 1]
  <2>1. f[k] \in Nat /\ f[k - 1] \in Nat /\ b[k] \in Nat /\ l[k - 1] \in Nat /\ k # p
    <3>1. f \in [p .. n - 1 -> Nat] /\ b \in [p .. n - 1 -> Nat] /\ l \in [0 .. n - 1 -> Nat]
      BY DEF On, Back, Plans
    <3>2. k \in p .. n - 1 /\ k - 1 \in p .. n - 1 /\ k - 1 \in 0 .. n - 1 /\ k # p
      OBVIOUS
    <3> QED BY <3>1, <3>2
  <2>2. f[k] = IF f[k - 1] >= b[k] THEN b[k] ELSE Lower(b[k], f[k - 1] + l[k - 1])
    BY <2>1 DEF On, OnAt, Accelerated
  <2>3. CASE f[k - 1] >= b[k]
    <3>1. f[k] = b[k]
      BY <2>2, <2>3
    <3> QED BY <2>1, <2>3, <3>1
  <2>4. CASE ~(f[k - 1] >= b[k])
    <3>1. f[k] = Lower(b[k], f[k - 1] + l[k - 1])
      BY <2>2, <2>4
    <3> QED BY <2>1, <3>1 DEF Lower
  <2> QED BY <2>3, <2>4
<1> QED BY <1>1, <1>2

\* What both passes leave, whatever the plan was: no speed above its limit, none that cannot be reached,
\* none that could be higher.
LEMMA ReplannedPlan ==
  ASSUME NEW n \in Nat, NEW p \in Nat, p < n - 1, NEW e, NEW l, NEW m, Plans(e, l, m, n),
         NEW b, Back(b, e, l, m, p, n), NEW f, On(f, b, l, p, n)
  PROVE  LET g == Replanned(e, f, p, n) IN
         /\ Plans(g, l, m, n)
         /\ \A k \in 0 .. p : g[k] = e[k]
         /\ \A k \in p .. n - 1 : g[k] = f[k]
         /\ \A k \in p + 1 .. n - 1 : g[k] <= m[k]
         /\ Climbs(g, l, p, n)
         /\ Tight(g, l, m, p + 1, n)
<1> DEFINE g == Replanned(e, f, p, n)
<1>1. /\ e \in [0 .. n -> Nat] /\ e[n] = 0 /\ l \in [0 .. n - 1 -> Nat \ {0}]
      /\ m \in [0 .. n - 1 -> Nat] /\ b \in [p .. n - 1 -> Nat] /\ f \in [p .. n - 1 -> Nat]
  BY DEF Plans, Back, On
<1>2. b[p] = e[p] /\ f[p] = e[p]
  <2>1. b[p] = e[p]
    BY BackPass
  <2>2. f[p] = b[p]
    BY OnPass
  <2> QED BY <2>1, <2>2
<1>3. /\ \A k \in 0 .. p : g[k] = e[k]
      /\ g[n] = 0
      /\ \A k \in p .. n - 1 : g[k] = f[k]
  <2>1. \A k \in 0 .. n : g[k] = IF p < k /\ k < n THEN f[k] ELSE e[k]
    BY DEF Replanned
  <2> HIDE DEF g
  <2>2. \A k \in 0 .. p : k \in 0 .. n /\ ~(p < k)
    OBVIOUS
  <2>3. \A k \in p .. n - 1 : k \in 0 .. n /\ (k = p \/ (p < k /\ k < n))
    OBVIOUS
  <2>4. \A k \in 0 .. p : g[k] = e[k]
    BY <2>1, <2>2
  <2>5. g[n] = 0
    <3>1. n \in 0 .. n /\ ~(n < n)
      OBVIOUS
    <3> QED BY <1>1, <2>1, <3>1
  <2>6. ASSUME NEW k \in p .. n - 1 PROVE g[k] = f[k]
    <3>1. CASE k = p
      <4>1. p \in 0 .. p
        OBVIOUS
      <4> QED BY <1>2, <2>4, <3>1, <4>1
    <3>2. CASE p < k /\ k < n
      BY <2>1, <2>3, <3>2
    <3> QED BY <2>3, <3>1, <3>2
  <2> QED BY <2>4, <2>5, <2>6
<1>4. g \in [0 .. n -> Nat]
  BY <1>1 DEF Replanned
<1> HIDE DEF g
<1>5. Plans(g, l, m, n)
  BY <1>1, <1>3, <1>4 DEF Plans
<1>6. \A k \in p + 1 .. n - 1 : /\ k \in p .. n - 1 /\ k - 1 \in p .. n - 1
                                /\ f[k] <= b[k] /\ f[k] <= f[k - 1] + l[k - 1]
                                /\ f[k] = b[k] \/ f[k] = f[k - 1] + l[k - 1]
  <2>1. \A k \in p + 1 .. n - 1 : /\ f[k] <= b[k] /\ f[k] <= f[k - 1] + l[k - 1]
                                  /\ f[k] = b[k] \/ f[k] = f[k - 1] + l[k - 1]
    BY OnPass
  <2>2. \A k \in p + 1 .. n - 1 : k \in p .. n - 1 /\ k - 1 \in p .. n - 1
    OBVIOUS
  <2> QED BY <2>1, <2>2
<1>7. \A k \in p + 1 .. n - 1 :
        /\ b[k] <= m[k]
        /\ \/ b[k] = m[k]
           \/ k = n - 1 /\ b[k] = l[k]
           \/ k < n - 1 /\ b[k] = b[k + 1] + l[k]
  BY BackPass
<1>8. ASSUME NEW k \in p + 1 .. n - 1 PROVE g[k] <= m[k]
  <2>1. g[k] = f[k] /\ f[k] <= b[k] /\ b[k] <= m[k]
    BY <1>3, <1>6, <1>7
  <2>2. k \in p .. n - 1 /\ k \in 0 .. n - 1
    OBVIOUS
  <2>3. f[k] \in Nat /\ b[k] \in Nat
    BY <1>1, <2>2
  <2>4. m[k] \in Nat
    BY <1>1, <2>2
  <2> QED BY <2>1, <2>3, <2>4
<1>9. ASSUME NEW k \in p .. n - 1 PROVE g[k + 1] <= g[k] + l[k]
  <2>1. g[k] \in Nat /\ l[k] \in Nat /\ g[k] = f[k]
    <3>1. k \in 0 .. n - 1 /\ k \in 0 .. n
      OBVIOUS
    <3>2. l[k] \in Nat
      BY <1>1, <3>1
    <3>3. g[k] \in Nat
      BY <1>4, <3>1
    <3>4. g[k] = f[k]
      BY <1>3
    <3> QED BY <3>2, <3>3, <3>4
  <2>2. CASE k = n - 1
    BY <1>3, <2>1, <2>2
  <2>3. CASE k # n - 1
    <3>1. k + 1 \in p + 1 .. n - 1 /\ k + 1 \in p .. n - 1 /\ (k + 1) - 1 = k
      BY <2>3
    <3>2. f[k + 1] <= f[k] + l[k]
      BY <1>6, <3>1
    <3> QED BY <1>3, <2>1, <3>1, <3>2
  <2> QED BY <2>2, <2>3
<1>10. ASSUME NEW k \in p + 1 .. n - 1 PROVE Reached(g, l, m, k) \/ g[k] = g[k + 1] + l[k]
  <2>1. /\ g[k] = f[k] /\ g[k - 1] = f[k - 1]
        /\ f[k] = b[k] \/ f[k] = f[k - 1] + l[k - 1]
    BY <1>3, <1>6
  <2>2. CASE f[k] = f[k - 1] + l[k - 1]
    BY <2>1, <2>2 DEF Reached
  <2>3. CASE f[k] = b[k] /\ b[k] = m[k]
    BY <2>1, <2>3 DEF Reached
  <2>4. CASE f[k] = b[k] /\ k = n - 1 /\ b[k] = l[k]
    <3>1. k + 1 = n /\ l[k] \in Nat
      BY <1>1, <2>4
    <3>2. g[k + 1] = 0
      BY <1>3, <3>1
    <3> QED BY <2>1, <2>4, <3>1, <3>2
  <2>5. CASE f[k] = b[k] /\ k < n - 1 /\ b[k] = b[k + 1] + l[k]
    <3>1. k + 1 \in p + 1 .. n - 1 /\ (k + 1) - 1 = k /\ k + 1 \in p .. n - 1 /\ k + 1 # p
      BY <2>5
    <3>2. f[k] \in Nat /\ b[k + 1] \in Nat /\ l[k] \in Nat /\ f[k] >= b[k + 1]
      <4>1. f[k] \in Nat /\ b[k + 1] \in Nat /\ l[k] \in Nat
        <5>1. k \in p .. n - 1 /\ k \in 0 .. n - 1
          OBVIOUS
        <5>2. l[k] \in Nat
          BY <1>1, <5>1
        <5>3. f[k] \in Nat
          BY <1>1, <5>1
        <5>4. b[k + 1] \in Nat
          BY <1>1, <3>1
        <5> QED BY <5>2, <5>3, <5>4
      <4>2. f[k] = b[k + 1] + l[k]
        BY <2>5
      <4>3. \A x, y, z \in Nat : x = y + z => x >= y
        OBVIOUS
      <4> QED BY <4>1, <4>2, <4>3
    <3>3. f[k + 1] = OnAt(f, b, l, p, k + 1)
      BY <3>1 DEF On
    <3>4. f[k + 1] = b[k + 1]
      BY <3>1, <3>2, <3>3 DEF OnAt
    <3>5. g[k + 1] = f[k + 1]
      BY <1>3, <3>1
    <3> QED BY <2>1, <2>5, <3>4, <3>5
  <2> QED BY <1>7, <2>1, <2>2, <2>3, <2>4, <2>5
<1> QED BY <1>3, <1>5, <1>8, <1>9, <1>10 DEF Climbs, Tight, g

\* A settled block is at its limit or reached at full acceleration.
LEMMA SettledBlock ==
  ASSUME NEW n \in Nat, NEW p \in Nat, p < n - 1, NEW e, NEW l, NEW m, Plans(e, l, m, n),
         NEW b, Back(b, e, l, m, p, n), NEW f, On(f, b, l, p, n),
         NEW k \in p + 1 .. n - 1, Settled(f[k], b[k], m[k])
  PROVE  Reached(Replanned(e, f, p, n), l, m, k)
<1> DEFINE g == Replanned(e, f, p, n)
<1>1. \A j \in p .. n - 1 : g[j] = f[j]
  BY ReplannedPlan
<1>2. k \in p .. n - 1 /\ k - 1 \in p .. n - 1
  OBVIOUS
<1>3. l \in [0 .. n - 1 -> Nat \ {0}] /\ b \in [p .. n - 1 -> Nat] /\ f \in [p .. n - 1 -> Nat]
  BY DEF Plans, Back, On
<1>4. f[k] = b[k] \/ f[k] = f[k - 1] + l[k - 1]
  <2>1. \A j \in p + 1 .. n - 1 : f[j] = b[j] \/ f[j] = f[j - 1] + l[j - 1]
    BY OnPass
  <2> QED BY <2>1
<1>5. f[k] \in Nat /\ b[k] \in Nat
  BY <1>2, <1>3
<1>6. f[k] = m[k] \/ f[k] = f[k - 1] + l[k - 1]
  BY <1>4, <1>5 DEF Settled
<1> HIDE DEF g
<1>7. Reached(g, l, m, k)
  BY <1>1, <1>2, <1>6 DEF Reached
<1> QED BY <1>7 DEF g

\* Replanning never takes speed from a plan whose blocks could be braked from.
LEMMA ReplannedFaster ==
  ASSUME NEW n \in Nat, NEW p \in Nat, p < n - 1, NEW e, NEW l, NEW m, Plans(e, l, m, n),
         NEW b, Back(b, e, l, m, p, n), NEW f, On(f, b, l, p, n),
         Below(e, m, n), Brakes(e, l, p + 1, n)
  PROVE  LET g == Replanned(e, f, p, n) IN
         /\ Brakes(g, l, p + 1, n)
         /\ e[p] <= e[p + 1] + l[p] => g[p] <= g[p + 1] + l[p]
<1> DEFINE g == Replanned(e, f, p, n)
<1>1. /\ e \in [0 .. n -> Nat] /\ e[n] = 0 /\ l \in [0 .. n - 1 -> Nat \ {0}]
      /\ m \in [0 .. n - 1 -> Nat] /\ b \in [p .. n - 1 -> Nat] /\ f \in [p .. n - 1 -> Nat]
  BY DEF Plans, Back, On
<1>2. /\ \A k \in 0 .. p : g[k] = e[k]
      /\ \A k \in p .. n - 1 : g[k] = f[k]
      /\ Plans(g, l, m, n)
  BY ReplannedPlan
<1> HIDE DEF g
<1>3. g[n] = 0 /\ g \in [0 .. n -> Nat]
  BY <1>2 DEF Plans
<1>4. \A k \in p + 1 .. n - 1 : e[k] <= m[k] /\ e[k] <= e[k + 1] + l[k]
  BY DEF Below, Brakes
<1>5. b[p] = e[p] /\ f[p] = b[p]
  BY BackPass, OnPass
<1>6. \A k \in p + 1 .. n - 1 : /\ f[k] <= b[k]
                                /\ f[k] = b[k] \/ f[k] = f[k - 1] + l[k - 1]
  BY OnPass
<1>7. \A k \in p + 1 .. n - 1 : e[k] <= b[k]
  <2> DEFINE S == {k \in Nat : e[k] <= b[k]}
  <2>1. n - 1 \in S
    <3>1. n - 1 \in p .. n - 1 /\ n - 1 # p /\ n - 1 \in Nat /\ (n - 1) + 1 = n /\ n - 1 \in p + 1 .. n - 1
          /\ n - 1 \in 0 .. n - 1 /\ n - 1 \in 0 .. n
      OBVIOUS
    <3>2. b[n - 1] = Lower(m[n - 1], l[n - 1])
      BY <3>1 DEF Back, BackAt
    <3>3. e[n - 1] <= m[n - 1] /\ e[n - 1] <= e[n] + l[n - 1]
      BY <1>4, <3>1
    <3>4. e[n - 1] \in Nat /\ m[n - 1] \in Nat /\ l[n - 1] \in Nat
      BY <1>1, <3>1
    <3>5. e[n] = 0
      BY <1>1
    <3>6. e[n - 1] <= b[n - 1]
      BY <3>2, <3>3, <3>4, <3>5 DEF Lower
    <3> QED BY <3>1, <3>6
  <2>2. ASSUME NEW k \in p + 1 .. (n - 1) - 1, k + 1 \in S PROVE k \in S
    <3>1. k \in p .. n - 1 /\ k # p /\ k # n - 1 /\ k \in p + 1 .. n - 1 /\ k \in 0 .. n - 1
          /\ k \in 0 .. n /\ k + 1 \in 0 .. n /\ k + 1 \in p .. n - 1 /\ k \in Nat
      OBVIOUS
    <3>2. b[k] = IF e[k] = m[k] THEN e[k] ELSE Lower(m[k], b[k + 1] + l[k])
      BY <3>1 DEF Back, BackAt
    <3>3. e[k] <= m[k] /\ e[k] <= e[k + 1] + l[k] /\ e[k + 1] <= b[k + 1]
      BY <1>4, <2>2, <3>1
    <3>4. e[k] \in Nat /\ e[k + 1] \in Nat /\ b[k + 1] \in Nat /\ m[k] \in Nat /\ l[k] \in Nat
      BY <1>1, <3>1
    <3> QED BY <3>1, <3>2, <3>3, <3>4 DEF Lower
  <2> HIDE DEF S
  <2>3. p + 1 \in Nat /\ n - 1 \in Nat
    OBVIOUS
  <2>4. \A k \in p + 1 .. n - 1 : k \in S
    BY <2>1, <2>2, <2>3, Downward
  <2> QED BY <2>4 DEF S
<1>8. ASSUME NEW k \in p + 1 .. n - 1 PROVE g[k] <= g[k + 1] + l[k]
  <2>1. k \in p .. n - 1 /\ k # p /\ k \in 0 .. n - 1 /\ k \in 0 .. n /\ k + 1 \in 0 .. n
    OBVIOUS
  <2>2. /\ f[k] \in Nat /\ b[k] \in Nat /\ l[k] \in Nat /\ l[k] # 0 /\ g[k] = f[k] /\ f[k] <= b[k]
        /\ e[k] \in Nat /\ e[k + 1] \in Nat
    BY <1>1, <1>2, <1>6, <2>1
  <2>3. CASE k = n - 1
    <3>1. b[k] <= l[k]
      BY <2>3, BackPass
    <3>2. k + 1 = n
      BY <2>3
    <3>3. g[k + 1] = 0
      BY <1>3, <3>2
    <3> QED BY <2>2, <3>1, <3>3
  <2>4. CASE k # n - 1
    <3>1. k \in p + 1 .. n - 2 /\ k + 1 \in p + 1 .. n - 1 /\ k + 1 \in p .. n - 1 /\ (k + 1) - 1 = k
      BY <2>4
    <3>2. f[k + 1] \in Nat /\ b[k + 1] \in Nat /\ g[k + 1] = f[k + 1]
      BY <1>1, <1>2, <3>1
    <3>3. b[k] <= b[k + 1] + l[k]
      <4>1. e[k] = m[k] \/ b[k] <= b[k + 1] + l[k]
        BY <3>1, BackPass
      <4>2. ASSUME e[k] = m[k] PROVE b[k] <= b[k + 1] + l[k]
        <5>1. b[k] <= m[k]
          BY BackPass
        <5>2. e[k] <= e[k + 1] + l[k] /\ e[k + 1] <= b[k + 1]
          BY <1>4, <1>7, <3>1
        <5> QED BY <2>2, <3>2, <4>2, <5>1, <5>2
      <4> QED BY <4>1, <4>2
    <3>4. f[k + 1] = b[k + 1] \/ f[k + 1] = f[k] + l[k]
      BY <1>6, <3>1
    <3> QED BY <2>2, <3>2, <3>3, <3>4
  <2> QED BY <2>3, <2>4
<1>9. ASSUME e[p] <= e[p + 1] + l[p] PROVE g[p] <= g[p + 1] + l[p]
  <2>1. p \in 0 .. p /\ p + 1 \in p .. n - 1 /\ p + 1 \in p + 1 .. n - 1 /\ p \in p .. n - 1
        /\ p \in 0 .. n - 1 /\ p \in 0 .. n /\ p + 1 \in 0 .. n /\ (p + 1) - 1 = p
    OBVIOUS
  <2>2. /\ e[p] \in Nat /\ e[p + 1] \in Nat /\ f[p] \in Nat /\ f[p + 1] \in Nat /\ b[p + 1] \in Nat
        /\ l[p] \in Nat /\ g[p] = e[p] /\ g[p + 1] = f[p + 1]
    BY <1>1, <1>2, <2>1
  <2>3. e[p + 1] <= b[p + 1]
    BY <1>7, <2>1
  <2>4. f[p + 1] = b[p + 1] \/ f[p + 1] = f[p] + l[p]
    BY <1>6, <2>1
  <2> QED BY <1>5, <1>9, <2>2, <2>3, <2>4
<1> QED BY <1>8, <1>9 DEF Brakes, g

\* Nor does it give more than can be stopped from at the end.
LEMMA ReplannedStops ==
  ASSUME NEW n \in Nat, NEW p \in Nat, p < n - 1, NEW e, NEW l, NEW m, Plans(e, l, m, n),
         NEW b, Back(b, e, l, m, p, n), NEW f, On(f, b, l, p, n),
         NEW r, Remaining(r, l, n), Stoppable(e, r, n)
  PROVE  Stoppable(Replanned(e, f, p, n), r, n)
<1> DEFINE g == Replanned(e, f, p, n)
<1>1. /\ e \in [0 .. n -> Nat] /\ e[n] = 0 /\ l \in [0 .. n - 1 -> Nat \ {0}]
      /\ m \in [0 .. n - 1 -> Nat] /\ b \in [p .. n - 1 -> Nat] /\ f \in [p .. n - 1 -> Nat]
      /\ r \in [0 .. n -> Nat] /\ r[n] = 0
  BY DEF Plans, Back, On, Remaining
<1>2. \A k \in 0 .. n - 1 : r[k] = r[k + 1] + l[k] /\ e[k] <= r[k]
  BY DEF Remaining, Stoppable
<1>3. \A k \in p + 1 .. n - 1 : b[k] <= r[k]
  <2> DEFINE S == {k \in Nat : b[k] <= r[k]}
  <2>1. n - 1 \in S
    <3>1. n - 1 \in p .. n - 1 /\ n - 1 \in Nat /\ (n - 1) + 1 = n /\ n - 1 \in 0 .. n - 1
      OBVIOUS
    <3>2. b[n - 1] <= l[n - 1]
      BY BackPass
    <3>3. b[n - 1] \in Nat /\ l[n - 1] \in Nat /\ r[n - 1] = r[n] + l[n - 1]
      BY <1>1, <1>2, <3>1
    <3> QED BY <1>1, <3>1, <3>2, <3>3
  <2>2. ASSUME NEW k \in p + 1 .. (n - 1) - 1, k + 1 \in S PROVE k \in S
    <3>1. k \in p .. n - 1 /\ k # p /\ k # n - 1 /\ k \in 0 .. n - 1
          /\ k \in 0 .. n /\ k + 1 \in 0 .. n /\ k + 1 \in p .. n - 1 /\ k \in Nat
      OBVIOUS
    <3>2. b[k] = IF e[k] = m[k] THEN e[k] ELSE Lower(m[k], b[k + 1] + l[k])
      BY <3>1 DEF Back, BackAt
    <3>3. e[k] <= r[k] /\ b[k + 1] <= r[k + 1] /\ r[k] = r[k + 1] + l[k]
      BY <1>2, <2>2, <3>1
    <3>4. e[k] \in Nat /\ b[k + 1] \in Nat /\ m[k] \in Nat /\ l[k] \in Nat /\ r[k + 1] \in Nat
      BY <1>1, <3>1
    <3> QED BY <3>1, <3>2, <3>3, <3>4 DEF Lower
  <2> HIDE DEF S
  <2>3. p + 1 \in Nat /\ n - 1 \in Nat
    OBVIOUS
  <2>4. \A k \in p + 1 .. n - 1 : k \in S
    BY <2>1, <2>2, <2>3, Downward
  <2> QED BY <2>4 DEF S
<1>4. ASSUME NEW k \in 0 .. n PROVE g[k] <= r[k]
  <2>1. CASE p < k /\ k < n
    <3>1. k \in p + 1 .. n - 1 /\ k \in p .. n - 1
      BY <2>1
    <3>2. f[k] <= b[k] /\ b[k] <= r[k]
      BY <1>3, <3>1, OnPass
    <3>3. f[k] \in Nat /\ b[k] \in Nat /\ r[k] \in Nat
      BY <1>1, <3>1
    <3>4. g[k] = f[k]
      BY <2>1 DEF Replanned
    <3> QED BY <3>2, <3>3, <3>4
  <2>2. CASE ~(p < k /\ k < n)
    <3>1. g[k] = e[k]
      BY <2>2 DEF Replanned
    <3> QED BY <3>1 DEF Stoppable
  <2> QED BY <2>1, <2>2
<1> QED BY <1>4 DEF Stoppable

\* What speed a block's start allows the k-th: by acceleration to it, or by braking from it.
LEMMA FarClimb ==
  ASSUME NEW n \in Nat, NEW e, NEW l, NEW m, Plans(e, l, m, n), NEW r, Remaining(r, l, n),
         Climbs(e, l, 0, n), NEW k \in 0 .. n
  PROVE  \A j \in 0 .. k : e[k] + r[k] <= e[j] + r[j]
<1> DEFINE S == {j \in Nat : e[k] + r[k] <= e[j] + r[j]}
<1>1. /\ e \in [0 .. n -> Nat] /\ r \in [0 .. n -> Nat] /\ l \in [0 .. n - 1 -> Nat]
      /\ \A j \in 0 .. n - 1 : r[j] = r[j + 1] + l[j] /\ e[j + 1] <= e[j] + l[j]
  BY DEF Plans, Remaining, Climbs
<1>2. k \in S
  BY <1>1
<1>3. ASSUME NEW j \in 0 .. k - 1, j + 1 \in S PROVE j \in S
  <2>1. j \in 0 .. n - 1 /\ j \in 0 .. n /\ j + 1 \in 0 .. n /\ j \in Nat
    OBVIOUS
  <2>2. /\ e[j] \in Nat /\ e[j + 1] \in Nat /\ r[j] \in Nat /\ r[j + 1] \in Nat /\ l[j] \in Nat
        /\ e[k] \in Nat /\ r[k] \in Nat
    BY <1>1, <2>1
  <2>3. r[j] = r[j + 1] + l[j] /\ e[j + 1] <= e[j] + l[j] /\ e[k] + r[k] <= e[j + 1] + r[j + 1]
    BY <1>1, <1>3, <2>1
  <2>4. e[k] + r[k] <= e[j] + r[j]
    BY <2>2, <2>3
  <2> QED BY <2>1, <2>4
<1> HIDE DEF S
<1>4. \A j \in 0 .. k : j \in S
  BY <1>2, <1>3, Downward
<1> QED BY <1>4 DEF S

\* Likewise backwards: what speed a later block's start allows the k-th.
LEMMA FarBrake ==
  ASSUME NEW n \in Nat, NEW e, NEW l, NEW m, Plans(e, l, m, n), NEW r, Remaining(r, l, n),
         Brakes(e, l, 1, n), NEW k \in 1 .. n
  PROVE  \A j \in k .. n : e[k] + r[j] <= e[j] + r[k]
<1> DEFINE S == {j \in Nat : e[k] + r[j] <= e[j] + r[k]}
<1>1. /\ e \in [0 .. n -> Nat] /\ r \in [0 .. n -> Nat] /\ l \in [0 .. n - 1 -> Nat]
      /\ \A j \in 1 .. n - 1 : e[j] <= e[j + 1] + l[j]
      /\ \A j \in 0 .. n - 1 : r[j] = r[j + 1] + l[j]
  BY DEF Plans, Remaining, Brakes
<1>2. k \in S
  BY <1>1
<1>3. ASSUME NEW j \in k .. n - 1, j \in S PROVE j + 1 \in S
  <2>1. j \in 0 .. n - 1 /\ j \in 1 .. n - 1 /\ j \in 0 .. n /\ j + 1 \in 0 .. n /\ j + 1 \in Nat
        /\ k \in 0 .. n
    OBVIOUS
  <2>2. /\ e[j] \in Nat /\ e[j + 1] \in Nat /\ r[j] \in Nat /\ r[j + 1] \in Nat /\ l[j] \in Nat
        /\ e[k] \in Nat /\ r[k] \in Nat
    BY <1>1, <2>1
  <2>3. r[j] = r[j + 1] + l[j] /\ e[j] <= e[j + 1] + l[j] /\ e[k] + r[j] <= e[j] + r[k]
    BY <1>1, <1>3, <2>1
  <2>4. e[k] + r[j + 1] <= e[j + 1] + r[k]
    BY <2>2, <2>3
  <2> QED BY <2>1, <2>4
<1> HIDE DEF S
<1>4. k \in Nat
  OBVIOUS
<1>5. \A j \in k .. n : j \in S
  BY <1>2, <1>3, <1>4, Upward
<1> QED BY <1>5 DEF S

\* A plan in which every speed is at its limit or as near to a neighbour's as acceleration allows is the
\* fastest: from any block one gets along such neighbours, always up or always down, to a limit.
LEMMA TightIsFastest ==
  ASSUME NEW n \in Nat, NEW e, NEW l, NEW m, Plans(e, l, m, n), NEW r, Remaining(r, l, n),
         Climbs(e, l, 0, n), Brakes(e, l, 1, n), Tight(e, l, m, 1, n), NEW k \in 1 .. n - 1
  PROVE  \/ \E j \in 0 .. k : e[k] + r[k] = e[j] + r[j] /\ (j = 0 \/ e[j] = m[j])
         \/ \E j \in k + 1 .. n : e[k] + r[j] = e[j] + r[k] /\ (j = n \/ e[j] = m[j])
<1>1. /\ e \in [0 .. n -> Nat] /\ r \in [0 .. n -> Nat] /\ l \in [0 .. n - 1 -> Nat \ {0}]
      /\ \A j \in 0 .. n - 1 : r[j] = r[j + 1] + l[j]
  BY DEF Plans, Remaining
<1> DEFINE A == {j \in 0 .. k : e[k] + r[k] = e[j] + r[j]}
           B == {u \in 0 .. n - k : e[k] + r[n - u] = e[n - u] + r[k]}
<1>2. k \in A /\ A \in SUBSET Nat
  BY <1>1
<1>3. PICK j \in A : \A u \in A : j <= u
  <2> HIDE DEF A
  <2> QED BY <1>2, Least
<1>4. n - k \in B /\ B \in SUBSET Nat
  BY <1>1
<1>5. PICK w \in B : \A u \in B : w <= u
  <2> HIDE DEF B
  <2> QED BY <1>4, Least
<1> DEFINE i == n - w
<1>6. /\ i \in k .. n /\ i \in Nat /\ e[k] + r[i] = e[i] + r[k]
      /\ i # n => ~(e[k] + r[i + 1] = e[i + 1] + r[k])
  <2>1. w \in 0 .. n - k /\ e[k] + r[n - w] = e[n - w] + r[k]
    BY <1>5
  <2>2. ASSUME w # 0, e[k] + r[(n - w) + 1] = e[(n - w) + 1] + r[k] PROVE FALSE
    <3>1. w - 1 \in 0 .. n - k /\ n - (w - 1) = (n - w) + 1
      BY <2>1, <2>2
    <3>2. w - 1 \in B
      BY <2>2, <3>1
    <3> QED BY <1>5, <2>1, <3>2
  <2> QED BY <2>1, <2>2
<1>7. /\ j \in 0 .. k /\ e[k] + r[k] = e[j] + r[j]
      /\ j # 0 => ~(e[k] + r[k] = e[j - 1] + r[j - 1])
  <2>1. j \in 0 .. k /\ e[k] + r[k] = e[j] + r[j]
    BY <1>3
  <2>2. ASSUME j # 0, e[k] + r[k] = e[j - 1] + r[j - 1] PROVE FALSE
    <3>1. j - 1 \in A
      BY <2>1, <2>2
    <3> QED BY <1>3, <2>1, <3>1
  <2> QED BY <2>1, <2>2
<1> HIDE DEF A, B, i
<1>8. \A u \in 1 .. n - 1 : e[u] = m[u] \/ e[u] = e[u - 1] + l[u - 1] \/ e[u] = e[u + 1] + l[u]
  BY DEF Tight, Reached
<1>9. CASE j = 0 \/ e[j] = m[j]
  BY <1>7, <1>9
<1>10. CASE i = n \/ e[i] = m[i]
  <2>1. CASE i = k
    <3>1. k \in 0 .. k /\ e[k] + r[k] = e[k] + r[k] /\ i # n
      BY <2>1
    <3> QED BY <1>10, <2>1, <3>1
  <2>2. CASE i # k
    <3>1. i \in k + 1 .. n
      BY <1>6, <2>2
    <3> QED BY <1>6, <1>10, <3>1
  <2> QED BY <2>1, <2>2
<1>11. ASSUME j # 0, e[j] # m[j], i # n, e[i] # m[i] PROVE FALSE
  <2>1. /\ j \in 1 .. n - 1 /\ j - 1 \in 0 .. n - 1 /\ j \in 0 .. n - 1 /\ j \in 0 .. n /\ j - 1 \in 0 .. n
        /\ j + 1 \in 0 .. n /\ (j - 1) + 1 = j /\ j \in Nat /\ k \in 0 .. n
    BY <1>7, <1>11
  <2>2. /\ i \in 1 .. n - 1 /\ i - 1 \in 0 .. n - 1 /\ i \in 0 .. n - 1 /\ i \in 0 .. n /\ i - 1 \in 0 .. n
        /\ i + 1 \in 0 .. n /\ (i - 1) + 1 = i
    BY <1>6, <1>11
  <2>3. /\ e[j] \in Nat /\ e[j - 1] \in Nat /\ e[j + 1] \in Nat /\ r[j] \in Nat /\ r[j - 1] \in Nat
        /\ r[j + 1] \in Nat /\ l[j] \in Nat \ {0} /\ l[j - 1] \in Nat \ {0}
        /\ r[j] = r[j + 1] + l[j] /\ r[j - 1] = r[j] + l[j - 1]
    BY <1>1, <2>1
  <2>4. /\ e[i] \in Nat /\ e[i - 1] \in Nat /\ e[i + 1] \in Nat /\ r[i] \in Nat /\ r[i - 1] \in Nat
        /\ r[i + 1] \in Nat /\ l[i] \in Nat \ {0} /\ l[i - 1] \in Nat \ {0}
        /\ r[i] = r[i + 1] + l[i] /\ r[i - 1] = r[i] + l[i - 1]
    BY <1>1, <2>2
  <2>5. e[k] \in Nat /\ r[k] \in Nat
    BY <1>1, <2>1
  <2>6. e[j] = e[j - 1] + l[j - 1] \/ e[j] = e[j + 1] + l[j]
    BY <1>8, <1>11, <2>1
  <2>7. e[i] = e[i - 1] + l[i - 1] \/ e[i] = e[i + 1] + l[i]
    BY <1>8, <1>11, <2>2
  <2>8. e[j] # e[j - 1] + l[j - 1]
    BY <1>7, <1>11, <2>3, <2>5
  <2>9. e[i] # e[i + 1] + l[i]
    BY <1>6, <1>11, <2>4, <2>5
  <2>10. CASE j = k /\ i = k
    <3>1. i = j
      BY <2>10
    <3>2. e[j] = e[j + 1] + l[j]
      BY <2>6, <2>8
    <3>3. e[i] = e[i + 1] + l[i]
      BY <3>1, <3>2, Zenon
    <3> QED BY <2>9, <3>3
  <2>11. CASE j # k
    <3>1. j + 1 \in 0 .. k
      BY <1>7, <2>11
    <3>2. e[k] + r[k] <= e[j + 1] + r[j + 1]
      BY <2>1, <3>1, FarClimb
    <3>3. e[j] = e[j + 1] + l[j]
      BY <2>6, <2>8
    <3> QED BY <1>7, <2>3, <2>5, <3>2, <3>3
  <2>12. CASE i # k
    <3>1. i - 1 \in k .. n /\ k \in 1 .. n
      BY <1>6, <2>12
    <3>2. e[k] + r[i - 1] <= e[i - 1] + r[k]
      BY <3>1, FarBrake
    <3>3. e[i] = e[i - 1] + l[i - 1]
      BY <2>7, <2>9
    <3>4. e[k] + r[i] = e[i] + r[k]
      BY <1>6
    <3>5. /\ e[i] \in Nat /\ e[i - 1] \in Nat /\ r[i] \in Nat /\ r[i - 1] \in Nat
          /\ l[i - 1] \in Nat /\ l[i - 1] # 0 /\ r[i - 1] = r[i] + l[i - 1]
      BY <2>4
    <3>6. PICK c \in Nat, d \in Nat, x \in Nat, y \in Nat, z \in Nat :
            c = e[i] /\ d = e[i - 1] /\ x = r[i - 1] /\ y = r[i] /\ z = l[i - 1]
      BY <3>5
    <3>7. z # 0 /\ x = y + z /\ e[k] + y = c + r[k] /\ c = d + z /\ e[k] + x <= d + r[k]
      BY <3>2, <3>3, <3>4, <3>5, <3>6
    <3> QED BY <2>5, <3>7
  <2> QED BY <2>10, <2>11, <2>12
<1> QED BY <1>9, <1>10, <1>11

-----------------------------------------------------------------------------
(* What replanning keeps.                                                    *)

\* What is always so of a plan of n blocks, of which the first p are settled.  While a hold decelerates,
\* the speed is below what was planned, and after an override has lowered limits it may be above.
PlanKept(e, l, m, n, p, hold, low) ==
  /\ Below(e, m, n)
  /\ Climbs(e, l, IF hold THEN 1 ELSE 0, n)
  /\ ~low => /\ Brakes(e, l, 0, n)
             /\ ~hold => Tight(e, l, m, 1, n) /\ (p # 0 => Reached(e, l, m, p))

\* What planner_recalculate() needs in order to replan the blocks after the p-th.
Replannable(e, l, m, n, p, hold, low) ==
  /\ \A k \in 1 .. p : e[k] <= m[k]
  /\ \A k \in (IF hold THEN 1 ELSE 0) .. p - 1 : e[k + 1] <= e[k] + l[k]
  /\ ~low => /\ Below(e, m, n) /\ Brakes(e, l, 0, n)
             /\ ~hold => Tight(e, l, m, 1, p) /\ (p # 0 => Reached(e, l, m, p))

\* The settled part of a plan depends on its speeds only.
LEMMA SameSpeeds ==
  ASSUME NEW e, NEW g, NEW l, NEW m, NEW i \in Nat, NEW p \in Nat,
         \A k \in 0 .. p : g[k] = e[k]
  PROVE  /\ (\A k \in i .. p - 1 : e[k + 1] <= e[k] + l[k]) => \A k \in i .. p - 1 : g[k + 1] <= g[k] + l[k]
         /\ Brakes(e, l, i, p) => Brakes(g, l, i, p)
         /\ Tight(e, l, m, 1, p) => Tight(g, l, m, 1, p)
         /\ p # 0 /\ Reached(e, l, m, p) => Reached(g, l, m, p)
<1>1. ASSUME NEW k \in i .. p - 1 PROVE g[k + 1] = e[k + 1] /\ g[k] = e[k]
  <2>1. k \in 0 .. p /\ k + 1 \in 0 .. p
    OBVIOUS
  <2> QED BY <2>1
<1>2. (\A k \in i .. p - 1 : e[k + 1] <= e[k] + l[k]) => \A k \in i .. p - 1 : g[k + 1] <= g[k] + l[k]
  BY <1>1
<1>3. Brakes(e, l, i, p) => Brakes(g, l, i, p)
  BY <1>1 DEF Brakes
<1>4. ASSUME NEW k \in 1 .. p - 1 PROVE g[k + 1] = e[k + 1] /\ g[k] = e[k] /\ g[k - 1] = e[k - 1]
  <2>1. k \in 0 .. p /\ k + 1 \in 0 .. p /\ k - 1 \in 0 .. p
    OBVIOUS
  <2> QED BY <2>1
<1>5. Tight(e, l, m, 1, p) => Tight(g, l, m, 1, p)
  BY <1>4 DEF Tight, Reached
<1>6. p # 0 /\ Reached(e, l, m, p) => Reached(g, l, m, p)
  <2>1. ASSUME p # 0 PROVE g[p] = e[p] /\ g[p - 1] = e[p - 1]
    <3>1. p \in 0 .. p /\ p - 1 \in 0 .. p
      BY <2>1
    <3> QED BY <3>1
  <2> QED BY <2>1 DEF Reached
<1> QED BY <1>2, <1>3, <1>5, <1>6

\* Both passes over a plan that can be replanned leave one that is kept, settled up to wherever the
\* planned pointer is moved.
LEMMA ReplanKeeps ==
  ASSUME NEW n \in Nat, NEW p \in Nat, p < n - 1, NEW e, NEW l, NEW m, Plans(e, l, m, n),
         NEW b, Back(b, e, l, m, p, n), NEW f, On(f, b, l, p, n),
         NEW hold \in BOOLEAN, NEW low \in BOOLEAN, Replannable(e, l, m, n, p, hold, low),
         NEW q \in p .. n - 1, q = p \/ Settled(f[q], b[q], m[q])
  PROVE  PlanKept(Replanned(e, f, p, n), l, m, n, q, hold, low)
<1> DEFINE g == Replanned(e, f, p, n)
           i == IF hold THEN 1 ELSE 0
<1>1. /\ Plans(g, l, m, n)
      /\ \A k \in 0 .. p : g[k] = e[k]
      /\ \A k \in p + 1 .. n - 1 : g[k] <= m[k]
      /\ Climbs(g, l, p, n)
      /\ Tight(g, l, m, p + 1, n)
  BY ReplannedPlan
<1>2. q # p => Reached(g, l, m, q)
  <2>1. q # p => q \in p + 1 .. n - 1 /\ Settled(f[q], b[q], m[q])
    OBVIOUS
  <2> QED BY <2>1, SettledBlock
<1>3. i \in Nat /\ 0 \in Nat
  OBVIOUS
<1> HIDE DEF g, i
<1>4. /\ (\A k \in i .. p - 1 : e[k + 1] <= e[k] + l[k]) => \A k \in i .. p - 1 : g[k + 1] <= g[k] + l[k]
      /\ Brakes(e, l, 0, p) => Brakes(g, l, 0, p)
      /\ Tight(e, l, m, 1, p) => Tight(g, l, m, 1, p)
      /\ p # 0 /\ Reached(e, l, m, p) => Reached(g, l, m, p)
  BY <1>1, <1>3, SameSpeeds
<1>5. Below(g, m, n)
  <2>1. ASSUME NEW k \in 1 .. n - 1 PROVE g[k] <= m[k]
    <3>1. CASE k \in p + 1 .. n - 1
      BY <1>1, <3>1
    <3>2. CASE k \notin p + 1 .. n - 1
      <4>1. k \in 1 .. p /\ k \in 0 .. p
        BY <3>2
      <4> QED BY <1>1, <4>1 DEF Replannable
    <3> QED BY <3>1, <3>2
  <2> QED BY <2>1 DEF Below
<1>6. Climbs(g, l, i, n)
  <2>1. ASSUME NEW k \in i .. n - 1 PROVE g[k + 1] <= g[k] + l[k]
    <3>1. CASE k \in p .. n - 1
      BY <1>1, <3>1 DEF Climbs
    <3>2. CASE k \notin p .. n - 1
      <4>1. k \in i .. p - 1
        BY <1>3, <3>2
      <4>2. \A u \in i .. p - 1 : e[u + 1] <= e[u] + l[u]
        BY DEF Replannable, i
      <4> QED BY <1>4, <4>1, <4>2
    <3> QED BY <3>1, <3>2
  <2> QED BY <2>1 DEF Climbs
<1>7. ASSUME ~low PROVE Brakes(g, l, 0, n)
  <2>1. Below(e, m, n) /\ Brakes(e, l, 0, n)
    BY <1>7 DEF Replannable
  <2>2. Brakes(e, l, p + 1, n) /\ Brakes(e, l, 0, p) /\ e[p] <= e[p + 1] + l[p]
    <3>1. /\ \A k \in p + 1 .. n - 1 : k \in 0 .. n - 1
          /\ \A k \in 0 .. p - 1 : k \in 0 .. n - 1
          /\ p \in 0 .. n - 1
      OBVIOUS
    <3> QED BY <2>1, <3>1 DEF Brakes
  <2>3. Brakes(g, l, p + 1, n) /\ g[p] <= g[p + 1] + l[p]
    BY <2>1, <2>2, ReplannedFaster DEF g
  <2>4. Brakes(g, l, 0, p)
    BY <1>4, <2>2
  <2>5. ASSUME NEW k \in 0 .. n - 1 PROVE k \in 0 .. p - 1 \/ k = p \/ k \in p + 1 .. n - 1
    OBVIOUS
  <2> QED BY <2>3, <2>4, <2>5 DEF Brakes
<1>8. ASSUME ~low, ~hold PROVE Tight(g, l, m, 1, n) /\ (q # 0 => Reached(g, l, m, q))
  <2>1. Tight(e, l, m, 1, p) /\ (p # 0 => Reached(e, l, m, p))
    BY <1>8 DEF Replannable
  <2>2. Tight(g, l, m, 1, p) /\ (p # 0 => Reached(g, l, m, p))
    BY <1>4, <2>1
  <2>3. ASSUME NEW k \in 1 .. n - 1
        PROVE k \in 1 .. p - 1 \/ (k = p /\ p # 0) \/ k \in p + 1 .. n - 1
    OBVIOUS
  <2>4. Tight(g, l, m, 1, n)
    BY <1>1, <2>2, <2>3 DEF Tight
  <2>5. q # 0 => Reached(g, l, m, q)
    BY <1>2, <2>2
  <2> QED BY <2>4, <2>5
<1>9. PlanKept(g, l, m, n, q, hold, low)
  BY <1>5, <1>6, <1>7, <1>8 DEF PlanKept, i
<1> QED BY <1>9 DEF g

\* Nothing to replan.
LEMMA NothingToReplan ==
  ASSUME NEW n \in Nat, NEW p \in Nat, n = 0 \/ p = n - 1, NEW e, NEW l, NEW m, Plans(e, l, m, n),
         NEW hold \in BOOLEAN, NEW low \in BOOLEAN, Replannable(e, l, m, n, p, hold, low)
  PROVE  PlanKept(e, l, m, n, p, hold, low)
<1>1. \A k \in 1 .. n - 1 : k \in 1 .. p /\ (k \in 1 .. p - 1 \/ (k = p /\ p # 0))
  OBVIOUS
<1>2. Below(e, m, n)
  BY <1>1 DEF Below, Replannable
<1>3. ASSUME NEW k \in (IF hold THEN 1 ELSE 0) .. n - 1 PROVE e[k + 1] <= e[k] + l[k]
  <2>1. CASE k = n - 1
    <3>1. k + 1 = n /\ k \in 0 .. n - 1 /\ k \in 0 .. n
      BY <2>1
    <3>2. e[n] = 0 /\ e[k] \in Nat /\ l[k] \in Nat
      BY <3>1 DEF Plans
    <3> QED BY <3>1, <3>2
  <2>2. CASE k # n - 1
    <3>1. k \in (IF hold THEN 1 ELSE 0) .. p - 1
      BY <2>2
    <3> QED BY <3>1 DEF Replannable
  <2> QED BY <2>1, <2>2
<1>4. Climbs(e, l, IF hold THEN 1 ELSE 0, n)
  BY <1>3 DEF Climbs
<1>5. ~low => Brakes(e, l, 0, n)
  BY DEF Replannable
<1>6. ASSUME ~low, ~hold PROVE Tight(e, l, m, 1, n) /\ (p # 0 => Reached(e, l, m, p))
  <2>1. Tight(e, l, m, 1, p) /\ (p # 0 => Reached(e, l, m, p))
    BY <1>6 DEF Replannable
  <2> QED BY <1>1, <2>1 DEF Tight
<1> QED BY <1>2, <1>4, <1>5, <1>6 DEF PlanKept

-----------------------------------------------------------------------------
(* The passes as the model writes them.                                      *)

\* The passes that planner_recalculate() makes exist and give speeds.
LEMMA BackExists ==
  ASSUME NEW n \in Nat, NEW p \in Nat, p < n - 1, NEW e, NEW l, NEW m, Plans(e, l, m, n)
  PROVE  \E g : Back(g, e, l, m, p, n)
<1> DEFINE j == (n - 1) - p
           At(k, v) == IF k = p THEN e[k] ELSE IF e[k] = m[k] THEN e[k] ELSE Lower(m[k], v + l[k])
           F == [i \in 1 .. j |-> [v \in Nat |-> At((n - 1) - i, v)]]
           s == Lower(m[n - 1], l[n - 1])
<1>1. e \in [0 .. n -> Nat] /\ l \in [0 .. n - 1 -> Nat] /\ m \in [0 .. n - 1 -> Nat]
  BY DEF Plans
<1>2. j \in Nat /\ j # 0 /\ s \in Nat
  <2>1. m[n - 1] \in Nat /\ l[n - 1] \in Nat
    <3>1. n - 1 \in 0 .. n - 1
      OBVIOUS
    <3> QED BY <1>1, <3>1
  <2>2. s \in Nat
    BY <2>1, LowerOf
  <2>3. j \in Nat /\ j # 0
    OBVIOUS
  <2> QED BY <2>2, <2>3
<1>3. F \in [1 .. j -> [Nat -> Nat]]
  <2> SUFFICES ASSUME NEW i \in 1 .. j, NEW v \in Nat PROVE At((n - 1) - i, v) \in Nat
    OBVIOUS
  <2>1. (n - 1) - i \in 0 .. n - 1 /\ (n - 1) - i \in 0 .. n
    OBVIOUS
  <2>2. e[(n - 1) - i] \in Nat /\ m[(n - 1) - i] \in Nat /\ l[(n - 1) - i] \in Nat
    BY <1>1, <2>1
  <2>3. v + l[(n - 1) - i] \in Nat
    BY <2>2
  <2> QED BY <2>2, <2>3, LowerOf
<1>4. PICK f : Recursive(f, j, Nat, s, F)
  <2>1. j \in Nat /\ s \in Nat
    BY <1>2
  <2> HIDE DEF F, s, j
  <2> QED BY <1>3, <2>1, Recursion
<1>5. f \in [0 .. j -> Nat] /\ f[0] = s /\ \A i \in 1 .. j : f[i] = F[i][f[i - 1]]
  BY <1>4 DEF Recursive
<1> DEFINE g == [k \in p .. n - 1 |-> f[(n - 1) - k]]
<1>6. ASSUME NEW k \in p .. n - 1 PROVE g[k] \in Nat /\ g[k] = BackAt(g, e, l, m, p, n, k)
  <2>1. (n - 1) - k \in 0 .. j
    OBVIOUS
  <2>2. g[k] \in Nat /\ g[k] = f[(n - 1) - k]
    BY <1>5, <2>1
  <2>3. CASE k = n - 1
    <3>1. (n - 1) - k = 0
      BY <2>3
    <3>2. g[k] = s
      BY <2>2, <3>1, <1>5
    <3> QED BY <2>2, <2>3, <3>2 DEF BackAt
  <2>4. CASE k # n - 1
    <3>1. /\ (n - 1) - k \in 1 .. j /\ ((n - 1) - k) - 1 = (n - 1) - (k + 1)
          /\ (n - 1) - ((n - 1) - k) = k /\ k + 1 \in p .. n - 1
          /\ (n - 1) - (k + 1) \in 0 .. j
      BY <2>4
    <3>2. f[(n - 1) - k] = F[(n - 1) - k][f[(n - 1) - (k + 1)]]
      <4> HIDE DEF F, j
      <4> QED BY <1>5, <3>1
    <3>3. g[k + 1] = f[(n - 1) - (k + 1)] /\ f[(n - 1) - (k + 1)] \in Nat
      <4> HIDE DEF F, j
      <4> QED BY <1>5, <3>1
    <3>4. F[(n - 1) - k][g[k + 1]] = At(k, g[k + 1])
      <4> DEFINE i == (n - 1) - k
      <4>1. i \in 1 .. j /\ (n - 1) - i = k /\ g[k + 1] \in Nat
        BY <3>1, <3>3
      <4> HIDE DEF i, g, At
      <4>2. F[i][g[k + 1]] = At((n - 1) - i, g[k + 1])
        BY <4>1
      <4> QED BY <4>1, <4>2 DEF i
    <3>5. g[k] = At(k, g[k + 1])
      <4> HIDE DEF F, g, At
      <4> QED BY <2>2, <3>2, <3>3, <3>4
    <3>6. At(k, g[k + 1]) = BackAt(g, e, l, m, p, n, k)
      <4> HIDE DEF g
      <4> QED BY <2>4 DEF BackAt
    <3> QED BY <2>2, <3>5, <3>6
  <2> QED BY <2>3, <2>4
<1>7. Back(g, e, l, m, p, n)
  <2>1. g \in [p .. n - 1 -> Nat]
    <3>1. \A k \in p .. n - 1 : f[(n - 1) - k] \in Nat
      BY <1>6
    <3> QED BY <3>1
  <2> HIDE DEF g
  <2> QED BY <1>6, <2>1 DEF Back
<1> QED BY <1>7

\* So does the forward pass.
LEMMA OnExists ==
  ASSUME NEW n \in Nat, NEW p \in Nat, p < n - 1, NEW e, NEW l, NEW m, Plans(e, l, m, n),
         NEW b, Back(b, e, l, m, p, n)
  PROVE  \E g : On(g, b, l, p, n)
<1> DEFINE j == (n - 1) - p
           At(k, v) == IF v >= b[k] THEN b[k] ELSE Accelerated(v, l[k - 1], b[k])
           F == [i \in 1 .. j |-> [v \in Nat |-> At(p + i, v)]]
           s == b[p]
<1>1. l \in [0 .. n - 1 -> Nat] /\ b \in [p .. n - 1 -> Nat]
  BY DEF Plans, Back
<1>2. j \in Nat /\ j # 0 /\ s \in Nat
  BY <1>1
<1>3. F \in [1 .. j -> [Nat -> Nat]]
  <2> SUFFICES ASSUME NEW i \in 1 .. j, NEW v \in Nat PROVE At(p + i, v) \in Nat
    OBVIOUS
  <2>1. p + i \in p .. n - 1 /\ (p + i) - 1 \in 0 .. n - 1
    OBVIOUS
  <2>2. b[p + i] \in Nat /\ l[(p + i) - 1] \in Nat
    BY <1>1, <2>1
  <2>3. v + l[(p + i) - 1] \in Nat
    BY <2>2
  <2>4. Accelerated(v, l[(p + i) - 1], b[p + i]) \in Nat
    BY <2>2, <2>3, LowerOf DEF Accelerated
  <2> QED BY <2>2, <2>4
<1>4. PICK f : Recursive(f, j, Nat, s, F)
  <2>1. j \in Nat /\ s \in Nat
    BY <1>2
  <2> HIDE DEF F, s, j
  <2> QED BY <1>3, <2>1, Recursion
<1>5. f \in [0 .. j -> Nat] /\ f[0] = s /\ \A i \in 1 .. j : f[i] = F[i][f[i - 1]]
  BY <1>4 DEF Recursive
<1> DEFINE g == [k \in p .. n - 1 |-> f[k - p]]
<1>6. ASSUME NEW k \in p .. n - 1 PROVE g[k] \in Nat /\ g[k] = OnAt(g, b, l, p, k)
  <2>1. k - p \in 0 .. j
    OBVIOUS
  <2>2. g[k] \in Nat /\ g[k] = f[k - p]
    BY <1>5, <2>1
  <2>3. CASE k = p
    <3>1. k - p = 0
      BY <2>3
    <3>2. g[k] = s
      BY <2>2, <3>1, <1>5
    <3> QED BY <2>2, <2>3, <3>2 DEF OnAt
  <2>4. CASE k # p
    <3>1. /\ k - p \in 1 .. j /\ (k - p) - 1 = (k - 1) - p /\ p + (k - p) = k
          /\ k - 1 \in p .. n - 1 /\ (k - 1) - p \in 0 .. j
      BY <2>4
    <3>2. f[k - p] = F[k - p][f[(k - 1) - p]]
      <4> HIDE DEF F, j
      <4> QED BY <1>5, <3>1
    <3>3. g[k - 1] = f[(k - 1) - p] /\ f[(k - 1) - p] \in Nat
      <4> HIDE DEF F, j
      <4> QED BY <1>5, <3>1
    <3>4. F[k - p][g[k - 1]] = At(k, g[k - 1])
      <4> DEFINE i == k - p
      <4>1. i \in 1 .. j /\ p + i = k /\ g[k - 1] \in Nat
        BY <3>1, <3>3
      <4> HIDE DEF i, g, At
      <4>2. F[i][g[k - 1]] = At(p + i, g[k - 1])
        BY <4>1
      <4> QED BY <4>1, <4>2 DEF i
    <3>5. g[k] = At(k, g[k - 1])
      <4> HIDE DEF F, g, At
      <4> QED BY <2>2, <3>2, <3>3, <3>4
    <3>6. At(k, g[k - 1]) = OnAt(g, b, l, p, k)
      <4> HIDE DEF g
      <4> QED BY <2>4 DEF OnAt
    <3> QED BY <2>2, <3>5, <3>6
  <2> QED BY <2>3, <2>4
<1>7. On(g, b, l, p, n)
  <2>1. g \in [p .. n - 1 -> Nat]
    <3>1. g = [k \in p .. n - 1 |-> f[k - p]]
      OBVIOUS
    <3>2. \A k \in p .. n - 1 : f[k - p] \in Nat
      BY <1>6
    <3> HIDE DEF g
    <3> QED BY <3>1, <3>2, Zenon
  <2> HIDE DEF g
  <2> QED BY <1>6, <2>1 DEF On
<1> QED BY <1>7

\* A function that satisfies the equations of the reverse pass gives speeds everywhere.
LEMMA BackTyped ==
  ASSUME NEW n \in Nat, NEW p \in Nat, p < n - 1, NEW e, NEW l, NEW m, Plans(e, l, m, n),
         NEW g, g = [k \in p .. n - 1 |-> BackAt(g, e, l, m, p, n, k)]
  PROVE  Back(g, e, l, m, p, n)
<1>1. e \in [0 .. n -> Nat] /\ l \in [0 .. n - 1 -> Nat] /\ m \in [0 .. n - 1 -> Nat]
  BY DEF Plans
<1>2. \A k \in p .. n - 1 : g[k] = BackAt(g, e, l, m, p, n, k)
  <2> HIDE DEF BackAt
  <2> QED OBVIOUS
<1> DEFINE S == {k \in p .. n - 1 : g[k] \in Nat}
<1>3. n - 1 \in S
  <2>1. n - 1 \in p .. n - 1 /\ n - 1 \in 0 .. n - 1 /\ n - 1 \in Nat
    OBVIOUS
  <2>2. g[n - 1] = Lower(m[n - 1], l[n - 1])
    BY <1>2, <2>1 DEF BackAt
  <2>3. m[n - 1] \in Nat /\ l[n - 1] \in Nat
    BY <1>1, <2>1
  <2> QED BY <2>1, <2>2, <2>3, LowerOf
<1>4. ASSUME NEW k \in p .. (n - 1) - 1, k + 1 \in S PROVE k \in S
  <2>1. k \in p .. n - 1 /\ k \in 0 .. n - 1 /\ k \in 0 .. n /\ k # n - 1
    OBVIOUS
  <2>2. g[k] \in {e[k], Lower(m[k], g[k + 1] + l[k])}
    BY <1>2, <2>1 DEF BackAt
  <2>3. m[k] \in Nat /\ l[k] \in Nat /\ e[k] \in Nat
    BY <1>1, <2>1
  <2>4. g[k + 1] \in Nat
    BY <1>4
  <2>5. g[k + 1] + l[k] \in Nat
    BY <2>3, <2>4
  <2> QED BY <2>1, <2>2, <2>3, <2>5, LowerOf
<1>5. \A k \in p .. n - 1 : k \in S
  <2>1. p \in Nat /\ n - 1 \in Nat
    OBVIOUS
  <2> HIDE DEF S
  <2> QED BY <1>3, <1>4, <2>1, Downward
<1>6. \A k \in p .. n - 1 : g[k] \in Nat
  BY <1>5
<1>7. g \in [p .. n - 1 -> Nat]
  <2> HIDE DEF BackAt
  <2> QED BY <1>6
<1> QED BY <1>2, <1>7 DEF Back

\* So does one that satisfies those of the forward pass.
LEMMA OnTyped ==
  ASSUME NEW n \in Nat, NEW p \in Nat, p < n - 1, NEW e, NEW l, NEW m, Plans(e, l, m, n),
         NEW b, Back(b, e, l, m, p, n),
         NEW g, g = [k \in p .. n - 1 |-> OnAt(g, b, l, p, k)]
  PROVE  On(g, b, l, p, n)
<1>1. l \in [0 .. n - 1 -> Nat] /\ b \in [p .. n - 1 -> Nat]
  BY DEF Plans, Back
<1>2. \A k \in p .. n - 1 : g[k] = OnAt(g, b, l, p, k)
  <2> HIDE DEF OnAt
  <2> QED OBVIOUS
<1> DEFINE S == {k \in p .. n - 1 : g[k] \in Nat}
<1>3. p \in S
  BY <1>1, <1>2 DEF OnAt
<1>4. ASSUME NEW k \in p .. (n - 1) - 1, k \in S PROVE k + 1 \in S
  <2>1. k + 1 \in p .. n - 1 /\ k \in 0 .. n - 1 /\ (k + 1) - 1 = k
    OBVIOUS
  <2>2. g[k + 1] = b[k + 1] \/ g[k + 1] = Accelerated(g[k], l[k], b[k + 1])
    BY <1>2, <2>1 DEF OnAt
  <2>3. l[k] \in Nat /\ b[k + 1] \in Nat /\ g[k] \in Nat
    BY <1>1, <1>4, <2>1
  <2>4. g[k] + l[k] \in Nat
    BY <2>3
  <2> QED BY <2>1, <2>2, <2>3, <2>4, LowerOf DEF Accelerated
<1>5. \A k \in p .. n - 1 : k \in S
  <2>1. p \in Nat /\ n - 1 \in Nat
    OBVIOUS
  <2> HIDE DEF S
  <2> QED BY <1>3, <1>4, <2>1, Upward
<1>6. \A k \in p .. n - 1 : g[k] \in Nat
  BY <1>5
<1>7. g \in [p .. n - 1 -> Nat]
  <2> HIDE DEF OnAt
  <2> QED BY <1>6
<1> QED BY <1>2, <1>7 DEF On

-----------------------------------------------------------------------------
(* The ring as a plan.                                                       *)

\* The types of prep and of a plan.
PrepTypes == [speed : Nat, recalculate : BOOLEAN, deceleration : BOOLEAN,
              decelOverride : BOOLEAN, complete : Nat, exit : Nat]

\* The numbers of the n blocks queued from slot t on.
LeftsOf(buffer, t, n) == [k \in 0 .. n - 1 |-> buffer[Ahead(t, k)].left]
LimitsOf(buffer, t, n) == [k \in 0 .. n - 1 |-> buffer[Ahead(t, k)].maxEntry]
SpeedsOf(buffer, t, busy, v, n) ==
  [k \in 0 .. n |-> IF k = n THEN 0
                    ELSE IF k = 0 /\ busy THEN v
                    ELSE buffer[Ahead(t, k)].entry]

\* The numbers of a plan's blocks from the tail on.
SpeedsIn(plan, n) == SpeedsOf(plan.buffer, tail, plan.plBlock, plan.prep.speed, n)
LeftsIn(plan, n) == LeftsOf(plan.buffer, tail, n)
LimitsIn(plan, n) == LimitsOf(plan.buffer, tail, n)

\* A typed plan.
PlanTypes(plan) ==
  /\ plan = [buffer |-> plan.buffer, planned |-> plan.planned,
             plBlock |-> plan.plBlock, prep |-> plan.prep]
  /\ plan.buffer \in [Slots -> Block] /\ plan.planned \in Slots
  /\ plan.plBlock \in BOOLEAN /\ plan.prep \in PrepTypes

\* Between two plans only entry speeds and the planned pointer differ, and prep_buffer() is told to look
\* again if the tail block is taken from it.
OnlySpeeds(plan, new) ==
  /\ PlanTypes(new)
  /\ \A s \in Slots : /\ new.buffer[s].shape = plan.buffer[s].shape
                      /\ new.buffer[s].junction = plan.buffer[s].junction
                      /\ new.buffer[s].left = plan.buffer[s].left
                      /\ new.buffer[s].maxEntry = plan.buffer[s].maxEntry
  /\ \/ new.prep = plan.prep /\ new.plBlock = plan.plBlock
     \/ plan.plBlock /\ ~new.plBlock /\ new.prep = [plan.prep EXCEPT !.recalculate = TRUE]

\* The queue's numbers are those of a plan.
LEMMA TypedPlans ==
  ASSUME NEW plan, PlanTypes(plan), tail \in Slots, NEW n \in 0 .. N - 1,
         \A k \in 0 .. n - 1 : plan.buffer[Ahead(tail, k)].left # 0
  PROVE  Plans(SpeedsIn(plan, n), LeftsIn(plan, n), LimitsIn(plan, n), n)
<1>1. \A k \in 0 .. n - 1 : plan.buffer[Ahead(tail, k)] \in Block
  <2> SUFFICES ASSUME NEW k \in 0 .. n - 1 PROVE plan.buffer[Ahead(tail, k)] \in Block
    OBVIOUS
  <2>1. k \in 0 .. N - 1
    BY PlannerAssumption
  <2>2. Ahead(tail, k) \in Slots
    BY <2>1, RingArithmetic
  <2> QED BY <2>2 DEF PlanTypes
<1>2. plan.prep.speed \in Nat /\ plan.plBlock \in BOOLEAN
  BY DEF PlanTypes, PrepTypes
<1>3. \A k \in 0 .. n - 1 : /\ plan.buffer[Ahead(tail, k)].left \in Nat \ {0}
                            /\ plan.buffer[Ahead(tail, k)].entry \in Nat
                            /\ plan.buffer[Ahead(tail, k)].maxEntry \in Nat
  BY <1>1 DEF Block
<1>4. n \in Nat
  BY PlannerAssumption
<1>5. LeftsIn(plan, n) \in [0 .. n - 1 -> Nat \ {0}] /\ LimitsIn(plan, n) \in [0 .. n - 1 -> Nat]
  <2> HIDE DEF Ahead
  <2> QED BY <1>3 DEF LeftsIn, LimitsIn, LeftsOf, LimitsOf
<1>6. SpeedsIn(plan, n) \in [0 .. n -> Nat] /\ SpeedsIn(plan, n)[n] = 0
  <2>1. \A k \in 0 .. n : k # n => k \in 0 .. n - 1
    BY <1>4
  <2>2. n \in 0 .. n
    BY <1>4
  <2> QED BY <1>2, <1>3, <2>1, <2>2 DEF SpeedsIn, SpeedsOf
<1> QED BY <1>5, <1>6 DEF Plans

\* Stepper::update_plan_block_parameters() leaves every speed where it is.
LEMMA UpdateTailSame ==
  ASSUME NEW plan, PlanTypes(plan), tail \in Slots
  PROVE  /\ OnlySpeeds(plan, UpdateTail(plan))
         /\ UpdateTail(plan).planned = plan.planned /\ ~UpdateTail(plan).plBlock
         /\ \A n \in 0 .. N - 1 : SpeedsIn(UpdateTail(plan), n) = SpeedsIn(plan, n)
<1> DEFINE B == plan.buffer
           v == plan.prep.speed
           u == UpdateTail(plan)
<1>1. CASE ~plan.plBlock
  <2>1. u = plan
    BY <1>1 DEF UpdateTail
  <2> HIDE DEF u
  <2>2. OnlySpeeds(plan, plan)
    BY DEF OnlySpeeds
  <2> QED BY <1>1, <2>1, <2>2 DEF u
<1>2. CASE plan.plBlock
  <2>1. u = [buffer |-> [B EXCEPT ![tail] = [B[tail] EXCEPT !.entry = v]], planned |-> plan.planned,
             plBlock |-> FALSE, prep |-> [plan.prep EXCEPT !.recalculate = TRUE]]
    BY <1>2 DEF UpdateTail, PlanTypes
  <2>2. B \in [Slots -> Block] /\ v \in Nat /\ plan.prep \in PrepTypes /\ plan.planned \in Slots
        /\ B[tail] \in Block
    BY DEF PlanTypes, PrepTypes
  <2> DEFINE c == [B[tail] EXCEPT !.entry = v]
             q == [plan.prep EXCEPT !.recalculate = TRUE]
  <2>3. c \in Block /\ c.entry = v /\ c.shape = B[tail].shape /\ c.junction = B[tail].junction
        /\ c.left = B[tail].left /\ c.maxEntry = B[tail].maxEntry
    BY <2>2 DEF Block
  <2>4. q \in PrepTypes /\ q.speed = v
    BY <2>2 DEF PrepTypes
  <2> HIDE DEF c, u
  <2> DEFINE C == [B EXCEPT ![tail] = c]
  <2>5. C \in [Slots -> Block] /\ C[tail] = c /\ \A s \in Slots : s # tail => C[s] = B[s]
    BY <2>2, <2>3
  <2>6. u.buffer = C /\ u.planned = plan.planned /\ u.plBlock = FALSE /\ u.prep = q
        /\ u = [buffer |-> u.buffer, planned |-> u.planned, plBlock |-> u.plBlock, prep |-> u.prep]
    BY <2>1 DEF c
  <2> HIDE DEF C
  <2>7. PlanTypes(u)
    <3> HIDE DEF q
    <3> QED BY <2>2, <2>4, <2>5, <2>6 DEF PlanTypes
  <2>8. OnlySpeeds(plan, u)
    <3>1. \A s \in Slots : /\ C[s].shape = B[s].shape /\ C[s].junction = B[s].junction
                           /\ C[s].left = B[s].left /\ C[s].maxEntry = B[s].maxEntry
      BY <2>3, <2>5
    <3>2. plan.plBlock /\ ~u.plBlock /\ u.prep = [plan.prep EXCEPT !.recalculate = TRUE]
      BY <1>2, <2>6
    <3> QED BY <2>6, <2>7, <3>1, <3>2 DEF OnlySpeeds
  <2>9. ASSUME NEW n \in 0 .. N - 1 PROVE SpeedsIn(u, n) = SpeedsIn(plan, n)
    <3>1. ASSUME NEW k \in 0 .. n, k # n
          PROVE  (IF k = 0 /\ FALSE THEN v ELSE C[Ahead(tail, k)].entry)
                 = (IF k = 0 /\ TRUE THEN v ELSE B[Ahead(tail, k)].entry)
      <4>1. k \in 0 .. N - 1
        BY PlannerAssumption
      <4>2. Ahead(tail, k) \in Slots /\ Distance(tail, Ahead(tail, k)) = k
        BY <4>1, RingArithmetic
      <4>3. Distance(tail, tail) = 0 /\ 0 \in 0 .. N - 1 /\ Ahead(tail, 0) \in Slots
            /\ Distance(tail, Ahead(tail, 0)) = 0
        BY RingArithmetic, PlannerAssumption
      <4>4. CASE k = 0
        <5>1. Ahead(tail, k) = tail
          BY <4>2, <4>3, <4>4, RingArithmetic
        <5> QED BY <2>3, <2>5, <4>4, <5>1
      <4>5. CASE k # 0
        <5>1. Ahead(tail, k) # tail
          BY <4>2, <4>3, <4>5
        <5> QED BY <2>5, <4>2, <4>5, <5>1
      <4> QED BY <4>4, <4>5
    <3>2. u.plBlock = FALSE /\ plan.plBlock = TRUE
      BY <1>2, <2>6 DEF PlanTypes
    <3> QED BY <2>6, <3>1, <3>2 DEF SpeedsIn, SpeedsOf
  <2> QED BY <2>6, <2>8, <2>9 DEF u
<1> QED BY <1>1, <1>2 DEF PlanTypes

\* The speeds, the pointer and the claim on the tail block that a replanning leaves.
Replans(plan, new, n, p) ==
  \E b, f, q :
    /\ Back(b, SpeedsIn(plan, n), LeftsIn(plan, n), LimitsIn(plan, n), p, n)
    /\ On(f, b, LeftsIn(plan, n), p, n)
    /\ q \in p .. n - 1
    /\ q = p \/ Settled(f[q], b[q], LimitsIn(plan, n)[q])
    /\ Distance(tail, new.planned) = q
    /\ SpeedsIn(new, n) = Replanned(SpeedsIn(plan, n), f, p, n)
    /\ OnlySpeeds(plan, new)
    /\ new.plBlock => p # 0

\* planner_recalculate() does what the two passes say.
LEMMA RecalculatePlan ==
  ASSUME NEW plan, PlanTypes(plan), tail \in Slots, NEW h \in Slots,
         Distance(tail, plan.planned) < Distance(tail, h) - 1,
         \A k \in 0 .. Distance(tail, h) - 1 : plan.buffer[Ahead(tail, k)].left # 0
  PROVE  Replans(plan, Recalculate(plan, h), Distance(tail, h), Distance(tail, plan.planned))
<1> DEFINE n == Distance(tail, h)
           p == Distance(tail, plan.planned)
           upd == NotifyStepper(plan, p)
           B == upd.buffer
           e == SpeedsIn(plan, n)
           l == LeftsIn(plan, n)
           m == LimitsIn(plan, n)
           c(k) == B[Slot(k)]
           Rev(g, k) == IF k = p THEN c(k).entry
                        ELSE IF k = n - 1 THEN LastEntry(c(k))
                        ELSE IF c(k).entry = c(k).maxEntry THEN c(k).entry
                        ELSE Lower(c(k).maxEntry, g[k + 1] + c(k).left)
           rev == CHOOSE g : g = [k \in p .. n - 1 |-> Rev(g, k)]
           Fwd(g, k) == IF k = p \/ g[k - 1] >= rev[k] THEN rev[k]
                        ELSE Accelerated(g[k - 1], c(k - 1).left, rev[k])
           fwd == CHOOSE g : g = [k \in p .. n - 1 |-> Fwd(g, k)]
           settled == {k \in p + 1 .. n - 1 : Settled(fwd[k], rev[k], c(k).maxEntry)}
           last == CHOOSE k \in settled \cup {p} : \A j \in settled : j <= k
           C == [s \in Slots |->
                  IF p < Distance(tail, s) /\ Distance(tail, s) < n
                  THEN [B[s] EXCEPT !.entry = fwd[Distance(tail, s)]] ELSE B[s]]
           new == Recalculate(plan, h)
<1>1. n \in 0 .. N - 1 /\ p \in 0 .. N - 1
  BY RingArithmetic DEF PlanTypes
<1>2. n # 0 /\ p # n - 1 /\ n \in Nat /\ p \in Nat
  <2> HIDE DEF n, p
  <2> QED BY <1>1, PlannerAssumption DEF n, p
<1>3. new = [upd EXCEPT !.buffer = C, !.planned = Slot(last)]
  <2>1. ~(n = 0 \/ p = n - 1)
    BY <1>2
  <2> QED BY <2>1, Zenon DEF Recalculate
<1>4. /\ OnlySpeeds(plan, upd) /\ SpeedsIn(upd, n) = e /\ upd.planned = plan.planned
      /\ p = 0 => ~upd.plBlock
  <2>1. SpeedsIn(UpdateTail(plan), n) = e
    BY <1>1, UpdateTailSame
  <2>2. OnlySpeeds(plan, plan)
    BY DEF OnlySpeeds
  <2> HIDE DEF p, e
  <2> QED BY <2>1, <2>2, UpdateTailSame DEF NotifyStepper, e
<1>5. Plans(e, l, m, n)
  BY <1>1, TypedPlans
<1>6. ASSUME NEW k \in p .. n - 1
      PROVE  /\ k \in 0 .. n /\ k \in 0 .. n - 1 /\ Slot(k) \in Slots /\ Distance(tail, Slot(k)) = k
             /\ c(k).entry = e[k] /\ c(k).left = l[k] /\ c(k).maxEntry = m[k]
  <2>1. k \in 0 .. n /\ k \in 0 .. n - 1 /\ k # n /\ k \in 0 .. N - 1
    <3> HIDE DEF n, p
    <3> QED BY <1>1, <1>2, PlannerAssumption
  <2>2. Slot(k) \in Slots /\ Distance(tail, Slot(k)) = k
    BY <2>1, RingArithmetic DEF Slot
  <2> HIDE DEF n, p
  <2>3. k = 0 => ~upd.plBlock
    <3>1. k = 0 => p = 0
      BY <1>2
    <3> QED BY <1>4, <3>1
  <2>4. SpeedsIn(upd, n)[k] = c(k).entry
    <3> HIDE DEF upd
    <3> QED BY <2>1, <2>3 DEF SpeedsIn, SpeedsOf, Slot
  <2>5. l[k] = plan.buffer[Slot(k)].left /\ m[k] = plan.buffer[Slot(k)].maxEntry
    BY <2>1 DEF LeftsIn, LimitsIn, LeftsOf, LimitsOf, Slot
  <2>6. c(k).left = plan.buffer[Slot(k)].left /\ c(k).maxEntry = plan.buffer[Slot(k)].maxEntry
    <3> HIDE DEF upd
    <3> QED BY <1>4, <2>2 DEF OnlySpeeds
  <2> HIDE DEF upd, e, l, m
  <2> QED BY <1>4, <2>1, <2>2, <2>4, <2>5, <2>6
<1>7. PlanTypes(upd)
  BY <1>4 DEF OnlySpeeds
<1>8. p < n - 1
  OBVIOUS
<1> HIDE DEF n, p, upd, e, l, m
<1>9. Back(rev, e, l, m, p, n)
  <2>1. ASSUME NEW g PROVE [k \in p .. n - 1 |-> Rev(g, k)] = [k \in p .. n - 1 |-> BackAt(g, e, l, m, p, n, k)]
    <3>1. ASSUME NEW k \in p .. n - 1 PROVE Rev(g, k) = BackAt(g, e, l, m, p, n, k)
      <4>1. c(k).entry = e[k] /\ c(k).left = l[k] /\ c(k).maxEntry = m[k]
        BY <1>6
      <4>2. k = n - 1 => LastEntry(c(k)) = Lower(m[n - 1], l[n - 1])
        BY <4>1 DEF LastEntry
      <4> HIDE DEF c
      <4> QED BY <4>1, <4>2 DEF BackAt
    <3> HIDE DEF Rev
    <3> QED BY <3>1
  <2>2. PICK g : Back(g, e, l, m, p, n)
    BY <1>2, <1>5, <1>8, BackExists
  <2>3. g = [k \in p .. n - 1 |-> BackAt(g, e, l, m, p, n, k)]
    BY <2>2 DEF Back
  <2>4. rev = [k \in p .. n - 1 |-> Rev(rev, k)]
    <3> HIDE DEF Rev
    <3>1. g = [k \in p .. n - 1 |-> Rev(g, k)]
      BY <2>1, <2>3
    <3> QED BY <3>1
  <2>5. rev = [k \in p .. n - 1 |-> BackAt(rev, e, l, m, p, n, k)]
    <3> HIDE DEF Rev, rev
    <3> QED BY <2>1, <2>4
  <2> HIDE DEF rev
  <2> QED BY <1>2, <1>5, <1>8, <2>5, BackTyped
<1> HIDE DEF rev
<1>10. On(fwd, rev, l, p, n)
  <2>1. ASSUME NEW g PROVE [k \in p .. n - 1 |-> Fwd(g, k)] = [k \in p .. n - 1 |-> OnAt(g, rev, l, p, k)]
    <3>1. ASSUME NEW k \in p .. n - 1 PROVE Fwd(g, k) = OnAt(g, rev, l, p, k)
      <4>1. CASE k = p
        BY <4>1 DEF OnAt
      <4>2. CASE k # p
        <5>1. k - 1 \in p .. n - 1
          BY <1>2, <4>2
        <5>2. c(k - 1).left = l[k - 1]
          BY <1>6, <5>1
        <5> HIDE DEF c
        <5> QED BY <4>2, <5>2 DEF OnAt
      <4> QED BY <4>1, <4>2
    <3> HIDE DEF Fwd
    <3> QED BY <3>1
  <2>2. PICK g : On(g, rev, l, p, n)
    BY <1>2, <1>5, <1>8, <1>9, OnExists
  <2>3. g = [k \in p .. n - 1 |-> OnAt(g, rev, l, p, k)]
    BY <2>2 DEF On
  <2>4. fwd = [k \in p .. n - 1 |-> Fwd(fwd, k)]
    <3> HIDE DEF Fwd
    <3>1. g = [k \in p .. n - 1 |-> Fwd(g, k)]
      BY <2>1, <2>3
    <3> QED BY <3>1
  <2>5. fwd = [k \in p .. n - 1 |-> OnAt(fwd, rev, l, p, k)]
    <3> HIDE DEF Fwd, fwd
    <3> QED BY <2>1, <2>4
  <2> HIDE DEF fwd
  <2> QED BY <1>2, <1>5, <1>8, <1>9, <2>5, OnTyped
<1> HIDE DEF fwd
<1>11. last \in settled \cup {p}
  <2>1. settled \in SUBSET (p + 1 .. n - 1)
    OBVIOUS
  <2> HIDE DEF settled
  <2> QED BY <1>2, <2>1, LastExists
<1>12. last \in p .. n - 1 /\ (last = p \/ Settled(fwd[last], rev[last], m[last]))
  <2>1. CASE last = p
    <3> HIDE DEF last
    <3> QED BY <1>2, <1>8, <2>1
  <2>2. CASE last \in settled
    <3> HIDE DEF last
    <3>1. last \in p + 1 .. n - 1 /\ Settled(fwd[last], rev[last], c(last).maxEntry)
      BY <2>2
    <3>2. last \in p .. n - 1
      BY <1>2, <3>1
    <3>3. c(last).maxEntry = m[last]
      BY <1>6, <3>2
    <3> QED BY <3>1, <3>2, <3>3
  <2> HIDE DEF last, settled
  <2> QED BY <1>11, <2>1, <2>2
<1> HIDE DEF last
<1>13. Slot(last) \in Slots /\ Distance(tail, Slot(last)) = last
  BY <1>6, <1>12
<1>14. new.buffer = C /\ new.planned = Slot(last) /\ new.plBlock = upd.plBlock /\ new.prep = upd.prep
       /\ new = [buffer |-> new.buffer, planned |-> new.planned, plBlock |-> new.plBlock, prep |-> new.prep]
  <2> HIDE DEF C, new
  <2>1. upd = [buffer |-> upd.buffer, planned |-> upd.planned, plBlock |-> upd.plBlock, prep |-> upd.prep]
    BY <1>7 DEF PlanTypes
  <2>2. new = [buffer |-> C, planned |-> Slot(last), plBlock |-> upd.plBlock, prep |-> upd.prep]
    BY <1>3, <2>1
  <2> QED BY <2>2
<1> HIDE DEF new
<1>15. fwd \in [p .. n - 1 -> Nat]
  BY <1>10 DEF On
<1>16. ASSUME NEW s \in Slots
       PROVE  /\ C[s] \in Block /\ C[s].shape = B[s].shape /\ C[s].junction = B[s].junction
              /\ C[s].left = B[s].left /\ C[s].maxEntry = B[s].maxEntry
              /\ C[s].entry = IF p < Distance(tail, s) /\ Distance(tail, s) < n
                              THEN fwd[Distance(tail, s)] ELSE B[s].entry
  <2>1. B[s] \in Block
    BY <1>7 DEF PlanTypes
  <2>2. CASE p < Distance(tail, s) /\ Distance(tail, s) < n
    <3>1. Distance(tail, s) \in p .. n - 1
      <4>1. Distance(tail, s) \in 0 .. N - 1
        BY RingArithmetic
      <4> QED BY <1>2, <2>2, <4>1, PlannerAssumption
    <3>2. fwd[Distance(tail, s)] \in Nat
      BY <1>15, <3>1
    <3>3. C[s] = [B[s] EXCEPT !.entry = fwd[Distance(tail, s)]]
      BY <2>2
    <3> HIDE DEF C, B
    <3> QED BY <2>1, <2>2, <3>2, <3>3 DEF Block
  <2>3. CASE ~(p < Distance(tail, s) /\ Distance(tail, s) < n)
    <3>1. C[s] = B[s]
      BY <2>3
    <3> HIDE DEF C, B
    <3> QED BY <2>1, <2>3, <3>1
  <2> QED BY <2>2, <2>3
<1>17. C \in [Slots -> Block]
  <2>1. DOMAIN C = Slots /\ C = [s \in Slots |-> C[s]]
    OBVIOUS
  <2> HIDE DEF C
  <2> QED BY <1>16, <2>1
<1> HIDE DEF C
<1>18. OnlySpeeds(plan, new)
  <2>1. PlanTypes(new)
    BY <1>7, <1>13, <1>14, <1>17 DEF PlanTypes
  <2>2. \A s \in Slots : /\ new.buffer[s].shape = plan.buffer[s].shape
                         /\ new.buffer[s].junction = plan.buffer[s].junction
                         /\ new.buffer[s].left = plan.buffer[s].left
                         /\ new.buffer[s].maxEntry = plan.buffer[s].maxEntry
    <3>1. \A s \in Slots : /\ upd.buffer[s].shape = plan.buffer[s].shape
                           /\ upd.buffer[s].junction = plan.buffer[s].junction
                           /\ upd.buffer[s].left = plan.buffer[s].left
                           /\ upd.buffer[s].maxEntry = plan.buffer[s].maxEntry
      BY <1>4 DEF OnlySpeeds
    <3>2. \A s \in Slots : /\ C[s].shape = B[s].shape /\ C[s].junction = B[s].junction
                           /\ C[s].left = B[s].left /\ C[s].maxEntry = B[s].maxEntry
      BY <1>16
    <3> QED BY <1>14, <3>1, <3>2
  <2>3. \/ new.prep = plan.prep /\ new.plBlock = plan.plBlock
        \/ plan.plBlock /\ ~new.plBlock /\ new.prep = [plan.prep EXCEPT !.recalculate = TRUE]
    BY <1>4, <1>14 DEF OnlySpeeds
  <2> QED BY <2>1, <2>2, <2>3 DEF OnlySpeeds
<1>19. SpeedsIn(new, n) = Replanned(e, fwd, p, n)
  <2>1. ASSUME NEW k \in 0 .. n
        PROVE (IF k = n THEN 0 ELSE IF k = 0 /\ upd.plBlock THEN upd.prep.speed ELSE C[Ahead(tail, k)].entry)
              = IF p < k /\ k < n THEN fwd[k] ELSE e[k]
    <3>1. e[k] = IF k = n THEN 0 ELSE IF k = 0 /\ upd.plBlock THEN upd.prep.speed ELSE B[Ahead(tail, k)].entry
      <4>1. e[k] = SpeedsIn(upd, n)[k]
        BY <1>4
      <4> QED BY <4>1 DEF SpeedsIn, SpeedsOf
    <3>2. CASE k = n
      BY <1>2, <3>1, <3>2
    <3>3. CASE k # n
      <4>1. k \in 0 .. N - 1
        BY <1>1, <1>2, <3>3, PlannerAssumption
      <4>2. Ahead(tail, k) \in Slots /\ Distance(tail, Ahead(tail, k)) = k
        BY <4>1, RingArithmetic
      <4>3. C[Ahead(tail, k)].entry = IF p < k /\ k < n THEN fwd[k] ELSE B[Ahead(tail, k)].entry
        BY <1>16, <4>2
      <4>4. ~(p < 0)
        BY <1>2
      <4> HIDE DEF B
      <4> QED BY <3>1, <3>3, <4>3, <4>4
    <3> QED BY <3>2, <3>3
  <2> HIDE DEF B
  <2> QED BY <1>14, <2>1 DEF SpeedsIn, SpeedsOf, Replanned
<1>20. Distance(tail, new.planned) = last /\ (new.plBlock => p # 0)
  BY <1>4, <1>13, <1>14
<1>21. Replans(plan, new, n, p)
  <2> DEFINE x == last
             f == fwd
             b == rev
  <2>1. /\ Back(b, e, l, m, p, n) /\ On(f, b, l, p, n)
        /\ x \in p .. n - 1 /\ (x = p \/ Settled(f[x], b[x], m[x]))
        /\ Distance(tail, new.planned) = x
        /\ SpeedsIn(new, n) = Replanned(e, f, p, n)
        /\ OnlySpeeds(plan, new) /\ (new.plBlock => p # 0)
    BY <1>9, <1>10, <1>12, <1>18, <1>19, <1>20
  <2> HIDE DEF x, f, b
  <2> QED BY <2>1 DEF Replans, e, l, m
<1> QED BY <1>21 DEF new, n, p

\* A plan in which only speeds differ has the lengths and limits it had.
LEMMA SameBlocks ==
  ASSUME NEW plan, NEW new, OnlySpeeds(plan, new), tail \in Slots, NEW n \in 0 .. N - 1
  PROVE  LeftsIn(new, n) = LeftsIn(plan, n) /\ LimitsIn(new, n) = LimitsIn(plan, n)
<1>1. \A k \in 0 .. n - 1 : /\ new.buffer[Ahead(tail, k)].left = plan.buffer[Ahead(tail, k)].left
                            /\ new.buffer[Ahead(tail, k)].maxEntry = plan.buffer[Ahead(tail, k)].maxEntry
  <2> SUFFICES ASSUME NEW k \in 0 .. n - 1
               PROVE  /\ new.buffer[Ahead(tail, k)].left = plan.buffer[Ahead(tail, k)].left
                      /\ new.buffer[Ahead(tail, k)].maxEntry = plan.buffer[Ahead(tail, k)].maxEntry
    OBVIOUS
  <2>1. k \in 0 .. N - 1
    BY PlannerAssumption
  <2>2. Ahead(tail, k) \in Slots
    BY <2>1, RingArithmetic
  <2> QED BY <2>2 DEF OnlySpeeds
<1> QED BY <1>1 DEF LeftsIn, LimitsIn, LeftsOf, LimitsOf

\* What planner_recalculate() makes of a plan whose blocks before block_buffer_planned are settled.
PlanResult(plan, new, n, r, hold, low) ==
  /\ OnlySpeeds(plan, new)
  /\ PlanKept(SpeedsIn(new, n), LeftsIn(plan, n), LimitsIn(plan, n), n,
              Distance(tail, new.planned), hold, low)
  /\ Stoppable(SpeedsIn(new, n), r, n)
  /\ SpeedsIn(new, n)[0] = SpeedsIn(plan, n)[0]
  /\ new.plBlock /\ n # 0 => SpeedsIn(new, n)[1] = SpeedsIn(plan, n)[1]

\* It is kept, the tail's speed and, while a step is prepared from the tail, the next block's among it.
LEMMA RecalculateKeeps ==
  ASSUME NEW plan, PlanTypes(plan), tail \in Slots, NEW h \in Slots,
         NEW n, n = Distance(tail, h), NEW p, p = Distance(tail, plan.planned), n = 0 \/ p < n,
         \A k \in 0 .. n - 1 : plan.buffer[Ahead(tail, k)].left # 0,
         NEW r, Remaining(r, LeftsIn(plan, n), n), Stoppable(SpeedsIn(plan, n), r, n),
         NEW hold \in BOOLEAN, NEW low \in BOOLEAN,
         Replannable(SpeedsIn(plan, n), LeftsIn(plan, n), LimitsIn(plan, n), n, p, hold, low)
  PROVE  PlanResult(plan, Recalculate(plan, h), n, r, hold, low)
<1>1. n \in 0 .. N - 1 /\ p \in 0 .. N - 1
  BY RingArithmetic DEF PlanTypes
<1>2. n \in Nat /\ p \in Nat
  BY <1>1, PlannerAssumption
<1>3. Plans(SpeedsIn(plan, n), LeftsIn(plan, n), LimitsIn(plan, n), n)
  BY <1>1, TypedPlans
<1>4. CASE n = 0 \/ p = n - 1
  <2>1. Recalculate(plan, h) = plan
    BY <1>4 DEF Recalculate
  <2>2. PlanKept(SpeedsIn(plan, n), LeftsIn(plan, n), LimitsIn(plan, n), n, p, hold, low)
    BY <1>2, <1>3, <1>4, NothingToReplan
  <2>3. OnlySpeeds(plan, plan)
    BY DEF OnlySpeeds
  <2> QED BY <2>1, <2>2, <2>3 DEF PlanResult
<1>5. CASE ~(n = 0 \/ p = n - 1)
  <2>1. p < n - 1
    BY <1>2, <1>5
  <2> DEFINE new == Recalculate(plan, h)
             e == SpeedsIn(plan, n)
             l == LeftsIn(plan, n)
             m == LimitsIn(plan, n)
  <2>2. Replans(plan, new, n, p)
    BY <2>1, RecalculatePlan
  <2> HIDE DEF new
  <2>3. PICK b, f, q :
          /\ Back(b, e, l, m, p, n) /\ On(f, b, l, p, n)
          /\ q \in p .. n - 1 /\ (q = p \/ Settled(f[q], b[q], m[q]))
          /\ Distance(tail, new.planned) = q
          /\ SpeedsIn(new, n) = Replanned(e, f, p, n)
          /\ OnlySpeeds(plan, new) /\ (new.plBlock => p # 0)
    BY <2>2 DEF Replans
  <2> HIDE DEF e, l, m
  <2>4. Plans(e, l, m, n) /\ Remaining(r, l, n) /\ Stoppable(e, r, n)
        /\ Replannable(e, l, m, n, p, hold, low)
    BY <1>3 DEF e, l, m
  <2>5. PlanKept(Replanned(e, f, p, n), l, m, n, q, hold, low)
    BY <1>2, <2>1, <2>3, <2>4, ReplanKeeps
  <2>6. Stoppable(Replanned(e, f, p, n), r, n)
    BY <1>2, <2>1, <2>3, <2>4, ReplannedStops
  <2>7. /\ Replanned(e, f, p, n)[0] = e[0]
        /\ p # 0 => Replanned(e, f, p, n)[1] = e[1]
    <3>1. 0 \in 0 .. n /\ 1 \in 0 .. n /\ ~(p < 0) /\ (p # 0 => ~(p < 1))
      BY <1>2, <2>1
    <3> QED BY <3>1 DEF Replanned
  <2>8. PlanResult(plan, new, n, r, hold, low)
    BY <2>3, <2>5, <2>6, <2>7 DEF PlanResult, e, l, m
  <2> QED BY <2>8 DEF new
<1> QED BY <1>4, <1>5

-----------------------------------------------------------------------------
(* One unit of a block's profile.                                            *)

\* The speed prep_buffer() takes over with a block at speed e0 when it has none: q is its profile.
Handed(e0, q, hold) ==
  IF q.recalculate THEN e0 = q.speed
  ELSE /\ q.exit = q.speed
       /\ ~hold => e0 <= q.speed /\ (q.decelOverride \/ e0 = q.speed)

\* The profile q of a block of which l0 is left, before a block at speed e1.
Profiled(e1, l0, nom, q, hold) ==
  /\ ~q.recalculate /\ q.complete <= l0
  /\ q.complete # 0 => hold /\ q.exit = 0
  /\ hold => q.deceleration /\ ~q.decelOverride /\ q.speed = q.exit + (l0 - q.complete)
  /\ q.deceleration => q.exit + (l0 - q.complete) <= q.speed
  /\ ~hold => IF q.decelOverride THEN q.deceleration /\ nom <= q.exit /\ q.speed = q.exit + l0
              ELSE q.exit = e1

\* What the next unit of a block of which l0 is left makes of the speed s: v, when rem is left.
Ramps(s, e1, l0, r1, nom, q, hold, low, rem, v) ==
  /\ v \in Nat /\ v <= s + 1 /\ (~low => s - 1 <= v)
  /\ rem # 0 => /\ Profiled(e1, rem, nom, [q EXCEPT !.speed = v], hold)
                /\ v <= r1 + rem
                /\ ~hold => e1 <= v + rem
                /\ ~low => v <= e1 + rem /\ v <= nom
                /\ ~low /\ ~hold /\ e1 = s + l0 => e1 = v + rem
  /\ rem = 0 => /\ v = q.exit /\ v <= r1
                /\ ~hold => e1 <= v /\ (q.decelOverride \/ e1 = v)
                /\ ~low => v <= e1
                /\ r1 = 0 => ~q.decelOverride

\* Ramp() does so, in each of its cases.
LEMMA RampFacts ==
  ASSUME NEW s, NEW e1, NEW l0, NEW nom, NEW r1, NEW q, NEW hold, NEW low, NEW rem, NEW v,
         s \in Nat, e1 \in Nat, l0 \in Nat \ {0}, nom \in Nat \ {0}, r1 \in Nat,
         q \in PrepTypes, q.speed = s, hold \in BOOLEAN, low \in BOOLEAN,
         Profiled(e1, l0, nom, q, hold), s <= r1 + l0, e1 <= r1, e1 <= nom,
         ~hold => e1 <= s + l0,
         ~low => s <= e1 + l0 /\ s <= nom /\ ~q.decelOverride,
         ~(hold /\ l0 = q.complete),
         rem = l0 - 1, v = Ramp(s, nom, q, rem)
  PROVE  Ramps(s, e1, l0, r1, nom, q, hold, low, rem, v)
<1> SUFFICES
    /\ v \in Nat /\ v <= s + 1 /\ (~low => s - 1 <= v)
    /\ rem # 0 => /\ Profiled(e1, rem, nom, [q EXCEPT !.speed = v], hold)
                  /\ v <= r1 + rem
                  /\ ~hold => e1 <= v + rem
                  /\ ~low => v <= e1 + rem /\ v <= nom
                  /\ ~low /\ ~hold /\ e1 = s + l0 => e1 = v + rem
    /\ rem = 0 => /\ v = q.exit /\ v <= r1
                  /\ ~hold => e1 <= v /\ (q.decelOverride \/ e1 = v)
                  /\ ~low => v <= e1
                  /\ r1 = 0 => ~q.decelOverride
  BY DEF Ramps
<1>1. PICK x \in Nat, c \in Nat : x = q.exit /\ c = q.complete
  BY DEF PrepTypes
<1>2. PICK d \in BOOLEAN, o \in BOOLEAN : d = q.deceleration /\ o = q.decelOverride
  BY DEF PrepTypes
<1>3. /\ ~q.recalculate /\ c <= l0
      /\ c # 0 => hold /\ x = 0
      /\ hold => d /\ ~o /\ s = x + (l0 - c)
      /\ d => x + (l0 - c) <= s
      /\ ~hold => IF o THEN d /\ nom <= x /\ s = x + l0 ELSE x = e1
  BY <1>1, <1>2 DEF Profiled
<1>4. rem \in Nat /\ l0 = rem + 1
  OBVIOUS
<1>5. ~low => ~o
  BY <1>2
<1>6. ~(hold /\ l0 = c)
  BY <1>1
<1>7. c <= rem
  BY <1>3, <1>4, <1>6
<1>8. v = IF rem = c THEN x
          ELSE IF d \/ s > nom THEN s - 1
          ELSE Lower(s + 1, Lower(nom, x + rem))
  BY <1>1, <1>2 DEF Ramp
<1>9. CASE rem = c
  <2>1. v = x
    BY <1>8, <1>9
  <2>2. rem # 0 => x = 0 /\ hold
    BY <1>3, <1>9
  <2>3. v \in Nat /\ v <= s + 1 /\ (~low => s - 1 <= v)
    BY <2>1, <1>3, <1>4, <1>5, <1>9
  <2>4. ASSUME rem # 0 PROVE Profiled(e1, rem, nom, [q EXCEPT !.speed = v], hold)
    <3> DEFINE u == [q EXCEPT !.speed = v]
    <3>1. u.speed = v /\ u.exit = x /\ u.complete = c /\ u.deceleration = d /\ u.decelOverride = o
          /\ u.recalculate = q.recalculate
      BY <1>1, <1>2 DEF PrepTypes
    <3> HIDE DEF u
    <3>2. c <= rem /\ (c # 0 => hold /\ x = 0) /\ (hold => d /\ ~o /\ v = x + (rem - c))
          /\ x + (rem - c) <= v /\ (~hold => (o => d /\ nom <= x /\ v = x + rem) /\ (~o => x = e1))
      BY <2>1, <2>2, <2>4, <1>3, <1>4, <1>9
    <3>9. /\ ~u.recalculate /\ u.complete <= rem
          /\ u.complete # 0 => hold /\ u.exit = 0
          /\ hold => u.deceleration /\ ~u.decelOverride /\ u.speed = u.exit + (rem - u.complete)
          /\ u.deceleration => u.exit + (rem - u.complete) <= u.speed
          /\ ~hold => IF u.decelOverride THEN u.deceleration /\ nom <= u.exit /\ u.speed = u.exit + rem
                      ELSE u.exit = e1
      BY <1>3, <3>1, <3>2
    <3>10. Profiled(e1, rem, nom, u, hold)
      BY <3>9, Zenon DEF Profiled
    <3> QED BY <3>10 DEF u
  <2>5. rem # 0 => v <= r1 + rem /\ (~hold => e1 <= v + rem) /\ (~low => v <= e1 + rem /\ v <= nom)
                   /\ (~low /\ ~hold /\ e1 = s + l0 => e1 = v + rem)
    BY <2>1, <2>2, <1>4
  <2>6. rem = 0 => /\ v = x /\ v <= r1
                   /\ ~hold => e1 <= v /\ (o \/ e1 = v)
                   /\ ~low => v <= e1
                   /\ r1 = 0 => ~o
    BY <2>1, <1>3, <1>4, <1>5, <1>9
  <2> QED BY <2>3, <2>4, <2>5, <2>6, <1>1, <1>2
<1>10. CASE rem # c /\ (d \/ s > nom)
  <2>1. v = s - 1
    BY <1>8, <1>10
  <2>2. c < rem
    BY <1>7, <1>10
  <2>3. rem # 0
    BY <1>4, <2>2
  <2>4. 1 <= s
    BY <1>3, <1>4, <1>10, <2>2
  <2>5. v \in Nat /\ s = v + 1
    BY <2>1, <2>4
  <2>6. Profiled(e1, rem, nom, [q EXCEPT !.speed = v], hold)
    <3> DEFINE u == [q EXCEPT !.speed = v]
    <3>1. u.speed = v /\ u.exit = x /\ u.complete = c /\ u.deceleration = d /\ u.decelOverride = o
          /\ u.recalculate = q.recalculate
      BY <1>1, <1>2 DEF PrepTypes
    <3> HIDE DEF u
    <3>2. hold => v = x + (rem - c)
      BY <1>3, <1>4, <2>5
    <3>3. d => x + (rem - c) <= v
      BY <1>3, <1>4, <2>5
    <3>4. o /\ ~hold => v = x + rem
      BY <1>3, <1>4, <2>5
    <3>5. c <= rem /\ (c # 0 => hold /\ x = 0) /\ (hold => d /\ ~o)
          /\ (~hold => (o => d /\ nom <= x) /\ (~o => x = e1))
      BY <1>3, <2>2, <1>4
    <3>9. /\ ~u.recalculate /\ u.complete <= rem
          /\ u.complete # 0 => hold /\ u.exit = 0
          /\ hold => u.deceleration /\ ~u.decelOverride /\ u.speed = u.exit + (rem - u.complete)
          /\ u.deceleration => u.exit + (rem - u.complete) <= u.speed
          /\ ~hold => IF u.decelOverride THEN u.deceleration /\ nom <= u.exit /\ u.speed = u.exit + rem
                      ELSE u.exit = e1
      BY <1>3, <3>1, <3>2, <3>3, <3>4, <3>5
    <3>10. Profiled(e1, rem, nom, u, hold)
      BY <3>9, Zenon DEF Profiled
    <3> QED BY <3>10 DEF u
  <2>7. v <= r1 + rem /\ (~low => v <= e1 + rem /\ v <= nom)
    BY <1>4, <2>5
  <2>8. ~hold => e1 <= v + rem
    <3>1. ASSUME ~hold PROVE e1 <= v + rem
      <4>1. CASE o
        BY <4>1, <3>1, <1>3, <1>4, <2>5, <2>3
      <4>2. CASE ~o /\ d
        BY <4>2, <3>1, <1>3, <1>4, <2>5, <2>3
      <4>3. CASE s > nom
        BY <4>3, <1>4, <2>5
      <4> QED BY <4>1, <4>2, <4>3, <1>10
    <3> QED BY <3>1
  <2>9. ~(~low /\ ~hold /\ e1 = s + l0)
    BY <1>3, <1>4, <1>5, <1>10, <2>5
  <2> QED BY <2>3, <2>5, <2>6, <2>7, <2>8, <2>9
<1>11. CASE rem # c /\ ~d /\ ~(s > nom)
  <2>1. v = Lower(s + 1, Lower(nom, x + rem))
    BY <1>8, <1>11
  <2>2. ~hold /\ ~o /\ x = e1 /\ c = 0
    BY <1>3, <1>11
  <2>3. rem # 0
    BY <1>11, <2>2
  <2>4. v \in Nat /\ v <= s + 1 /\ v <= nom /\ v <= e1 + rem /\ (v = s + 1 \/ v = nom \/ v = e1 + rem)
    <3>1. x + rem \in Nat /\ s + 1 \in Nat
      BY <1>4
    <3>2. PICK y \in Nat : y = Lower(nom, x + rem)
      BY <3>1, LowerOf
    <3>3. y <= nom /\ y <= x + rem /\ y \in {nom, x + rem}
      BY <3>1, <3>2, LowerOf
    <3>4. v \in Nat /\ v <= s + 1 /\ v <= y /\ v \in {s + 1, y}
      BY <2>1, <3>1, <3>2, LowerOf
    <3> QED BY <2>2, <3>1, <3>3, <3>4
  <2>5. s <= nom
    BY <1>11
  <2>6. Profiled(e1, rem, nom, [q EXCEPT !.speed = v], hold)
    <3> DEFINE u == [q EXCEPT !.speed = v]
    <3>1. u.speed = v /\ u.exit = x /\ u.complete = c /\ u.deceleration = d /\ u.decelOverride = o
          /\ u.recalculate = q.recalculate
      BY <1>1, <1>2 DEF PrepTypes
    <3> HIDE DEF u
    <3>9. /\ ~u.recalculate /\ u.complete <= rem
          /\ u.complete # 0 => hold /\ u.exit = 0
          /\ hold => u.deceleration /\ ~u.decelOverride /\ u.speed = u.exit + (rem - u.complete)
          /\ u.deceleration => u.exit + (rem - u.complete) <= u.speed
          /\ ~hold => IF u.decelOverride THEN u.deceleration /\ nom <= u.exit /\ u.speed = u.exit + rem
                      ELSE u.exit = e1
      BY <1>3, <1>4, <1>11, <2>2, <3>1
    <3>10. Profiled(e1, rem, nom, u, hold)
      BY <3>9, Zenon DEF Profiled
    <3> QED BY <3>10 DEF u
  <2>7. ~low => s - 1 <= v
    BY <1>4, <2>4, <2>5
  <2>8. v <= r1 + rem /\ e1 <= v + rem
    BY <1>4, <2>2, <2>4
  <2>9. ~low /\ e1 = s + l0 => e1 = v + rem
    BY <1>4, <2>3, <2>4
  <2> QED BY <2>2, <2>3, <2>4, <2>6, <2>7, <2>8, <2>9
<1> QED BY <1>9, <1>10, <1>11

\* Whatever led to it, a block is loaded at the speed prep_buffer() has, and its profile follows.
LEMMA LoadFacts ==
  ASSUME NEW b, NEW l0, NEW nom, NEW q, NEW low,
         prep \in PrepTypes, control \in [executeHold : BOOLEAN, endMotion : BOOLEAN],
         l0 \in Nat \ {0}, nom \in Nat \ {0}, ExitSpeed \in Nat,
         Handed(b.entry, prep, control.executeHold), q = Profile(Loaded(b), l0, nom),
         ~low => prep.speed <= nom
  PROVE  /\ Loaded(b).entry = prep.speed /\ Loaded(b).speed = prep.speed
         /\ q \in PrepTypes /\ q.speed = prep.speed
         /\ Profiled(ExitSpeed, l0, nom, q, control.executeHold)
         /\ ~low => ~q.decelOverride
<1> DEFINE hold == control.executeHold
           v == prep.speed
<1>1. v \in Nat /\ hold \in BOOLEAN /\ prep.recalculate \in BOOLEAN /\ prep.decelOverride \in BOOLEAN
  BY DEF PrepTypes
<1>2. Loaded(b).entry = v /\ Loaded(b).speed = v
  BY <1>1 DEF Loaded, Handed
<1> HIDE DEF hold, v
<1>3. PICK x \in Nat : x = ExitSpeed
  OBVIOUS
<1> DEFINE d == IF hold THEN TRUE ELSE IF v > nom THEN l0 <= v - nom ELSE l0 <= v - x
           o == ~hold /\ v > nom /\ d
           c == IF hold /\ l0 >= v THEN l0 - v ELSE 0
           y == IF hold \/ o THEN Higher(v - l0, 0) ELSE x
<1>4. q = [speed |-> v, recalculate |-> FALSE, deceleration |-> d, decelOverride |-> o,
           complete |-> c, exit |-> y]
  BY <1>2, <1>3 DEF Profile, hold, v
<1>5. c \in Nat /\ y \in Nat /\ d \in BOOLEAN /\ o \in BOOLEAN
  <2>1. d \in BOOLEAN /\ o \in BOOLEAN
    <3>1. (l0 <= v - nom) \in BOOLEAN /\ (l0 <= v - x) \in BOOLEAN
      BY <1>1, <1>3
    <3>2. d \in BOOLEAN
      BY <3>1, Zenon
    <3>3. (~hold /\ v > nom /\ d) \in BOOLEAN
      BY <3>2, Zenon
    <3> QED BY <3>2, <3>3
  <2>2. Higher(v - l0, 0) \in Nat
    BY <1>1 DEF Higher
  <2>3. c \in Nat
    BY <1>1
  <2>4. y \in Nat
    <3> HIDE DEF d, o
    <3>1. y = Higher(v - l0, 0) \/ y = x
      BY Zenon
    <3> QED BY <1>3, <2>2, <3>1
  <2> QED BY <2>1, <2>3, <2>4
<1>6. /\ c <= l0 /\ (c # 0 => hold /\ y = 0)
      /\ hold => d /\ ~o /\ v = y + (l0 - c)
  <2>1. CASE ~hold
    BY <2>1
  <2>2. CASE hold /\ l0 >= v
    BY <1>1, <2>2 DEF Higher
  <2>3. CASE hold /\ ~(l0 >= v)
    BY <1>1, <2>3 DEF Higher
  <2> QED BY <1>1, <2>1, <2>2, <2>3
<1>7. d => y + (l0 - c) <= v
  BY <1>1, <1>3 DEF Higher
<1>8. ~hold => IF o THEN d /\ nom <= y /\ v = y + l0 ELSE y = x
  BY <1>1, <1>3 DEF Higher
<1>9. ~low => ~o
  BY <1>1 DEF v
<1> HIDE DEF d, o, c, y
<1>10. q.speed = v /\ q.recalculate = FALSE /\ q.deceleration = d /\ q.decelOverride = o
       /\ q.complete = c /\ q.exit = y
  BY <1>4
<1>11. q \in PrepTypes
  BY <1>1, <1>4, <1>5 DEF PrepTypes
<1>12. Profiled(x, l0, nom, q, hold)
  BY <1>6, <1>7, <1>8, <1>10 DEF Profiled
<1> QED BY <1>2, <1>3, <1>9, <1>10, <1>11, <1>12 DEF hold, v

-----------------------------------------------------------------------------
(* A plan whose first block is ridden, is discarded, or gets a successor.    *)

\* The first block of a plan gets the speed g[0] with o[0] of it left, which can be stopped from and, outside
\* a hold, reaches what follows.
Moves(e, l, g, o, n, r, hold, low) ==
  /\ g \in [0 .. n -> Nat]
  /\ \A k \in 1 .. n : g[k] = e[k]
  /\ o \in [0 .. n - 1 -> Nat \ {0}]
  /\ \A k \in 1 .. n - 1 : o[k] = l[k]
  /\ g[0] <= r[1] + o[0]
  /\ ~hold => e[1] <= g[0] + o[0]
  /\ ~low => g[0] <= e[1] + o[0]
  /\ ~low /\ ~hold /\ e[1] = e[0] + l[0] => e[1] = g[0] + o[0]

\* What a plan keeps when only the speed and the length of its first block change.
LEMMA TailMoved ==
  ASSUME NEW n, NEW e, NEW l, NEW m, NEW p, NEW hold, NEW low, NEW r, NEW g, NEW o,
         n \in Nat \ {0}, Plans(e, l, m, n), p \in 0 .. n - 1,
         hold \in BOOLEAN, low \in BOOLEAN, PlanKept(e, l, m, n, p, hold, low),
         Remaining(r, l, n), Stoppable(e, r, n), Moves(e, l, g, o, n, r, hold, low)
  PROVE  /\ PlanKept(g, o, m, n, p, hold, low)
         /\ \E t : Remaining(t, o, n) /\ Stoppable(g, t, n) /\ t[0] = r[1] + o[0]
<1> SUFFICES ASSUME g \in [0 .. n -> Nat], \A k \in 1 .. n : g[k] = e[k],
                    o \in [0 .. n - 1 -> Nat \ {0}], \A k \in 1 .. n - 1 : o[k] = l[k],
                    g[0] <= r[1] + o[0],
                    ~hold => e[1] <= g[0] + o[0],
                    ~low => g[0] <= e[1] + o[0],
                    ~low /\ ~hold /\ e[1] = e[0] + l[0] => e[1] = g[0] + o[0]
             PROVE  /\ PlanKept(g, o, m, n, p, hold, low)
                    /\ \E t : Remaining(t, o, n) /\ Stoppable(g, t, n) /\ t[0] = r[1] + o[0]
  BY DEF Moves
<1>1. /\ 0 \in 0 .. n - 1 /\ 0 \in 0 .. n /\ 1 \in 0 .. n /\ 1 \in 1 .. n /\ n \in 1 .. n /\ n \in 0 .. n
      /\ 0 + 1 = 1
      /\ \A k \in 0 .. n - 1 : k \in 0 .. n /\ k + 1 \in 1 .. n /\ k + 1 \in 0 .. n
                               /\ (k # 0 => k \in 1 .. n - 1 /\ k \in 1 .. n)
      /\ \A k \in 1 .. n - 1 : k \in 0 .. n - 1 /\ k \in 1 .. n /\ k - 1 \in 0 .. n
                               /\ (k # 1 => k - 1 \in 1 .. n - 1 /\ k - 1 \in 1 .. n)
  OBVIOUS
<1>2. /\ l \in [0 .. n - 1 -> Nat \ {0}] /\ e \in [0 .. n -> Nat]
      /\ r \in [0 .. n -> Nat] /\ r[n] = 0
      /\ \A k \in 0 .. n - 1 : r[k] = r[k + 1] + l[k]
  BY DEF Plans, Remaining
<1>3. Below(g, m, n)
  <2>1. \A k \in 1 .. n - 1 : g[k] = e[k]
    BY <1>1
  <2> QED BY <2>1 DEF PlanKept, Below
<1>4. Climbs(g, o, IF hold THEN 1 ELSE 0, n)
  <2>1. ASSUME NEW k \in (IF hold THEN 1 ELSE 0) .. n - 1 PROVE g[k + 1] <= g[k] + o[k]
    <3>1. k \in 0 .. n - 1 /\ (k = 0 => ~hold)
      OBVIOUS
    <3>2. CASE k = 0
      <4>1. g[1] = e[1]
        BY <1>1
      <4> QED BY <1>1, <3>1, <3>2, <4>1
    <3>3. CASE k # 0
      <4>1. g[k + 1] = e[k + 1] /\ g[k] = e[k] /\ o[k] = l[k]
        BY <1>1, <3>1, <3>3
      <4>2. e[k + 1] <= e[k] + l[k]
        BY DEF PlanKept, Climbs
      <4> QED BY <4>1, <4>2
    <3> QED BY <3>2, <3>3
  <2> QED BY <2>1 DEF Climbs
<1>5. ASSUME ~low PROVE Brakes(g, o, 0, n)
  <2>1. ASSUME NEW k \in 0 .. n - 1 PROVE g[k] <= g[k + 1] + o[k]
    <3>2. CASE k = 0
      <4>1. g[1] = e[1]
        BY <1>1
      <4> QED BY <1>1, <1>5, <3>2, <4>1
    <3>3. CASE k # 0
      <4>1. g[k + 1] = e[k + 1] /\ g[k] = e[k] /\ o[k] = l[k]
        BY <1>1, <3>3
      <4>2. e[k] <= e[k + 1] + l[k]
        BY <1>5 DEF PlanKept, Brakes
      <4> QED BY <4>1, <4>2
    <3> QED BY <3>2, <3>3
  <2> QED BY <2>1 DEF Brakes
<1>6. ASSUME ~low, ~hold, NEW k \in 1 .. n - 1, Reached(e, l, m, k) PROVE Reached(g, o, m, k)
  <2>1. g[k] = e[k]
    BY <1>1
  <2>2. CASE k = 1
    <3>1. 1 - 1 = 0
      OBVIOUS
    <3> QED BY <1>6, <2>1, <2>2, <3>1 DEF Reached
  <2>3. CASE k # 1
    <3>1. g[k - 1] = e[k - 1] /\ o[k - 1] = l[k - 1]
      BY <1>1, <2>3
    <3> QED BY <1>6, <2>1, <3>1 DEF Reached
  <2> QED BY <2>2, <2>3
<1>7. ASSUME ~low, ~hold PROVE Tight(g, o, m, 1, n)
  <2>1. ASSUME NEW k \in 1 .. n - 1 PROVE Reached(g, o, m, k) \/ g[k] = g[k + 1] + o[k]
    <3>1. Reached(e, l, m, k) \/ e[k] = e[k + 1] + l[k]
      BY <1>7 DEF PlanKept, Tight
    <3>2. g[k] = e[k] /\ g[k + 1] = e[k + 1] /\ o[k] = l[k]
      BY <1>1
    <3> QED BY <1>6, <1>7, <3>1, <3>2
  <2> QED BY <2>1 DEF Tight
<1>8. ASSUME ~low, ~hold, p # 0 PROVE Reached(g, o, m, p)
  <2>1. p \in 1 .. n - 1
    BY <1>8
  <2> QED BY <1>6, <1>8, <2>1 DEF PlanKept
<1>9. PlanKept(g, o, m, n, p, hold, low)
  BY <1>3, <1>4, <1>5, <1>7, <1>8 DEF PlanKept
<1> DEFINE t == [r EXCEPT ![0] = r[1] + o[0]]
<1>10. r[1] \in Nat /\ o[0] \in Nat
  BY <1>1, <1>2
<1>11. /\ t \in [0 .. n -> Nat] /\ t[0] = r[1] + o[0]
       /\ \A k \in 1 .. n : t[k] = r[k]
  <2>1. PICK x \in Nat : x = r[1] + o[0]
    BY <1>10
  <2>2. \A k \in 1 .. n : k # 0 /\ k \in 0 .. n
    OBVIOUS
  <2>3. t = [r EXCEPT ![0] = x]
    BY <2>1
  <2> HIDE DEF t
  <2>4. t \in [0 .. n -> Nat] /\ t[0] = x /\ \A k \in 1 .. n : t[k] = r[k]
    BY <1>1, <1>2, <2>2, <2>3
  <2> QED BY <2>1, <2>4
<1> HIDE DEF t
<1>12. Remaining(t, o, n)
  <2>1. t[n] = 0
    BY <1>1, <1>2, <1>11
  <2>2. ASSUME NEW k \in 0 .. n - 1 PROVE t[k] = t[k + 1] + o[k]
    <3>1. CASE k = 0
      <4>1. t[1] = r[1]
        BY <1>1, <1>11
      <4> QED BY <1>1, <1>11, <3>1, <4>1
    <3>2. CASE k # 0
      <4>1. t[k] = r[k] /\ t[k + 1] = r[k + 1] /\ o[k] = l[k]
        BY <1>1, <1>11, <3>2
      <4> QED BY <1>2, <4>1
    <3> QED BY <3>1, <3>2
  <2> QED BY <1>11, <2>1, <2>2 DEF Remaining
<1>13. Stoppable(g, t, n)
  <2>1. ASSUME NEW k \in 0 .. n PROVE g[k] <= t[k]
    <3>1. CASE k = 0
      BY <1>11, <3>1
    <3>2. CASE k # 0
      <4>1. k \in 1 .. n
        BY <3>2
      <4> QED BY <1>11, <4>1 DEF Stoppable
    <3> QED BY <3>1, <3>2
  <2> QED BY <2>1 DEF Stoppable
<1> QED BY <1>9, <1>11, <1>12, <1>13

\* What a plan keeps when its first block is discarded.
LEMMA TailGone ==
  ASSUME NEW n, NEW e, NEW l, NEW m, NEW p, NEW hold, NEW low, NEW r, NEW g, NEW o, NEW u, NEW q,
         n \in Nat \ {0}, Plans(e, l, m, n), p \in 0 .. n - 1,
         hold \in BOOLEAN, low \in BOOLEAN, PlanKept(e, l, m, n, p, hold, low),
         Remaining(r, l, n), Stoppable(e, r, n), Plans(g, o, u, n - 1),
         \A k \in 0 .. n - 1 : g[k] = e[k + 1],
         \A k \in 0 .. n - 2 : o[k] = l[k + 1] /\ u[k] = m[k + 1],
         q = IF p = 0 THEN 0 ELSE p - 1
  PROVE  /\ PlanKept(g, o, u, n - 1, q, hold, low)
         /\ \E t : Remaining(t, o, n - 1) /\ Stoppable(g, t, n - 1) /\ t[0] = r[1]
<1>1. /\ \A k \in 0 .. (n - 1) - 1 : k \in 0 .. n - 2 /\ k \in 0 .. n - 1 /\ k + 1 \in 0 .. n - 1
                                     /\ k + 1 \in 1 .. n - 1 /\ (k + 1) + 1 \in 0 .. n
      /\ \A k \in 1 .. (n - 1) - 1 : k \in 0 .. (n - 1) - 1 /\ k - 1 \in 0 .. (n - 1) - 1
                                     /\ (k + 1) - 1 = (k - 1) + 1 /\ k \in 0 .. n - 1
                                     /\ (k - 1) + 1 = k
      /\ 0 \in 0 .. n - 1 /\ 0 + 1 = 1 /\ (n - 1) + 1 = n
  OBVIOUS
<1>2. /\ l \in [0 .. n - 1 -> Nat \ {0}] /\ e \in [0 .. n -> Nat] /\ r \in [0 .. n -> Nat] /\ r[n] = 0
      /\ \A k \in 0 .. n - 1 : r[k] = r[k + 1] + l[k]
  BY DEF Plans, Remaining
<1>3. Below(g, u, n - 1)
  <2>1. ASSUME NEW k \in 1 .. (n - 1) - 1 PROVE g[k] <= u[k]
    <3>1. g[k] = e[k + 1] /\ u[k] = m[k + 1] /\ k + 1 \in 1 .. n - 1
      BY <1>1
    <3>2. \A j \in 1 .. n - 1 : e[j] <= m[j]
      BY DEF PlanKept, Below
    <3> QED BY <3>1, <3>2
  <2> QED BY <2>1 DEF Below
<1>4. Climbs(g, o, IF hold THEN 1 ELSE 0, n - 1)
  <2>1. ASSUME NEW k \in (IF hold THEN 1 ELSE 0) .. (n - 1) - 1 PROVE g[k + 1] <= g[k] + o[k]
    <3>1. k \in 0 .. (n - 1) - 1
      OBVIOUS
    <3>2. g[k] = e[k + 1] /\ g[k + 1] = e[(k + 1) + 1] /\ o[k] = l[k + 1] /\ k + 1 \in 1 .. n - 1
      BY <1>1, <3>1
    <3>3. \A j \in 1 .. n - 1 : j \in (IF hold THEN 1 ELSE 0) .. n - 1
      OBVIOUS
    <3>4. e[(k + 1) + 1] <= e[k + 1] + l[k + 1]
      BY <3>2, <3>3 DEF PlanKept, Climbs
    <3> QED BY <3>2, <3>4
  <2> QED BY <2>1 DEF Climbs
<1>5. ASSUME ~low PROVE Brakes(g, o, 0, n - 1)
  <2>1. ASSUME NEW k \in 0 .. (n - 1) - 1 PROVE g[k] <= g[k + 1] + o[k]
    <3>2. g[k] = e[k + 1] /\ g[k + 1] = e[(k + 1) + 1] /\ o[k] = l[k + 1] /\ k + 1 \in 0 .. n - 1
      BY <1>1
    <3>4. e[k + 1] <= e[(k + 1) + 1] + l[k + 1]
      BY <1>5, <3>2 DEF PlanKept, Brakes
    <3> QED BY <3>2, <3>4
  <2> QED BY <2>1 DEF Brakes
<1>6. ASSUME NEW k \in 1 .. (n - 1) - 1, Reached(e, l, m, k + 1) PROVE Reached(g, o, u, k)
  <2>1. g[k] = e[k + 1] /\ u[k] = m[k + 1] /\ (k + 1) - 1 = k
    BY <1>1
  <2>2. g[k - 1] = e[k] /\ o[k - 1] = l[k]
    <3>1. k - 1 \in 0 .. n - 1 /\ k - 1 \in 0 .. n - 2 /\ (k - 1) + 1 = k
      BY <1>1
    <3> QED BY <3>1
  <2> QED BY <1>6, <2>1, <2>2 DEF Reached
<1>7. ASSUME ~low, ~hold PROVE Tight(g, o, u, 1, n - 1)
  <2>1. ASSUME NEW k \in 1 .. (n - 1) - 1 PROVE Reached(g, o, u, k) \/ g[k] = g[k + 1] + o[k]
    <3>1. k + 1 \in 1 .. n - 1 /\ k \in 0 .. (n - 1) - 1
      BY <1>1
    <3>2. Reached(e, l, m, k + 1) \/ e[k + 1] = e[(k + 1) + 1] + l[k + 1]
      BY <1>7, <3>1 DEF PlanKept, Tight
    <3>3. g[k] = e[k + 1] /\ g[k + 1] = e[(k + 1) + 1] /\ o[k] = l[k + 1]
      BY <1>1, <3>1
    <3> QED BY <1>6, <3>2, <3>3
  <2> QED BY <2>1 DEF Tight
<1>8. ASSUME ~low, ~hold, q # 0 PROVE Reached(g, o, u, q)
  <2>1. q \in 1 .. (n - 1) - 1 /\ q + 1 = p /\ p # 0
    BY <1>8
  <2>2. Reached(e, l, m, q + 1)
    BY <1>8, <2>1 DEF PlanKept
  <2> QED BY <1>6, <2>1, <2>2
<1>9. PlanKept(g, o, u, n - 1, q, hold, low)
  BY <1>3, <1>4, <1>5, <1>7, <1>8 DEF PlanKept
<1> DEFINE t == [k \in 0 .. n - 1 |-> r[k + 1]]
<1>10. \A k \in 0 .. n - 1 : k + 1 \in 0 .. n /\ k \in 0 .. n
  OBVIOUS
<1>11. t \in [0 .. n - 1 -> Nat] /\ \A k \in 0 .. n - 1 : t[k] = r[k + 1]
  BY <1>2, <1>10
<1> HIDE DEF t
<1>12. Remaining(t, o, n - 1)
  <2>1. n - 1 \in 0 .. n - 1
    OBVIOUS
  <2>2. t[n - 1] = 0
    BY <1>1, <1>2, <1>11, <2>1
  <2>3. ASSUME NEW k \in 0 .. (n - 1) - 1 PROVE t[k] = t[k + 1] + o[k]
    <3>1. t[k] = r[k + 1] /\ t[k + 1] = r[(k + 1) + 1] /\ o[k] = l[k + 1] /\ k + 1 \in 0 .. n - 1
      BY <1>1, <1>11
    <3> QED BY <1>2, <3>1
  <2> QED BY <1>11, <2>2, <2>3 DEF Remaining
<1>13. Stoppable(g, t, n - 1)
  <2>1. ASSUME NEW k \in 0 .. n - 1 PROVE g[k] <= t[k]
    <3>1. g[k] = e[k + 1] /\ t[k] = r[k + 1] /\ k + 1 \in 0 .. n
      BY <1>10, <1>11
    <3> QED BY <3>1 DEF Stoppable
  <2> QED BY <2>1 DEF Stoppable
<1>14. t[0] = r[1]
  BY <1>1, <1>11
<1> QED BY <1>9, <1>12, <1>13, <1>14

\* A queue that grows by one block, planned at rest, can be replanned.
LEMMA Appended ==
  ASSUME NEW n \in Nat, NEW e, NEW l, NEW m, Plans(e, l, m, n), NEW p \in Nat, n = 0 => p = 0,
         n # 0 => p < n, NEW hold \in BOOLEAN, NEW low \in BOOLEAN, PlanKept(e, l, m, n, p, hold, low),
         NEW r, Remaining(r, l, n), Stoppable(e, r, n),
         NEW g, NEW o, NEW u, Plans(g, o, u, n + 1),
         \A k \in 0 .. n : g[k] = e[k],
         \A k \in 0 .. n - 1 : o[k] = l[k] /\ u[k] = m[k],
         NEW now \in BOOLEAN, ~now => ~low \/ n = 0
  PROVE  /\ Replannable(g, o, u, n + 1, p, hold, now)
         /\ \E t : Remaining(t, o, n + 1) /\ Stoppable(g, t, n + 1) /\ r[0] <= t[0]
<1>1. /\ e \in [0 .. n -> Nat] /\ e[n] = 0 /\ r \in [0 .. n -> Nat] /\ r[n] = 0
      /\ g \in [0 .. n + 1 -> Nat] /\ g[n + 1] = 0
      /\ o \in [0 .. (n + 1) - 1 -> Nat \ {0}] /\ u \in [0 .. (n + 1) - 1 -> Nat]
      /\ \A k \in 0 .. n - 1 : r[k] = r[k + 1] + l[k]
  BY DEF Plans, Remaining
<1>2. n \in 0 .. n /\ n \in 0 .. (n + 1) - 1 /\ 0 \in 0 .. n /\ 0 \in 0 .. n + 1 /\ n + 1 \in 0 .. n + 1
  OBVIOUS
<1>3. \A k \in 1 .. p : g[k] <= u[k]
  <2>1. \A k \in 1 .. p : k \in 1 .. n - 1 /\ k \in 0 .. n - 1 /\ k \in 0 .. n
    OBVIOUS
  <2>2. \A k \in 1 .. n - 1 : e[k] <= m[k]
    BY DEF PlanKept, Below
  <2> QED BY <2>1, <2>2
<1> DEFINE i == IF hold THEN 1 ELSE 0
<1>4. i \in {0, 1}
  OBVIOUS
<1> HIDE DEF i
<1>5. \A k \in i .. p - 1 : g[k + 1] <= g[k] + o[k]
  <2>1. \A k \in i .. p - 1 : k \in i .. n - 1 /\ k \in 0 .. n - 1 /\ k \in 0 .. n /\ k + 1 \in 0 .. n
    BY <1>4
  <2>2. \A k \in i .. n - 1 : e[k + 1] <= e[k] + l[k]
    BY DEF PlanKept, Climbs, i
  <2> QED BY <2>1, <2>2
<1>6. \A k \in 0 .. p : k \in 0 .. n
  OBVIOUS
<1>7. ASSUME ~now PROVE Below(g, u, n + 1) /\ Brakes(g, o, 0, n + 1)
  <2>1. g[n] = 0 /\ u[n] \in Nat /\ o[n] \in Nat
    BY <1>1, <1>2
  <2>2. Below(g, u, n + 1)
    <3>1. ASSUME NEW k \in 1 .. (n + 1) - 1 PROVE g[k] <= u[k]
      <4>1. CASE k = n
        BY <2>1, <4>1
      <4>2. CASE k # n
        <5>1. k \in 1 .. n - 1 /\ k \in 0 .. n - 1 /\ k \in 0 .. n
          BY <4>2
        <5>2. e[k] <= m[k]
          BY <5>1 DEF PlanKept, Below
        <5> QED BY <5>1, <5>2
      <4> QED BY <4>1, <4>2
    <3> QED BY <3>1 DEF Below
  <2>3. Brakes(g, o, 0, n + 1)
    <3>1. ASSUME NEW k \in 0 .. (n + 1) - 1 PROVE g[k] <= g[k + 1] + o[k]
      <4>1. CASE k = n
        BY <1>1, <2>1, <4>1
      <4>2. CASE k # n
        <5>1. k \in 0 .. n - 1 /\ k \in 0 .. n /\ k + 1 \in 0 .. n /\ n # 0
          BY <4>2
        <5>2. e[k] <= e[k + 1] + l[k]
          BY <1>7, <5>1 DEF PlanKept, Brakes
        <5> QED BY <5>1, <5>2
      <4> QED BY <4>1, <4>2
    <3> QED BY <3>1 DEF Brakes
  <2> QED BY <2>2, <2>3
<1>8. ASSUME ~now, ~hold PROVE Tight(g, o, u, 1, p) /\ (p # 0 => Reached(g, o, u, p))
  <2>1. CASE n = 0
    <3>1. p = 0
      BY <2>1
    <3> QED BY <3>1 DEF Tight
  <2>2. CASE n # 0
    <3>1. ~low
      BY <1>8, <2>2
    <3>2. \A k \in 1 .. p : k \in 0 .. n /\ k - 1 \in 0 .. n /\ k \in 0 .. n - 1 /\ k - 1 \in 0 .. n - 1
      BY <2>2
    <3>3. ASSUME NEW k \in 1 .. p, Reached(e, l, m, k) PROVE Reached(g, o, u, k)
      BY <3>2, <3>3 DEF Reached
    <3>4. p # 0 => Reached(g, o, u, p)
      <4>1. p # 0 => p \in 1 .. p
        OBVIOUS
      <4> QED BY <1>8, <3>1, <3>3, <4>1 DEF PlanKept
    <3>5. ASSUME NEW k \in 1 .. p - 1 PROVE Reached(g, o, u, k) \/ g[k] = g[k + 1] + o[k]
      <4>1. k \in 1 .. p /\ k \in 1 .. n - 1 /\ k \in 0 .. n /\ k + 1 \in 0 .. n /\ k \in 0 .. n - 1
        BY <2>2
      <4>2. Reached(e, l, m, k) \/ e[k] = e[k + 1] + l[k]
        BY <1>8, <3>1, <4>1 DEF PlanKept, Tight
      <4> QED BY <3>3, <4>1, <4>2
    <3> QED BY <3>4, <3>5 DEF Tight
  <2> QED BY <2>1, <2>2
<1>9. Replannable(g, o, u, n + 1, p, hold, now)
  BY <1>3, <1>5, <1>7, <1>8 DEF Replannable, i
<1> DEFINE t == [k \in 0 .. n + 1 |-> IF k = n + 1 THEN 0 ELSE r[k] + o[n]]
<1>10. PICK x \in Nat : x = o[n]
  BY <1>1, <1>2
<1>11. /\ t \in [0 .. n + 1 -> Nat] /\ t[n + 1] = 0 /\ \A k \in 0 .. n : t[k] = r[k] + x
  <2>1. \A k \in 0 .. n + 1 : k # n + 1 => k \in 0 .. n
    OBVIOUS
  <2>2. \A k \in 0 .. n : k # n + 1 /\ k \in 0 .. n + 1
    OBVIOUS
  <2>3. ASSUME NEW k \in 0 .. n PROVE r[k] + x \in Nat
    <3>1. r[k] \in Nat
      BY <1>1
    <3> QED BY <1>10, <3>1
  <2> QED BY <1>2, <1>10, <2>1, <2>2, <2>3
<1> HIDE DEF t
<1>12. Remaining(t, o, n + 1)
  <2>1. ASSUME NEW k \in 0 .. (n + 1) - 1 PROVE t[k] = t[k + 1] + o[k]
    <3>1. CASE k = n
      <4>1. t[k] = r[k] + x /\ r[k] = 0 /\ t[k + 1] = 0 /\ o[k] = x
        BY <1>1, <1>2, <1>10, <1>11, <3>1
      <4> QED BY <4>1
    <3>2. CASE k # n
      <4>1. k \in 0 .. n - 1 /\ k \in 0 .. n /\ k + 1 \in 0 .. n
        BY <3>2
      <4>2. t[k] = r[k] + x /\ t[k + 1] = r[k + 1] + x /\ r[k] = r[k + 1] + l[k] /\ o[k] = l[k]
        BY <1>1, <1>11, <4>1
      <4>3. r[k + 1] \in Nat /\ o[k] \in Nat
        BY <1>1, <4>1
      <4> QED BY <4>2, <4>3
    <3> QED BY <3>1, <3>2
  <2> QED BY <1>11, <2>1 DEF Remaining
<1>13. Stoppable(g, t, n + 1)
  <2>1. ASSUME NEW k \in 0 .. n + 1 PROVE g[k] <= t[k]
    <3>1. CASE k = n + 1
      BY <1>1, <1>11, <3>1
    <3>2. CASE k # n + 1
      <4>1. k \in 0 .. n
        BY <3>2
      <4>2. g[k] = e[k] /\ t[k] = r[k] + x /\ e[k] <= r[k] /\ e[k] \in Nat /\ r[k] \in Nat
        BY <1>1, <1>11, <4>1 DEF Stoppable
      <4> QED BY <4>2
    <3> QED BY <3>1, <3>2
  <2> QED BY <2>1 DEF Stoppable
<1>14. r[0] <= t[0]
  <2>1. t[0] = r[0] + x /\ r[0] \in Nat
    BY <1>1, <1>2, <1>11
  <2> QED BY <2>1
<1> QED BY <1>9, <1>12, <1>13, <1>14

\* So can any queue from its first block, if no limit is lower than it was.
LEMMA FromTheTail ==
  ASSUME NEW n \in Nat, NEW e, NEW l, NEW m, Plans(e, l, m, n), NEW p,
         NEW hold \in BOOLEAN, NEW low \in BOOLEAN, PlanKept(e, l, m, n, p, hold, low),
         NEW u \in [0 .. n - 1 -> Nat], NEW now \in BOOLEAN,
         ~now => ~low /\ \A k \in 1 .. n - 1 : m[k] <= u[k], NEW next \in BOOLEAN
  PROVE  Replannable(e, l, u, n, 0, next, now)
<1>1. \A k \in 1 .. n - 1 : k \in 0 .. n /\ k \in 0 .. n - 1
  OBVIOUS
<1>2. e \in [0 .. n -> Nat] /\ m \in [0 .. n - 1 -> Nat]
  BY DEF Plans
<1>3. ASSUME ~now PROVE Below(e, u, n)
  <2>1. ASSUME NEW k \in 1 .. n - 1 PROVE e[k] <= u[k]
    <3>1. e[k] \in Nat /\ m[k] \in Nat /\ u[k] \in Nat /\ m[k] <= u[k]
      BY <1>1, <1>2, <1>3
    <3>2. e[k] <= m[k]
      BY DEF PlanKept, Below
    <3> QED BY <3>1, <3>2
  <2> QED BY <2>1 DEF Below
<1>4. ASSUME ~now PROVE Brakes(e, l, 0, n)
  BY <1>4 DEF PlanKept
<1>5. Tight(e, l, u, 1, 0)
  BY DEF Tight
<1> QED BY <1>3, <1>4, <1>5 DEF Replannable

-----------------------------------------------------------------------------
(* The inductive invariant.                                                  *)

\* What the profile that prep_buffer() rides is to a plan of n blocks.
Riding(e, l, nom, n, busy, q, c, low) ==
  /\ n = 0 => q.speed = 0 /\ q.exit = 0 /\ ~q.decelOverride /\ ~q.recalculate
  /\ ~busy /\ n # 0 => Handed(e[0], q, c.executeHold)
  /\ busy => Profiled(e[1], l[0], nom, q, c.executeHold)
  /\ c.endMotion => n # 0 /\ (busy \/ q.recalculate)
  /\ ~low => ~q.decelOverride /\ (n # 0 => e[0] <= nom /\ q.speed <= e[0])

\* What the queued blocks are to each other.
QueueKept(buffer, t, n, o, pn) ==
  /\ \A k \in 0 .. n - 1 : buffer[Ahead(t, k)].left # 0
  /\ \A k \in 1 .. n - 1 :
       buffer[Ahead(t, k)].maxEntry =
         MaxEntrySpeed(buffer[Ahead(t, k)], o, NominalSpeed(buffer[Ahead(t, k - 1)], o))
  /\ n # 0 => pn = NominalSpeed(buffer[Ahead(t, n - 1)], o)

\* The machine can be stopped within what is queued from any block on, and from the speed v it has.
Affords(e, l, n, v) == \E r : Remaining(r, l, n) /\ Stoppable(e, r, n) /\ v <= r[0]

\* The speeds of the blocks queued from slot t on.
Speeds(plan, t, n) == SpeedsOf(plan.buffer, t, plan.plBlock, plan.prep.speed, n)

\* What is always so of the speeds.
SpeedInv(plan, t, n, p, o, pn, c, low) ==
  /\ QueueKept(plan.buffer, t, n, o, pn)
  /\ PlanKept(Speeds(plan, t, n), LeftsOf(plan.buffer, t, n), LimitsOf(plan.buffer, t, n),
              n, p, c.executeHold, low)
  /\ Affords(Speeds(plan, t, n), LeftsOf(plan.buffer, t, n), n, plan.prep.speed)
  /\ Riding(Speeds(plan, t, n), LeftsOf(plan.buffer, t, n), NominalSpeed(plan.buffer[t], o), n,
            plan.plBlock, plan.prep, c, low)

\* The flags of step_control that are modelled.
ControlTypes == [executeHold : BOOLEAN, endMotion : BOOLEAN]

\* The inductive invariant.
PInv ==
  /\ TypeOK /\ IInv
  /\ control.executeHold => state = "Hold"
  /\ SpeedInv(Plan, tail, Count, Distance(tail, planned), override, prevNominal, control, lowered)

\* The profile stays right when the plan keeps the speeds at both ends of the block, or the claim on the
\* block is given up with prep.recalculate set.
LEMMA RideKept ==
  ASSUME NEW n, NEW e, NEW g, NEW l, NEW nom, NEW q \in PrepTypes, NEW busy \in BOOLEAN,
         NEW c, NEW low, Riding(e, l, nom, n, busy, q, c, low),
         NEW u, NEW now \in BOOLEAN,
         \/ u = q /\ now = busy
         \/ busy /\ ~now /\ u = [q EXCEPT !.recalculate = TRUE],
         busy => n # 0 /\ e[0] = q.speed,
         g[0] = e[0], now => g[1] = e[1]
  PROVE  Riding(g, l, nom, n, now, u, c, low)
<1>1. CASE u = q /\ now = busy
  BY <1>1 DEF Riding
<1>2. CASE busy /\ ~now /\ u = [q EXCEPT !.recalculate = TRUE]
  <2>1. u.recalculate = TRUE /\ u.speed = q.speed /\ u.decelOverride = q.decelOverride
    BY <1>2 DEF PrepTypes
  <2>2. Handed(g[0], u, c.executeHold)
    BY <1>2, <2>1 DEF Handed
  <2> QED BY <1>2, <2>1, <2>2 DEF Riding
<1> QED BY <1>1, <1>2

\* Replanning changes nothing that the limits are made of.
LEMMA SameQueue ==
  ASSUME NEW plan, NEW new, OnlySpeeds(plan, new), tail \in Slots, NEW n \in 0 .. N - 1, NEW o, NEW pn,
         QueueKept(plan.buffer, tail, n, o, pn)
  PROVE  QueueKept(new.buffer, tail, n, o, pn)
<1>1. \A k \in 0 .. n - 1 : Ahead(tail, k) \in Slots
  <2>1. \A k \in 0 .. n - 1 : k \in 0 .. N - 1
    BY PlannerAssumption
  <2> QED BY <2>1, RingArithmetic
<1>2. \A k \in 0 .. n - 1 : LET s == Ahead(tail, k) IN
        /\ new.buffer[s].shape = plan.buffer[s].shape /\ new.buffer[s].junction = plan.buffer[s].junction
        /\ new.buffer[s].left = plan.buffer[s].left /\ new.buffer[s].maxEntry = plan.buffer[s].maxEntry
  BY <1>1 DEF OnlySpeeds
<1>3. \A k \in 1 .. n - 1 : k \in 0 .. n - 1 /\ k - 1 \in 0 .. n - 1
  OBVIOUS
<1>4. n # 0 => n - 1 \in 0 .. n - 1
  BY PlannerAssumption
<1>5. \A k \in 0 .. n - 1 : NominalSpeed(new.buffer[Ahead(tail, k)], o) = NominalSpeed(plan.buffer[Ahead(tail, k)], o)
  BY <1>2 DEF NominalSpeed
<1>6. \A k \in 0 .. n - 1 : new.buffer[Ahead(tail, k)].left # 0
  BY <1>2 DEF QueueKept
<1>7. n # 0 => pn = NominalSpeed(new.buffer[Ahead(tail, n - 1)], o)
  BY <1>4, <1>5 DEF QueueKept
<1>8. ASSUME NEW k \in 1 .. n - 1
      PROVE  new.buffer[Ahead(tail, k)].maxEntry =
               MaxEntrySpeed(new.buffer[Ahead(tail, k)], o, NominalSpeed(new.buffer[Ahead(tail, k - 1)], o))
  <2>1. plan.buffer[Ahead(tail, k)].maxEntry =
          MaxEntrySpeed(plan.buffer[Ahead(tail, k)], o, NominalSpeed(plan.buffer[Ahead(tail, k - 1)], o))
    BY DEF QueueKept
  <2> HIDE DEF Ahead, NominalSpeed
  <2> QED BY <1>2, <1>3, <1>5, <2>1 DEF MaxEntrySpeed
<1> QED BY <1>6, <1>7, <1>8 DEF QueueKept

\* A plan that can be replanned from the p-th block on.
Ready(plan, n, p, o, pn, c, low) ==
  /\ QueueKept(plan.buffer, tail, n, o, pn)
  /\ Replannable(SpeedsIn(plan, n), LeftsIn(plan, n), LimitsIn(plan, n), n, p, c.executeHold, low)
  /\ Affords(SpeedsIn(plan, n), LeftsIn(plan, n), n, plan.prep.speed)
  /\ Riding(SpeedsIn(plan, n), LeftsIn(plan, n), NominalSpeed(plan.buffer[tail], o), n,
            plan.plBlock, plan.prep, c, low)
  /\ plan.plBlock => n # 0

\* planner_recalculate() keeps the invariant of the speeds.
LEMMA ReplanStep ==
  ASSUME NEW plan, NEW h, NEW n, NEW p, NEW o, NEW pn, NEW c, NEW low, NEW new,
         PlanTypes(plan), tail \in Slots, h \in Slots,
         n = Distance(tail, h), p = Distance(tail, plan.planned), n = 0 \/ p < n,
         c \in ControlTypes, low \in BOOLEAN, Ready(plan, n, p, o, pn, c, low), new = Recalculate(plan, h)
  PROVE  /\ PlanTypes(new) /\ new.prep.speed = plan.prep.speed
         /\ SpeedInv(new, tail, n, Distance(tail, new.planned), o, pn, c, low)
<1> DEFINE e == SpeedsIn(plan, n)
           l == LeftsIn(plan, n)
           m == LimitsIn(plan, n)
           g == SpeedsIn(new, n)
<1>1. n \in 0 .. N - 1 /\ n \in Nat
  BY RingArithmetic, PlannerAssumption
<1>0. /\ QueueKept(plan.buffer, tail, n, o, pn)
      /\ Replannable(e, l, m, n, p, c.executeHold, low)
      /\ Affords(e, l, n, plan.prep.speed)
      /\ Riding(e, l, NominalSpeed(plan.buffer[tail], o), n, plan.plBlock, plan.prep, c, low)
      /\ plan.plBlock => n # 0
      /\ c.executeHold \in BOOLEAN
  BY DEF Ready, ControlTypes
<1>2. PICK r : Remaining(r, l, n) /\ Stoppable(e, r, n) /\ plan.prep.speed <= r[0]
  BY <1>0 DEF Affords
<1>3. \A k \in 0 .. n - 1 : plan.buffer[Ahead(tail, k)].left # 0
  BY <1>0 DEF QueueKept
<1>4. PlanResult(plan, new, n, r, c.executeHold, low)
  <2> HIDE DEF e, l, m, g
  <2> QED BY <1>0, <1>2, <1>3, RecalculateKeeps DEF e, l, m
<1>5. /\ OnlySpeeds(plan, new) /\ PlanTypes(new)
      /\ PlanKept(g, l, m, n, Distance(tail, new.planned), c.executeHold, low)
      /\ Stoppable(g, r, n) /\ g[0] = e[0] /\ (new.plBlock /\ n # 0 => g[1] = e[1])
  BY <1>4 DEF PlanResult, OnlySpeeds
<1>6. LeftsIn(new, n) = l /\ LimitsIn(new, n) = m
  BY <1>1, <1>5, SameBlocks
<1>7. QueueKept(new.buffer, tail, n, o, pn)
  BY <1>0, <1>1, <1>5, SameQueue
<1>8. new.prep.speed = plan.prep.speed
  BY <1>5 DEF OnlySpeeds, PlanTypes, PrepTypes
<1>9. Affords(g, l, n, new.prep.speed)
  BY <1>2, <1>5, <1>8 DEF Affords
<1>10. new.buffer[tail].shape = plan.buffer[tail].shape
  BY <1>5 DEF OnlySpeeds
<1>11. Riding(g, l, NominalSpeed(new.buffer[tail], o), n, new.plBlock, new.prep, c, low)
  <2> DEFINE nom == NominalSpeed(plan.buffer[tail], o)
             q == plan.prep
             u == new.prep
             busy == plan.plBlock
             now == new.plBlock
  <2>1. NominalSpeed(new.buffer[tail], o) = nom
    BY <1>10 DEF NominalSpeed
  <2>2. q \in PrepTypes /\ busy \in BOOLEAN /\ now \in BOOLEAN
    BY <1>5 DEF PlanTypes
  <2>3. \/ u = q /\ now = busy
        \/ busy /\ ~now /\ u = [q EXCEPT !.recalculate = TRUE]
    BY <1>5 DEF OnlySpeeds
  <2>4. busy => n # 0 /\ e[0] = q.speed
    <3>1. 0 \in 0 .. n
      BY <1>1
    <3> QED BY <1>0, <3>1 DEF SpeedsIn, SpeedsOf
  <2>5. now => n # 0
    BY <1>0, <2>3
  <2>6. g[0] = e[0] /\ (now => g[1] = e[1]) /\ Riding(e, l, nom, n, busy, q, c, low)
    BY <1>0, <1>5, <2>5
  <2> HIDE DEF nom, q, u, busy, now, e, l, m, g
  <2>7. Riding(g, l, nom, n, now, u, c, low)
    BY <2>2, <2>3, <2>4, <2>6, RideKept
  <2> QED BY <2>1, <2>7 DEF u, now
<1>12. g = Speeds(new, tail, n) /\ l = LeftsOf(new.buffer, tail, n) /\ m = LimitsOf(new.buffer, tail, n)
  BY <1>6 DEF SpeedsIn, Speeds, LeftsIn, LimitsIn
<1> HIDE DEF e, l, m, g
<1>13. SpeedInv(new, tail, n, Distance(tail, new.planned), o, pn, c, low)
  BY <1>5, <1>7, <1>9, <1>11, <1>12 DEF SpeedInv
<1> QED BY <1>5, <1>8, <1>13

\* The rest of the type invariant.
OtherTypes ==
  /\ prevNominal \in Nat /\ override \in Overrides
  /\ control \in ControlTypes /\ state \in {"Idle", "Cycle", "Hold"} /\ lowered \in BOOLEAN

\* The type invariant in parts.
LEMMA TypesOf == TypeOK <=> RingTypeOK /\ OtherTypes /\ PlanTypes(Plan)
<1>1. Plan.buffer = blockBuffer /\ Plan.planned = planned /\ Plan.plBlock = plBlock /\ Plan.prep = prep
      /\ Plan = [buffer |-> Plan.buffer, planned |-> Plan.planned, plBlock |-> Plan.plBlock, prep |-> Plan.prep]
  BY DEF Plan
<1> QED BY <1>1 DEF TypeOK, RingTypeOK, OtherTypes, PlanTypes, PrepTypes,
           ControlTypes

\* A step that leaves such a plan keeps the invariant.
LEMMA Kept ==
  ASSUME IInv', OtherTypes', (control.executeHold => state = "Hold")', NEW new, PlanTypes(new), Adopt(new),
         NEW n, n = Count', NEW t, t = tail', NEW p, p = Distance(t, new.planned),
         SpeedInv(new, t, n, p, override', prevNominal', control', lowered')
  PROVE  PInv'
<1>1. Plan' = new
  <2>1. Plan' = [buffer |-> blockBuffer', planned |-> planned', plBlock |-> plBlock', prep |-> prep']
    BY DEF Plan
  <2> QED BY <2>1 DEF Adopt, PlanTypes
<1>2. planned' = new.planned /\ blockBuffer' = new.buffer /\ plBlock' = new.plBlock /\ prep' = new.prep
  BY DEF Adopt
<1>3. Distance(tail, planned)' = p
  BY <1>2 DEF Distance
<1>4. TypeOK'
  <2>1. RingTypeOK'
    BY DEF IInv
  <2> QED BY <1>2, <2>1 DEF TypeOK, RingTypeOK, OtherTypes, PlanTypes, PrepTypes,
             ControlTypes
<1>5. SpeedInv(Plan, tail, Count, Distance(tail, planned), override, prevNominal, control, lowered)'
  BY <1>1, <1>3
<1> QED BY <1>4, <1>5, Zenon DEF PInv

\* The invariant holds of the empty queue.
LEMMA InitPlan == Init => PInv
<1> SUFFICES ASSUME Init PROVE PInv
  OBVIOUS
<1>1. IInv
  BY InitInvariant
<1>2. EmptyBlock \in Block
  <2>1. (CHOOSE s \in Shapes : TRUE) \in Shapes
    BY PlannerAssumption
  <2> QED BY <2>1 DEF EmptyBlock, Block
<1>3. TypeOK
  <2>1. RingTypeOK
    BY <1>1 DEF IInv
  <2>2. blockBuffer \in [Slots -> Block]
    BY <1>2 DEF Init
  <2> QED BY <2>1, <2>2, PlannerAssumption DEF Init, RingTypeOK, TypeOK, Running
<1>4. Count = 0 /\ Distance(tail, planned) = 0
  BY PlannerAssumption DEF Init, Count, Distance
<1> DEFINE e == Speeds(Plan, tail, 0)
           l == LeftsOf(Plan.buffer, tail, 0)
           m == LimitsOf(Plan.buffer, tail, 0)
<1>5. prep.speed = 0 /\ prep.exit = 0 /\ prep.decelOverride = FALSE /\ prep.recalculate = FALSE /\ plBlock = FALSE
      /\ control.endMotion = FALSE /\ lowered = FALSE
  BY DEF Init, Running
<1>6. e[0] = 0
  BY DEF Speeds, SpeedsOf
<1> HIDE DEF e, l, m
<1>7. PlanKept(e, l, m, 0, 0, control.executeHold, lowered)
  <2>1. \A i \in {0, 1} : \A k \in i .. 0 - 1 : FALSE
    OBVIOUS
  <2>2. Below(e, m, 0) /\ Tight(e, l, m, 1, 0) /\ Brakes(e, l, 0, 0)
        /\ Climbs(e, l, IF control.executeHold THEN 1 ELSE 0, 0)
    BY <2>1 DEF Below, Tight, Brakes, Climbs
  <2> QED BY <2>2 DEF PlanKept
<1>8. Affords(e, l, 0, prep.speed)
  <2> DEFINE r == [k \in 0 .. 0 |-> 0]
  <2>1. r \in [0 .. 0 -> Nat] /\ r[0] = 0 /\ \A k \in 0 .. 0 : k = 0 /\ r[k] = 0
    OBVIOUS
  <2>2. Remaining(r, l, 0)
    BY <2>1 DEF Remaining
  <2>3. Stoppable(e, r, 0) /\ prep.speed <= r[0]
    BY <1>5, <1>6, <2>1 DEF Stoppable
  <2> QED BY <2>2, <2>3 DEF Affords
<1>9. Riding(e, l, NominalSpeed(blockBuffer[tail], override), 0, plBlock, prep, control, lowered)
  <2>1. control.endMotion = FALSE
    BY <1>5
  <2> QED BY <1>5, <2>1, Zenon DEF Riding
<1>10. QueueKept(blockBuffer, tail, 0, override, prevNominal)
  BY DEF QueueKept
<1>11. Plan.buffer = blockBuffer /\ Plan.plBlock = plBlock /\ Plan.prep = prep
  BY DEF Plan
<1>12. control.executeHold = FALSE
  BY DEF Init, Running
<1> QED BY <1>1, <1>3, <1>4, <1>7, <1>8, <1>9, <1>10, <1>11, <1>12 DEF PInv,
           SpeedInv, e, l, m

-----------------------------------------------------------------------------
(* Cycle start, feed hold and cycle stop.                                    *)

\* What the invariant says of the indices and the types.
LEMMA PlanTyped ==
  ASSUME PInv
  PROVE  /\ PlanTypes(Plan) /\ OtherTypes /\ RingTypeOK /\ PlannedInsideQueue
         /\ tail \in Slots /\ head \in Slots /\ nextHead \in Slots
         /\ Plan.buffer = blockBuffer /\ Plan.planned = planned /\ Plan.plBlock = plBlock /\ Plan.prep = prep
         /\ Count \in 0 .. N - 1 /\ Count \in Nat /\ Distance(tail, planned) \in Nat
         /\ plBlock => Count # 0
         /\ Count # 0 => Distance(tail, planned) < Count
         /\ Count = 0 => Distance(tail, planned) = 0
<1>1. PlanTypes(Plan) /\ OtherTypes /\ RingTypeOK /\ PlannedInsideQueue
  BY TypesOf DEF PInv, IInv
<1>2. tail \in Slots /\ head \in Slots /\ nextHead \in Slots /\ planned \in Slots
  BY <1>1 DEF RingTypeOK
<1>3. Count \in 0 .. N - 1 /\ (Count = 0 <=> tail = head) /\ Distance(tail, planned) \in 0 .. N - 1
  BY <1>2, RingArithmetic DEF Count
<1>4. Count \in Nat /\ Distance(tail, planned) \in Nat
  BY <1>3, PlannerAssumption
<1>5. /\ plBlock => Count # 0
      /\ Count # 0 => Distance(tail, planned) < Count
      /\ Distance(tail, planned) <= Count
  BY <1>1, <1>3 DEF PlannedInsideQueue
<1> QED BY <1>1, <1>2, <1>3, <1>4, <1>5 DEF Plan

\* What starting, holding and stopping a cycle does to a plan.
LEMMA HoldKept ==
  ASSUME PInv, NEW c \in ControlTypes,
         NEW new, new \in {Plan, UpdateTail(Plan)},
         \/ c = control
         \/ c.executeHold = control.executeHold /\ ~c.endMotion
         \/ c.executeHold /\ ~c.endMotion /\ new = UpdateTail(Plan)
  PROVE  /\ PlanTypes(new) /\ new.planned = planned
         /\ SpeedInv(new, tail, Count, Distance(tail, planned), override, prevNominal, c, lowered)
<1> DEFINE n == Count
           p == Distance(tail, planned)
           e == SpeedsIn(Plan, n)
           l == LeftsIn(Plan, n)
           m == LimitsIn(Plan, n)
           nom == NominalSpeed(blockBuffer[tail], override)
<1>1. /\ PlanTypes(Plan) /\ OtherTypes /\ tail \in Slots /\ n \in 0 .. N - 1 /\ n \in Nat
      /\ Plan.buffer = blockBuffer /\ Plan.planned = planned /\ Plan.plBlock = plBlock /\ Plan.prep = prep
      /\ plBlock => n # 0
  BY PlanTyped
<1>2. SpeedInv(Plan, tail, n, p, override, prevNominal, control, lowered)
  BY DEF PInv
<1>3. /\ QueueKept(blockBuffer, tail, n, override, prevNominal)
      /\ PlanKept(e, l, m, n, p, control.executeHold, lowered)
      /\ Affords(e, l, n, prep.speed)
      /\ Riding(e, l, nom, n, plBlock, prep, control, lowered)
  BY <1>1, <1>2 DEF SpeedInv, Speeds, SpeedsIn, LeftsIn, LimitsIn
<1>4. /\ OnlySpeeds(Plan, new) /\ new.planned = planned /\ SpeedsIn(new, n) = e
      /\ new = UpdateTail(Plan) => ~new.plBlock
      /\ new.plBlock => plBlock
  <2>1. OnlySpeeds(Plan, Plan)
    BY <1>1 DEF OnlySpeeds
  <2>2. /\ OnlySpeeds(Plan, UpdateTail(Plan))
        /\ UpdateTail(Plan).planned = planned /\ ~UpdateTail(Plan).plBlock
        /\ SpeedsIn(UpdateTail(Plan), n) = e
    BY <1>1, UpdateTailSame
  <2> HIDE DEF e, n
  <2> QED BY <1>1, <2>1, <2>2 DEF e
<1>5. PlanTypes(new) /\ new.prep.speed = prep.speed
  <2>1. PlanTypes(new) /\ (new.prep = prep \/ new.prep = [prep EXCEPT !.recalculate = TRUE])
    BY <1>1, <1>4 DEF OnlySpeeds
  <2> QED BY <1>1, <2>1 DEF PlanTypes, PrepTypes
<1>6. LeftsIn(new, n) = l /\ LimitsIn(new, n) = m
  BY <1>1, <1>4, SameBlocks
<1>7. QueueKept(new.buffer, tail, n, override, prevNominal)
  BY <1>1, <1>3, <1>4, SameQueue
<1>8. NominalSpeed(new.buffer[tail], override) = nom
  BY <1>1, <1>4 DEF OnlySpeeds, NominalSpeed
<1>9. Riding(e, l, nom, n, new.plBlock, new.prep, control, lowered)
  <2> DEFINE q == prep
             u == new.prep
             busy == plBlock
             now == new.plBlock
  <2>1. q \in PrepTypes /\ busy \in BOOLEAN /\ now \in BOOLEAN
    BY <1>1, <1>5 DEF PlanTypes
  <2>2. \/ u = q /\ now = busy
        \/ busy /\ ~now /\ u = [q EXCEPT !.recalculate = TRUE]
    BY <1>1, <1>4 DEF OnlySpeeds
  <2>3. busy => n # 0 /\ e[0] = q.speed
    <3>1. 0 \in 0 .. n
      BY <1>1
    <3> QED BY <1>1, <3>1 DEF SpeedsIn, SpeedsOf
  <2>4. Riding(e, l, nom, n, busy, q, control, lowered)
    BY <1>3
  <2> HIDE DEF nom, q, u, busy, now, e, l, m
  <2>5. Riding(e, l, nom, n, now, u, control, lowered)
    BY <2>1, <2>2, <2>3, <2>4, RideKept
  <2> QED BY <2>5 DEF u, now
<1> HIDE DEF n, p, e, l, m, nom
<1>10. c = control \/ (c.executeHold = control.executeHold /\ ~c.endMotion)
       \/ (c.executeHold = TRUE /\ ~c.endMotion /\ ~new.plBlock)
  BY <1>4 DEF ControlTypes
<1>11. Riding(e, l, nom, n, new.plBlock, new.prep, c, lowered)
  <2>1. CASE c = control
    BY <1>9, <2>1
  <2>2. CASE c.executeHold = control.executeHold /\ ~c.endMotion
    BY <1>9, <2>2 DEF Riding
  <2>3. CASE c.executeHold = TRUE /\ ~c.endMotion /\ ~new.plBlock
    <3>1. ~new.plBlock /\ n # 0 => Handed(e[0], new.prep, control.executeHold)
      BY <1>9 DEF Riding
    <3>2. ~new.plBlock /\ n # 0 => Handed(e[0], new.prep, c.executeHold)
      BY <2>3, <3>1 DEF Handed
    <3> QED BY <1>9, <2>3, <3>2 DEF Riding
  <2> QED BY <1>10, <2>1, <2>2, <2>3
<1>12. PlanKept(e, l, m, n, p, c.executeHold, lowered)
  <2>1. CASE c.executeHold = control.executeHold
    BY <1>3, <2>1
  <2>2. CASE c.executeHold = TRUE
    <3>1. Climbs(e, l, 1, n)
      <4>1. Climbs(e, l, IF control.executeHold THEN 1 ELSE 0, n)
        BY <1>3 DEF PlanKept
      <4>2. \A k \in 1 .. n - 1 : k \in (IF control.executeHold THEN 1 ELSE 0) .. n - 1
        BY <1>1 DEF n
      <4> QED BY <4>1, <4>2 DEF Climbs
    <3> QED BY <1>3, <2>2, <3>1 DEF PlanKept
  <2> QED BY <1>10, <2>1, <2>2
<1>13. /\ Speeds(new, tail, n) = e /\ LeftsOf(new.buffer, tail, n) = l
       /\ LimitsOf(new.buffer, tail, n) = m
  BY <1>4, <1>6 DEF Speeds, SpeedsIn, LeftsIn, LimitsIn
<1>14. SpeedInv(new, tail, n, p, override, prevNominal, c, lowered)
  BY <1>3, <1>5, <1>7, <1>8, <1>11, <1>12, <1>13 DEF SpeedInv
<1> QED BY <1>4, <1>5, <1>14 DEF n, p

\* A step that does no more than that keeps the invariant.
LEMMA HoldStep ==
  ASSUME PInv, IInv', OtherTypes', control'.executeHold => state' = "Hold",
         NEW new, new \in {Plan, UpdateTail(Plan)}, Adopt(new),
         UNCHANGED <<tail, head, prevNominal, override, lowered>>,
         \/ control' = control
         \/ control'.executeHold = control.executeHold /\ ~control'.endMotion
         \/ control'.executeHold /\ ~control'.endMotion /\ new = UpdateTail(Plan)
  PROVE  PInv'
<1>1. control' \in ControlTypes
  BY DEF OtherTypes
<1>2. /\ PlanTypes(new) /\ new.planned = planned
      /\ SpeedInv(new, tail, Count, Distance(tail, planned), override, prevNominal, control', lowered)
  BY <1>1, HoldKept
<1>3. Count' = Count
  BY DEF Count, Distance
<1> QED BY <1>2, <1>3, Kept

\* Starting and holding a cycle, and its end, keep the invariant.
LEMMA StartsAndStops ==
  ASSUME PInv, IInv',
         CycleStart \/ FeedHold \/ ResumeIdle \/ UNCHANGED vars
         \/ (CycleStop /\ state = "Cycle")
  PROVE  PInv'
<1>1. /\ PlanTypes(Plan) /\ OtherTypes
      /\ Plan.buffer = blockBuffer /\ Plan.planned = planned /\ Plan.plBlock = plBlock /\ Plan.prep = prep
      /\ control.executeHold => state = "Hold"
  BY PlanTyped DEF PInv
<1>2. control \in ControlTypes /\ Running \in ControlTypes /\ [Running EXCEPT !.executeHold = TRUE] \in ControlTypes
      /\ Running.executeHold = FALSE /\ ~Running.endMotion
      /\ [Running EXCEPT !.executeHold = TRUE].executeHold /\ ~[Running EXCEPT !.executeHold = TRUE].endMotion
      /\ control.executeHold \in BOOLEAN
  BY <1>1 DEF OtherTypes, Running, ControlTypes
<1>3. ASSUME UNCHANGED <<blockBuffer, planned, plBlock, prep>> PROVE Adopt(Plan)
  BY <1>1, <1>3 DEF Adopt
<1>4. CASE CycleStart
  <2>1. /\ control' = Running /\ state' = "Cycle" /\ ~control.executeHold
        /\ UNCHANGED <<blockBuffer, tail, head, planned, prevNominal, override, plBlock, prep, lowered>>
    BY <1>1, <1>4 DEF CycleStart, ring
  <2>2. OtherTypes'
    BY <1>1, <1>2, <2>1 DEF OtherTypes
  <2>3. control'.executeHold = control.executeHold /\ ~control'.endMotion /\ ~control'.executeHold
    BY <1>2, <2>1
  <2> QED BY <1>1, <1>3, <2>1, <2>2, <2>3, HoldStep
<1>5. CASE FeedHold
  <2>1. /\ control' = [Running EXCEPT !.executeHold = TRUE] /\ state' = "Hold" /\ Adopt(UpdateTail(Plan))
        /\ UNCHANGED <<tail, head, prevNominal, override, lowered>>
    BY <1>5 DEF FeedHold
  <2>2. OtherTypes'
    BY <1>1, <1>2, <2>1 DEF OtherTypes
  <2> QED BY <1>1, <1>2, <2>1, <2>2, HoldStep
<1>6. CASE ResumeIdle
  <2>1. /\ control' = Running /\ state' = "Idle" /\ ~control.executeHold
        /\ UNCHANGED <<blockBuffer, tail, head, planned, prevNominal, override, plBlock, prep, lowered>>
    BY <1>6 DEF ResumeIdle, ring
  <2>2. OtherTypes'
    BY <1>1, <1>2, <2>1 DEF OtherTypes
  <2>3. control'.executeHold = control.executeHold /\ ~control'.endMotion /\ ~control'.executeHold
    BY <1>2, <2>1
  <2> QED BY <1>1, <1>3, <2>1, <2>2, <2>3, HoldStep
<1>7. CASE UNCHANGED vars
  <2>1. UNCHANGED <<blockBuffer, tail, head, planned, prevNominal, override, plBlock, prep, lowered,
                    control, state>>
    BY <1>7 DEF vars
  <2>2. OtherTypes'
    BY <1>1, <2>1 DEF OtherTypes
  <2> QED BY <1>1, <1>3, <2>1, <2>2, HoldStep
<1>8. CASE CycleStop /\ state = "Cycle"
  <2>1. /\ UNCHANGED <<blockBuffer, tail, head, planned, prevNominal, override, plBlock, prep, lowered, control>>
        /\ state' = "Idle" /\ ~control.executeHold
    BY <1>1, <1>8 DEF CycleStop, ring
  <2>2. OtherTypes'
    BY <1>1, <2>1 DEF OtherTypes
  <2> QED BY <1>1, <1>3, <2>1, <2>2, HoldStep
<1> QED BY <1>4, <1>5, <1>6, <1>7, <1>8

\* plan_cycle_reinitialize() on a queue that can be replanned from its first block.
Restartable(plan, n, o, pn, c, low) ==
  /\ QueueKept(plan.buffer, tail, n, o, pn)
  /\ Replannable(SpeedsIn(plan, n), LeftsIn(plan, n), LimitsIn(plan, n), n, 0, c.executeHold, low)
  /\ Affords(SpeedsIn(plan, n), LeftsIn(plan, n), n, plan.prep.speed)
  /\ Riding(SpeedsIn(plan, n), LeftsIn(plan, n), NominalSpeed(plan.buffer[tail], o), n,
            UpdateTail(plan).plBlock, UpdateTail(plan).prep, c, low)

\* plan_cycle_reinitialize() keeps the invariant of the speeds.
LEMMA ReinitStep ==
  ASSUME NEW plan, NEW n, NEW o, NEW pn, NEW c, NEW low, NEW new,
         PlanTypes(plan), tail \in Slots, head \in Slots, n = Count, c \in ControlTypes,
         low \in BOOLEAN, Restartable(plan, n, o, pn, c, low), new = Reinitialize(plan)
  PROVE  PlanTypes(new) /\ SpeedInv(new, tail, n, Distance(tail, new.planned), o, pn, c, low)
<1> DEFINE upd == UpdateTail(plan)
           start == [upd EXCEPT !.planned = tail]
           e == SpeedsIn(plan, n)
           l == LeftsIn(plan, n)
           m == LimitsIn(plan, n)
           nom == NominalSpeed(plan.buffer[tail], o)
<1>1. n \in 0 .. N - 1 /\ n \in Nat /\ Distance(tail, tail) = 0 /\ c.executeHold \in BOOLEAN
  BY RingArithmetic, PlannerAssumption DEF Count, ControlTypes
<1>0. /\ QueueKept(plan.buffer, tail, n, o, pn)
      /\ Replannable(e, l, m, n, 0, c.executeHold, low)
      /\ Affords(e, l, n, plan.prep.speed)
      /\ Riding(e, l, nom, n, UpdateTail(plan).plBlock, UpdateTail(plan).prep, c, low)
  BY DEF Restartable
<1>2. OnlySpeeds(plan, upd) /\ ~upd.plBlock /\ SpeedsIn(upd, n) = e
  BY <1>1, UpdateTailSame
<1>3. new = Recalculate(start, head)
  BY DEF Reinitialize
<1> HIDE DEF upd
<1>4. start = [buffer |-> upd.buffer, planned |-> tail, plBlock |-> upd.plBlock, prep |-> upd.prep]
  BY <1>2 DEF OnlySpeeds, PlanTypes
<1>5. start.buffer = upd.buffer /\ start.planned = tail /\ start.plBlock = upd.plBlock /\ start.prep = upd.prep
  BY <1>4
<1> HIDE DEF start
<1>6. PlanTypes(start)
  BY <1>2, <1>4, <1>5 DEF OnlySpeeds, PlanTypes
<1>7. OnlySpeeds(plan, start)
  BY <1>2, <1>5, <1>6 DEF OnlySpeeds
<1>8. SpeedsIn(start, n) = e
  BY <1>2, <1>5 DEF SpeedsIn
<1>9. LeftsIn(start, n) = l /\ LimitsIn(start, n) = m
  BY <1>1, <1>7, SameBlocks
<1>10. QueueKept(start.buffer, tail, n, o, pn)
  BY <1>0, <1>1, <1>7, SameQueue
<1>11. NominalSpeed(start.buffer[tail], o) = nom
  BY <1>7 DEF OnlySpeeds, NominalSpeed
<1>12. start.plBlock = FALSE
  BY <1>2, <1>5, <1>6 DEF PlanTypes
<1>13. start.prep.speed = plan.prep.speed
  BY <1>7 DEF OnlySpeeds, PlanTypes, PrepTypes
<1>14. Riding(e, l, nom, n, start.plBlock, start.prep, c, low)
  BY <1>0, <1>5 DEF upd
<1>15. n = 0 \/ 0 < n
  BY <1>1
<1> HIDE DEF e, l, m, nom
<1>16. Ready(start, n, 0, o, pn, c, low)
  BY <1>0, <1>1, <1>8, <1>9, <1>10, <1>11, <1>12, <1>13, <1>14 DEF Ready, e, l,
     m, nom
<1>17. n = Distance(tail, head) /\ 0 = Distance(tail, start.planned)
  BY <1>1, <1>5 DEF Count
<1> QED BY <1>3, <1>6, <1>15, <1>16, <1>17, ReplanStep

\* The end of a hold replans from rest.
LEMMA HoldEnds ==
  ASSUME PInv, IInv', CycleStop, state = "Hold"
  PROVE  PInv'
<1> DEFINE n == Count
           p == Distance(tail, planned)
           e == SpeedsIn(Plan, n)
           l == LeftsIn(Plan, n)
           m == LimitsIn(Plan, n)
           nom == NominalSpeed(blockBuffer[tail], override)
           c == [control EXCEPT !.executeHold = FALSE]
           new == Reinitialize(Plan)
           u == UpdateTail(Plan).prep
<1>1. /\ PlanTypes(Plan) /\ OtherTypes /\ tail \in Slots /\ head \in Slots /\ n \in 0 .. N - 1 /\ n \in Nat
      /\ Plan.buffer = blockBuffer /\ Plan.planned = planned /\ Plan.plBlock = plBlock /\ Plan.prep = prep
      /\ plBlock => n # 0
      /\ control \in ControlTypes /\ lowered \in BOOLEAN /\ prep \in PrepTypes /\ plBlock \in BOOLEAN
  BY PlanTyped DEF OtherTypes, PlanTypes
<1>2. SpeedInv(Plan, tail, n, p, override, prevNominal, control, lowered)
  BY DEF PInv
<1>3. /\ QueueKept(blockBuffer, tail, n, override, prevNominal)
      /\ PlanKept(e, l, m, n, p, control.executeHold, lowered)
      /\ Affords(e, l, n, prep.speed)
      /\ Riding(e, l, nom, n, plBlock, prep, control, lowered)
  BY <1>1, <1>2 DEF SpeedInv, Speeds, SpeedsIn, LeftsIn, LimitsIn
<1>4. /\ control.executeHold /\ (control.endMotion \/ head = tail) /\ control' = c /\ Adopt(new)
      /\ UNCHANGED <<tail, head, nextHead, prevNominal, override, state, lowered>>
  BY DEF CycleStop
<1>5. c \in ControlTypes /\ c.executeHold = FALSE /\ c.endMotion = control.endMotion
  BY <1>1 DEF ControlTypes
<1>6. Plans(e, l, m, n)
  BY <1>1, <1>3, TypedPlans DEF QueueKept
<1>7. Replannable(e, l, m, n, 0, c.executeHold, lowered)
  <2>1. m \in [0 .. n - 1 -> Nat] /\ \A k \in 1 .. n - 1 : m[k] <= m[k]
    <3>1. m \in [0 .. n - 1 -> Nat]
      BY <1>6 DEF Plans
    <3>2. \A k \in 1 .. n - 1 : k \in 0 .. n - 1
      OBVIOUS
    <3> HIDE DEF m, n
    <3>3. \A k \in 1 .. n - 1 : m[k] \in Nat
      BY <3>1, <3>2
    <3> QED BY <3>1, <3>3
  <2>2. control.executeHold \in BOOLEAN
    BY <1>1 DEF ControlTypes
  <2> HIDE DEF e, l, m, n, p, c
  <2> QED BY <1>1, <1>3, <1>5, <1>6, <2>1, <2>2, FromTheTail
<1>8. plBlock => e[0] = prep.speed
  <2>1. 0 \in 0 .. n
    BY <1>1
  <2> QED BY <1>1, <2>1 DEF SpeedsIn, SpeedsOf
<1>9. IF plBlock THEN u = [prep EXCEPT !.recalculate = TRUE] ELSE u = prep
  <2>1. OnlySpeeds(Plan, UpdateTail(Plan)) /\ ~UpdateTail(Plan).plBlock
    BY <1>1, UpdateTailSame
  <2> QED BY <1>1, <2>1 DEF OnlySpeeds
<1>10. head = tail => n = 0
  BY <1>1, RingArithmetic DEF Count
<1> HIDE DEF n, p, e, l, m, nom, c, new, u
<1>11. Riding(e, l, nom, n, FALSE, u, c, lowered)
  <2>1. u.speed = prep.speed /\ u.exit = prep.exit /\ u.decelOverride = prep.decelOverride
        /\ (plBlock => u.recalculate = TRUE) /\ (~plBlock => u = prep)
    BY <1>1, <1>9 DEF PrepTypes
  <2>2. n = 0 => ~plBlock
    BY <1>1
  <2>3. n # 0 => u.recalculate /\ e[0] = u.speed
    <3>1. CASE plBlock
      BY <1>8, <2>1, <3>1
    <3>2. CASE ~plBlock /\ n # 0
      <4>1. prep.recalculate
        BY <1>3, <1>4, <1>10, <3>2 DEF Riding
      <4>2. e[0] = prep.speed
        BY <1>3, <3>2, <4>1 DEF Riding, Handed
      <4> QED BY <2>1, <3>2, <4>1, <4>2
    <3> QED BY <3>1, <3>2
  <2>4. n # 0 => Handed(e[0], u, c.executeHold)
    BY <2>3 DEF Handed
  <2>5. n = 0 => ~c.endMotion
    BY <1>3, <1>5 DEF Riding
  <2> QED BY <1>3, <2>1, <2>2, <2>3, <2>4, <2>5 DEF Riding
<1>12. PlanTypes(new) /\ SpeedInv(new, tail, n, Distance(tail, new.planned), override, prevNominal, c, lowered)
  <2>1. Restartable(Plan, n, override, prevNominal, c, lowered)
    <3>1. UpdateTail(Plan).plBlock = FALSE
      BY <1>1, UpdateTailSame DEF OnlySpeeds, PlanTypes
    <3> QED BY <1>1, <1>3, <1>7, <1>11, <3>1 DEF e, l, m, nom, u, Restartable
  <2>2. n = Count /\ new = Reinitialize(Plan)
    BY DEF n, new
  <2> QED BY <1>1, <1>5, <2>1, <2>2, ReinitStep
<1>13. OtherTypes' /\ ~control'.executeHold
  BY <1>1, <1>4, <1>5 DEF OtherTypes
<1>14. Count' = n
  BY <1>4 DEF Count, Distance, n
<1> QED BY <1>4, <1>12, <1>13, <1>14, Kept

-----------------------------------------------------------------------------
(* plan_buffer_line().                                                       *)

\* The slots from the tail to the head, in a ring with room for one more block.
LEMMA RoomForOne ==
  ASSUME tail \in Slots, head \in Slots, nextHead = NextIndex(head), tail # nextHead
  PROVE  /\ Ahead(tail, Count) = head /\ Distance(tail, nextHead) = Count + 1 /\ Count + 1 \in 0 .. N - 1
         /\ \A k \in 0 .. Count - 1 : Ahead(tail, k) \in Slots \ {head}
<1>1. Ahead(tail, Count) = head
  BY PlannerAssumption DEF Ahead, Count, Distance, Slots
<1>2. Distance(tail, nextHead) = Count + 1 /\ nextHead \in Slots
  BY RingArithmetic DEF Count
<1>3. Count \in 0 .. N - 1 /\ Count + 1 \in 0 .. N - 1
  BY <1>2, RingArithmetic DEF Count
<1>4. ASSUME NEW k \in 0 .. Count - 1 PROVE Ahead(tail, k) \in Slots \ {head}
  <2>1. k \in 0 .. N - 1 /\ k # Count
    BY <1>3, PlannerAssumption
  <2>2. Ahead(tail, k) \in Slots /\ Distance(tail, Ahead(tail, k)) = k
    BY <2>1, RingArithmetic
  <2> QED BY <2>1, <2>2 DEF Count
<1> QED BY <1>1, <1>2, <1>3, <1>4

\* A block at the head of the queue, planned at rest.
LEMMA BlockAppended ==
  ASSUME PInv, tail # nextHead, NEW b, NEW plan, NEW now,
         b \in Block, b.left # 0, b.entry = 0,
         Count # 0 => b.maxEntry = MaxEntrySpeed(b, override, prevNominal),
         plan = [Plan EXCEPT !.buffer[head] = b],
         now = (lowered /\ Count # 0)
  PROVE  /\ PlanTypes(plan) /\ plan.planned = planned
         /\ Ready(plan, Count + 1, Distance(tail, planned), override, NominalSpeed(b, override), control, now)
<1> DEFINE n == Count
           p == Distance(tail, planned)
           e == SpeedsIn(Plan, n)
           l == LeftsIn(Plan, n)
           m == LimitsIn(Plan, n)
           nom == NominalSpeed(blockBuffer[tail], override)
           B == [blockBuffer EXCEPT ![head] = b]
           g == SpeedsIn(plan, n + 1)
           o == LeftsIn(plan, n + 1)
           u == LimitsIn(plan, n + 1)
<1>1. /\ PlanTypes(Plan) /\ OtherTypes /\ PlannedInsideQueue
      /\ tail \in Slots /\ head \in Slots /\ n \in 0 .. N - 1 /\ n \in Nat /\ p \in Nat
      /\ Plan.buffer = blockBuffer /\ Plan.planned = planned /\ Plan.plBlock = plBlock /\ Plan.prep = prep
      /\ plBlock => n # 0
      /\ n # 0 => p < n
      /\ n = 0 => p = 0
  BY PlanTyped
<1>2. /\ blockBuffer \in [Slots -> Block] /\ planned \in Slots /\ plBlock \in BOOLEAN /\ prep \in PrepTypes
      /\ control \in ControlTypes /\ lowered \in BOOLEAN /\ control.executeHold \in BOOLEAN
  BY <1>1 DEF PlanTypes, OtherTypes, ControlTypes
<1>3. SpeedInv(Plan, tail, n, p, override, prevNominal, control, lowered)
  BY DEF PInv
<1>4. /\ QueueKept(blockBuffer, tail, n, override, prevNominal)
      /\ PlanKept(e, l, m, n, p, control.executeHold, lowered)
      /\ Affords(e, l, n, prep.speed)
      /\ Riding(e, l, nom, n, plBlock, prep, control, lowered)
  BY <1>1, <1>3 DEF SpeedInv, Speeds, SpeedsIn, LeftsIn, LimitsIn
<1>5. /\ Ahead(tail, n) = head /\ n + 1 \in 0 .. N - 1
      /\ \A k \in 0 .. n - 1 : Ahead(tail, k) \in Slots \ {head}
  BY <1>1, RoomForOne DEF PlannedInsideQueue
<1>6. plan = [buffer |-> B, planned |-> planned, plBlock |-> plBlock, prep |-> prep]
  BY DEF Plan
<1>7. plan.buffer = B /\ plan.planned = planned /\ plan.plBlock = plBlock /\ plan.prep = prep
  <2> HIDE DEF B
  <2> QED BY <1>6
<1>8. B \in [Slots -> Block] /\ B[head] = b /\ \A k \in 0 .. n - 1 : B[Ahead(tail, k)] = blockBuffer[Ahead(tail, k)]
  BY <1>1, <1>2, <1>5
<1>9. PlanTypes(plan)
  BY <1>2, <1>6, <1>7, <1>8 DEF PlanTypes
<1> HIDE DEF B
<1>10. \A k \in 0 .. n : k = n \/ k \in 0 .. n - 1
  BY <1>1
<1>11. \A k \in 0 .. n - 1 : k \in 0 .. n /\ k # n
  BY <1>1
<1>12. QueueKept(B, tail, n + 1, override, NominalSpeed(b, override))
  <2>1. (n + 1) - 1 = n
    BY <1>1
  <2>2. \A k \in 0 .. n : B[Ahead(tail, k)].left # 0
    <3>1. \A k \in 0 .. n - 1 : blockBuffer[Ahead(tail, k)].left # 0
      BY <1>4 DEF QueueKept
    <3> HIDE DEF n
    <3> QED BY <1>5, <1>8, <1>10, <3>1
  <2>3. ASSUME NEW k \in 1 .. n
        PROVE  B[Ahead(tail, k)].maxEntry =
                 MaxEntrySpeed(B[Ahead(tail, k)], override, NominalSpeed(B[Ahead(tail, k - 1)], override))
    <3>1. k \in 1 .. n - 1 \/ (k = n /\ n # 0)
      BY <1>1
    <3>2. PICK j : j = k - 1
      OBVIOUS
    <3>3. j \in 0 .. n - 1
      BY <1>1, <3>2
    <3>4. CASE k \in 1 .. n - 1
      <4>1. k \in 0 .. n - 1
        BY <3>4
      <4>2. blockBuffer[Ahead(tail, k)].maxEntry = MaxEntrySpeed(blockBuffer[Ahead(tail, k)], override,
                                                       NominalSpeed(blockBuffer[Ahead(tail, j)], override))
        BY <1>4, <3>2, <3>4 DEF QueueKept
      <4> HIDE DEF n
      <4> QED BY <1>8, <3>2, <3>3, <4>1, <4>2
    <3>5. CASE k = n /\ n # 0
      <4>1. prevNominal = NominalSpeed(blockBuffer[Ahead(tail, j)], override)
        BY <1>4, <3>2, <3>5 DEF QueueKept
      <4> HIDE DEF n
      <4>2. B[Ahead(tail, j)] = blockBuffer[Ahead(tail, j)]
        BY <1>8, <3>3
      <4>3. b.maxEntry = MaxEntrySpeed(b, override, prevNominal)
        BY <3>5 DEF n
      <4> QED BY <1>5, <1>8, <3>2, <3>5, <4>1, <4>2, <4>3
    <3> QED BY <3>1, <3>4, <3>5
  <2> HIDE DEF n
  <2> QED BY <1>5, <1>8, <2>1, <2>2, <2>3 DEF QueueKept
<1>13. Plans(e, l, m, n)
  BY <1>1, <1>4, TypedPlans DEF QueueKept
<1>14. Plans(g, o, u, n + 1)
  <2>1. \A k \in 0 .. (n + 1) - 1 : plan.buffer[Ahead(tail, k)].left # 0
    BY <1>7, <1>12 DEF QueueKept
  <2> QED BY <1>1, <1>5, <1>9, <2>1, TypedPlans
<1>15. \A k \in 0 .. n : g[k] = e[k]
  <2> SUFFICES ASSUME NEW k \in 0 .. n PROVE g[k] = e[k]
    OBVIOUS
  <2>1. k \in 0 .. n + 1 /\ k # n + 1
    BY <1>1
  <2>2. g[k] = IF k = 0 /\ plBlock THEN prep.speed ELSE B[Ahead(tail, k)].entry
    <3>1. g = SpeedsOf(B, tail, plBlock, prep.speed, n + 1)
      BY <1>7 DEF SpeedsIn
    <3> HIDE DEF g, n
    <3> QED BY <2>1, <3>1 DEF SpeedsOf
  <2>3. e[k] = IF k = n THEN 0 ELSE IF k = 0 /\ plBlock THEN prep.speed ELSE blockBuffer[Ahead(tail, k)].entry
    <3>1. e = SpeedsOf(blockBuffer, tail, plBlock, prep.speed, n)
      BY <1>1 DEF SpeedsIn
    <3> HIDE DEF e, n
    <3> QED BY <3>1 DEF SpeedsOf
  <2> HIDE DEF g, e, n
  <2> QED BY <1>1, <1>5, <1>8, <1>10, <2>2, <2>3
<1>16. \A k \in 0 .. n - 1 : o[k] = l[k] /\ u[k] = m[k]
  <2> SUFFICES ASSUME NEW k \in 0 .. n - 1 PROVE o[k] = l[k] /\ u[k] = m[k]
    OBVIOUS
  <2>1. k \in 0 .. (n + 1) - 1
    BY <1>1
  <2>2. o[k] = B[Ahead(tail, k)].left /\ u[k] = B[Ahead(tail, k)].maxEntry
    BY <1>7, <2>1 DEF LeftsIn, LimitsIn, LeftsOf, LimitsOf
  <2>3. l[k] = blockBuffer[Ahead(tail, k)].left /\ m[k] = blockBuffer[Ahead(tail, k)].maxEntry
    BY <1>1 DEF LeftsIn, LimitsIn, LeftsOf, LimitsOf
  <2> HIDE DEF o, u, l, m, n
  <2> QED BY <1>8, <2>2, <2>3
<1>17. Ahead(tail, 0) = tail
  BY <1>1, PlannerAssumption DEF Ahead, Slots
<1>18. n # 0 => B[tail] = blockBuffer[tail]
  <2>1. n # 0 => 0 \in 0 .. n - 1
    BY <1>1
  <2> HIDE DEF n
  <2> QED BY <1>8, <1>17, <2>1
<1>19. now \in BOOLEAN /\ (~now => ~lowered \/ n = 0) /\ (n # 0 => now = lowered) /\ (n = 0 => now = FALSE)
  BY <1>2
<1>20. PICK r : Remaining(r, l, n) /\ Stoppable(e, r, n) /\ prep.speed <= r[0]
  BY <1>4 DEF Affords
<1> HIDE DEF e, l, m, g, o, u, nom, n, p
<1>21. Replannable(g, o, u, n + 1, p, control.executeHold, now)
       /\ \E t : Remaining(t, o, n + 1) /\ Stoppable(g, t, n + 1) /\ r[0] <= t[0]
  BY <1>1, <1>2, <1>4, <1>13, <1>14, <1>15, <1>16, <1>19, <1>20, Appended
<1>22. Affords(g, o, n + 1, prep.speed)
  <2>1. PICK t : Remaining(t, o, n + 1) /\ Stoppable(g, t, n + 1) /\ r[0] <= t[0]
    BY <1>21
  <2>2. prep.speed \in Nat /\ r[0] \in Nat /\ t[0] \in Nat
    <3>1. 0 \in 0 .. n /\ 0 \in 0 .. n + 1
      BY <1>1
    <3> QED BY <1>2, <1>20, <2>1, <3>1 DEF PrepTypes, Remaining
  <2>3. prep.speed <= t[0]
    BY <1>20, <2>1, <2>2
  <2> QED BY <2>1, <2>3 DEF Affords
<1>23. Riding(g, o, NominalSpeed(B[tail], override), n + 1, plBlock, prep, control, now)
  <2>1. n + 1 # 0 /\ 0 \in 0 .. n
    BY <1>1
  <2>2. g[0] = e[0]
    BY <1>15, <2>1
  <2>3. CASE n # 0
    <3>1. 1 \in 0 .. n /\ 0 \in 0 .. n - 1
      BY <1>1, <2>3
    <3>2. g[1] = e[1] /\ o[0] = l[0]
      BY <1>15, <1>16, <3>1
    <3>3. NominalSpeed(B[tail], override) = nom
      BY <1>18, <2>3 DEF nom
    <3> QED BY <1>4, <1>19, <2>1, <2>2, <2>3, <3>2, <3>3 DEF Riding
  <2>4. CASE n = 0
    <3>1. e[0] = 0
      BY <1>13, <2>4 DEF Plans
    <3>2. prep.speed = 0 /\ prep.exit = 0 /\ prep.decelOverride = FALSE /\ prep.recalculate = FALSE
          /\ ~control.endMotion /\ plBlock = FALSE
      BY <1>1, <1>2, <1>4, <2>4 DEF Riding, PrepTypes
    <3>3. B[tail] = b /\ B[tail] \in Block
      BY <1>1, <1>5, <1>8, <1>17, <2>4
    <3>4. NominalSpeed(B[tail], override) \in Nat
      BY <1>1, <3>3, PlannerAssumption DEF NominalSpeed, Block, OtherTypes
    <3>5. g[0] <= NominalSpeed(B[tail], override) /\ prep.speed <= g[0]
      BY <2>2, <3>1, <3>2, <3>4
    <3>6. Handed(g[0], prep, control.executeHold)
      BY <2>2, <3>1, <3>2 DEF Handed
    <3> QED BY <2>1, <3>2, <3>5, <3>6 DEF Riding
  <2> QED BY <2>3, <2>4
<1>24. plBlock => n + 1 # 0
  BY <1>1
<1>25. Ready(plan, n + 1, p, override, NominalSpeed(b, override), control, now)
  BY <1>7, <1>12, <1>21, <1>22, <1>23, <1>24 DEF Ready, g, o, u
<1> QED BY <1>7, <1>9, <1>25 DEF n, p

\* plan_buffer_line() keeps the invariant.
LEMMA LineBuffered ==
  ASSUME PInv, IInv', NEW s \in Shapes, BufferLine(s)
  PROVE  PInv'
<1> DEFINE n == Count
           p == Distance(tail, planned)
           fresh == [shape |-> s, junction |-> IF head = tail THEN 0 ELSE s.junction,
                     left |-> s.length, entry |-> 0, maxEntry |-> 0]
           v == MaxEntrySpeed(fresh, override, prevNominal)
           b == [fresh EXCEPT !.maxEntry = v]
           plan == [Plan EXCEPT !.buffer[head] = b]
           new == Recalculate(plan, nextHead)
           now == lowered /\ Count # 0
           pn == NominalSpeed(b, override)
<1>1. /\ OtherTypes /\ PlannedInsideQueue
      /\ tail \in Slots /\ head \in Slots /\ nextHead \in Slots /\ n \in 0 .. N - 1 /\ p \in Nat
      /\ n # 0 => p < n
      /\ n = 0 => p = 0
  BY PlanTyped
<1>2. /\ tail # nextHead /\ Adopt(new) /\ prevNominal' = pn /\ head' = nextHead
      /\ lowered' = (lowered /\ head # tail)
      /\ UNCHANGED <<tail, override, control, state>>
  BY DEF BufferLine, Full
<1>3. n = 0 <=> head = tail
  BY <1>1, RingArithmetic DEF Count
<1>4. Distance(tail, nextHead) = n + 1
  BY <1>1, <1>2, RoomForOne DEF PlannedInsideQueue
<1>5. /\ s.length \in Nat \ {0} /\ s.junction \in Nat /\ s.nominal \in [Overrides -> Nat \ {0}]
      /\ override \in Overrides /\ prevNominal \in Nat
  BY <1>1, PlannerAssumption DEF OtherTypes
<1>6. /\ NominalSpeed(fresh, override) \in Nat /\ fresh.junction \in Nat /\ pn = NominalSpeed(fresh, override)
      /\ b = [shape |-> s, junction |-> fresh.junction, left |-> s.length, entry |-> 0, maxEntry |-> v]
  BY <1>5 DEF NominalSpeed
<1> HIDE DEF fresh
<1>7. v \in Nat
  BY <1>5, <1>6 DEF MaxEntrySpeed, Lower
<1> HIDE DEF v
<1>8. b.shape = s /\ b.junction = fresh.junction /\ b.left = s.length /\ b.entry = 0 /\ b.maxEntry = v /\ fresh.shape = s
  BY <1>6 DEF fresh
<1>9. v = MaxEntrySpeed(b, override, prevNominal)
  BY <1>8 DEF v, MaxEntrySpeed, NominalSpeed
<1>10. b \in Block
  BY <1>5, <1>6, <1>7 DEF Block
<1> HIDE DEF b, plan, new, pn, now
<1>11. now \in BOOLEAN /\ lowered' = now /\ control \in ControlTypes /\ control' = control /\ pn \in Nat
  BY <1>1, <1>2, <1>3, <1>6 DEF now, OtherTypes
<1>12. PlanTypes(plan) /\ plan.planned = planned /\ Ready(plan, n + 1, p, override, pn, control, now)
  <2>1. b.left # 0 /\ b.entry = 0 /\ b.maxEntry = MaxEntrySpeed(b, override, prevNominal)
    BY <1>5, <1>8, <1>9
  <2>2. pn = NominalSpeed(b, override) /\ plan = [Plan EXCEPT !.buffer[head] = b] /\ now = (lowered /\ Count # 0)
    BY DEF pn, plan, now
  <2> QED BY <1>2, <1>10, <2>1, <2>2, BlockAppended
<1>13. PlanTypes(new) /\ SpeedInv(new, tail, n + 1, Distance(tail, new.planned), override, pn, control, now)
  <2>1. p = Distance(tail, plan.planned)
    BY <1>12
  <2>2. p < n + 1
    BY <1>1
  <2>3. new = Recalculate(plan, nextHead)
    BY DEF new
  <2>4. n + 1 = Distance(tail, nextHead) /\ nextHead \in Slots /\ tail \in Slots /\ control \in ControlTypes
        /\ now \in BOOLEAN
    BY <1>1, <1>4, <1>11
  <2> HIDE DEF n, p
  <2> QED BY <1>12, <2>1, <2>2, <2>3, <2>4, ReplanStep
<1>14. n + 1 = Count'
  BY <1>2, <1>4 DEF Count, Distance
<1>15. OtherTypes' /\ (control.executeHold => state = "Hold")'
  BY <1>1, <1>2, <1>11 DEF OtherTypes, PInv
<1> HIDE DEF n, p
<1> QED BY <1>2, <1>11, <1>13, <1>14, <1>15, Kept

-----------------------------------------------------------------------------
(* The feed override.                                                        *)

\* Every queued block with the limit another override gives it.
Limited(plan, buffer, n, o) ==
  /\ plan = [buffer |-> plan.buffer, planned |-> planned, plBlock |-> plBlock, prep |-> prep]
  /\ plan.buffer \in [Slots -> Block]
  /\ \A k \in 0 .. n - 1 :
       /\ plan.buffer[Ahead(tail, k)].shape = buffer[Ahead(tail, k)].shape
       /\ plan.buffer[Ahead(tail, k)].junction = buffer[Ahead(tail, k)].junction
       /\ plan.buffer[Ahead(tail, k)].left = buffer[Ahead(tail, k)].left
       /\ plan.buffer[Ahead(tail, k)].entry = buffer[Ahead(tail, k)].entry
  /\ \A k \in 1 .. n - 1 :
       plan.buffer[Ahead(tail, k)].maxEntry =
         MaxEntrySpeed(buffer[Ahead(tail, k)], o, NominalSpeed(buffer[Ahead(tail, k - 1)], o))

\* An override that does not lower a limit leaves a queue that can be replanned; after one that does, the
\* plan is marked as lowered.
LEMMA LimitsRaised ==
  ASSUME PInv, NEW plan, NEW o, NEW pn, NEW now, o \in Overrides, now \in BOOLEAN, Count # 0,
         Limited(plan, blockBuffer, Count, o),
         pn = NominalSpeed(blockBuffer[Ahead(tail, Count - 1)], o),
         ~now => /\ ~lowered
                 /\ \A k \in 0 .. Count - 1 : NominalSpeed(blockBuffer[Ahead(tail, k)], override)
                                              <= NominalSpeed(blockBuffer[Ahead(tail, k)], o)
  PROVE  PlanTypes(plan) /\ Restartable(plan, Count, o, pn, control, now)
<1> DEFINE n == Count
           p == Distance(tail, planned)
           e == SpeedsIn(Plan, n)
           l == LeftsIn(Plan, n)
           m == LimitsIn(Plan, n)
           u == LimitsIn(plan, n)
           B == blockBuffer
           L == plan.buffer
           nom == NominalSpeed(B[tail], override)
           new == NominalSpeed(L[tail], o)
           A(k) == Ahead(tail, k)
           q == UpdateTail(plan).prep
<1>1. /\ PlanTypes(Plan) /\ OtherTypes /\ PlannedInsideQueue
      /\ tail \in Slots /\ head \in Slots /\ n \in 0 .. N - 1 /\ n \in Nat /\ p \in Nat
      /\ Plan.buffer = B /\ Plan.planned = planned /\ Plan.plBlock = plBlock /\ Plan.prep = prep
      /\ plBlock => n # 0
  BY PlanTyped
<1>2. /\ B \in [Slots -> Block] /\ planned \in Slots /\ plBlock \in BOOLEAN /\ prep \in PrepTypes
      /\ control \in ControlTypes /\ lowered \in BOOLEAN /\ control.executeHold \in BOOLEAN
  BY <1>1 DEF PlanTypes, OtherTypes, ControlTypes
<1>3. SpeedInv(Plan, tail, n, p, override, prevNominal, control, lowered)
  BY DEF PInv
<1>4. /\ QueueKept(B, tail, n, override, prevNominal)
      /\ PlanKept(e, l, m, n, p, control.executeHold, lowered)
      /\ Affords(e, l, n, prep.speed)
      /\ Riding(e, l, nom, n, plBlock, prep, control, lowered)
  BY <1>1, <1>3 DEF SpeedInv, Speeds, SpeedsIn, LeftsIn, LimitsIn
<1>5. /\ plan = [buffer |-> L, planned |-> planned, plBlock |-> plBlock, prep |-> prep]
      /\ L \in [Slots -> Block]
  BY DEF Limited
<1>6. \A k \in 0 .. n - 1 : /\ L[A(k)].shape = B[A(k)].shape /\ L[A(k)].junction = B[A(k)].junction
                            /\ L[A(k)].left = B[A(k)].left /\ L[A(k)].entry = B[A(k)].entry
  BY DEF Limited
<1>7. \A k \in 1 .. n - 1 : L[A(k)].maxEntry = MaxEntrySpeed(B[A(k)], o, NominalSpeed(B[A(k - 1)], o))
  BY DEF Limited
<1> HIDE DEF L
<1>8. plan.buffer = L /\ plan.planned = planned /\ plan.plBlock = plBlock /\ plan.prep = prep
  BY <1>5
<1>9. PlanTypes(plan)
  BY <1>2, <1>5, <1>8 DEF PlanTypes
<1>10. \A k \in 1 .. n - 1 : k \in 0 .. n - 1 /\ k - 1 \in 0 .. n - 1
  <2> HIDE DEF n
  <2> QED BY <1>1
<1>11. A(0) = tail /\ 0 \in 0 .. n - 1 /\ 0 \in 0 .. n /\ n - 1 \in 0 .. n - 1
  BY <1>1, PlannerAssumption DEF Ahead, Slots
<1>12. \A k \in 0 .. n - 1 : A(k) \in Slots
  <2>1. \A k \in 0 .. n - 1 : k \in 0 .. N - 1
    BY <1>1, PlannerAssumption
  <2> QED BY <2>1, <1>1, RingArithmetic
<1> HIDE DEF A
<1>13. QueueKept(L, tail, n, o, pn)
  <2>1. \A k \in 0 .. n - 1 : L[A(k)].left # 0
    BY <1>4, <1>6 DEF QueueKept, A
  <2>2. \A k \in 0 .. n - 1 : NominalSpeed(L[A(k)], o) = NominalSpeed(B[A(k)], o)
    BY <1>6 DEF NominalSpeed
  <2>3. \A k \in 1 .. n - 1 : L[A(k)].maxEntry = MaxEntrySpeed(L[A(k)], o, NominalSpeed(L[A(k - 1)], o))
    <3> HIDE DEF n
    <3> QED BY <1>6, <1>7, <1>10, <2>2 DEF MaxEntrySpeed
  <2>4. pn = NominalSpeed(L[A(n - 1)], o)
    BY <1>11, <2>2 DEF A
  <2> QED BY <2>1, <2>3, <2>4 DEF QueueKept, A
<1>14. SpeedsIn(plan, n) = e
  <2>1. \A k \in 0 .. n : k = n \/ k \in 0 .. n - 1
    BY <1>1
  <2>2. \A k \in 0 .. n - 1 : L[Ahead(tail, k)].entry = B[Ahead(tail, k)].entry
    BY <1>6 DEF A
  <2>3. SpeedsIn(plan, n) = SpeedsOf(L, tail, plBlock, prep.speed, n) /\ e = SpeedsOf(B, tail, plBlock, prep.speed, n)
    BY <1>1, <1>8 DEF SpeedsIn
  <2>4. SpeedsOf(L, tail, plBlock, prep.speed, n) = SpeedsOf(B, tail, plBlock, prep.speed, n)
    <3> HIDE DEF n, B
    <3> QED BY <2>1, <2>2 DEF SpeedsOf
  <2> QED BY <2>3, <2>4
<1>15. LeftsIn(plan, n) = l
  <2>1. \A k \in 0 .. n - 1 : L[Ahead(tail, k)].left = B[Ahead(tail, k)].left
    BY <1>6 DEF A
  <2> HIDE DEF n
  <2> QED BY <1>1, <1>8, <2>1 DEF LeftsIn, LeftsOf
<1>16. ~now => nom <= new
  <2>1. new = NominalSpeed(B[A(0)], o)
    BY <1>6, <1>11 DEF NominalSpeed
  <2> QED BY <1>11, <2>1 DEF A
<1>17. ~now => ~lowered /\ \A k \in 1 .. n - 1 : m[k] <= u[k]
  <2> SUFFICES ASSUME ~now, NEW k \in 1 .. n - 1 PROVE ~lowered /\ m[k] <= u[k]
    OBVIOUS
  <2>1. PICK j : j = k - 1
    OBVIOUS
  <2>2. k \in 0 .. n - 1 /\ j \in 0 .. n - 1
    BY <1>10, <2>1
  <2>3. m[k] = B[A(k)].maxEntry /\ u[k] = L[A(k)].maxEntry
    BY <1>1, <1>8, <2>2 DEF LimitsIn, LimitsOf, A
  <2>4. B[A(k)].maxEntry = MaxEntrySpeed(B[A(k)], override, NominalSpeed(B[A(j)], override))
    BY <1>4, <2>1 DEF QueueKept, A
  <2>5. L[A(k)].maxEntry = MaxEntrySpeed(B[A(k)], o, NominalSpeed(B[A(j)], o))
    BY <1>7, <2>1
  <2>6. /\ NominalSpeed(B[A(k)], override) <= NominalSpeed(B[A(k)], o)
        /\ NominalSpeed(B[A(j)], override) <= NominalSpeed(B[A(j)], o)
    BY <2>2 DEF A
  <2>7. /\ NominalSpeed(B[A(k)], override) \in Nat /\ NominalSpeed(B[A(k)], o) \in Nat
        /\ NominalSpeed(B[A(j)], override) \in Nat /\ NominalSpeed(B[A(j)], o) \in Nat
        /\ B[A(k)].junction \in Nat
    <3>1. B[A(k)] \in Block /\ B[A(j)] \in Block /\ override \in Overrides
      BY <1>1, <1>2, <1>12, <2>2 DEF OtherTypes
    <3> HIDE DEF B
    <3> QED BY <3>1, PlannerAssumption DEF Block, NominalSpeed
  <2>8. \A a1, b1, c1, d1, x \in Nat : a1 <= b1 /\ c1 <= d1 => Lower(x, Lower(a1, c1)) <= Lower(x, Lower(b1, d1))
    BY DEF Lower
  <2> QED BY <2>3, <2>4, <2>5, <2>6, <2>7, <2>8 DEF MaxEntrySpeed
<1>18. u \in [0 .. n - 1 -> Nat]
  <2>1. \A k \in 0 .. n - 1 : L[A(k)].maxEntry \in Nat
    <3>1. \A k \in 0 .. n - 1 : L[A(k)] \in Block
      BY <1>5, <1>12
    <3> QED BY <3>1 DEF Block
  <2> HIDE DEF n
  <2> QED BY <1>8, <2>1 DEF LimitsIn, LimitsOf, A
<1>19. Plans(e, l, m, n)
  BY <1>1, <1>4, TypedPlans DEF QueueKept
<1> HIDE DEF e, l, m, u, n, p, nom, new
<1>20. Replannable(e, l, u, n, 0, control.executeHold, now)
  BY <1>1, <1>2, <1>4, <1>17, <1>18, <1>19, FromTheTail
<1>21. plBlock => e[0] = prep.speed
  BY <1>1, <1>11 DEF SpeedsIn, SpeedsOf, e
<1>22. UpdateTail(plan).plBlock = FALSE /\ (IF plBlock THEN q = [prep EXCEPT !.recalculate = TRUE] ELSE q = prep)
  <2>1. OnlySpeeds(plan, UpdateTail(plan)) /\ ~UpdateTail(plan).plBlock
    BY <1>1, <1>9, UpdateTailSame
  <2> QED BY <1>2, <1>8, <2>1 DEF OnlySpeeds, PlanTypes
<1> HIDE DEF q
<1>23. Riding(e, l, new, n, FALSE, q, control, now)
  <2>1. q.speed = prep.speed /\ q.exit = prep.exit /\ q.decelOverride = prep.decelOverride
        /\ (plBlock => q.recalculate = TRUE) /\ (~plBlock => q = prep)
    BY <1>2, <1>22 DEF PrepTypes
  <2>2. n # 0
    BY DEF n
  <2>3. Handed(e[0], q, control.executeHold)
    <3>1. CASE plBlock
      BY <1>21, <2>1, <3>1 DEF Handed
    <3>2. CASE ~plBlock
      BY <1>4, <2>1, <2>2, <3>2 DEF Riding
    <3> QED BY <3>1, <3>2
  <2>4. control.endMotion => q.recalculate
    BY <1>4, <2>1, <2>2 DEF Riding
  <2>5. ~now => ~q.decelOverride /\ e[0] <= new /\ q.speed <= e[0]
    <3>1. ~now => ~q.decelOverride /\ e[0] <= nom /\ q.speed <= e[0]
      BY <1>4, <1>17, <2>1, <2>2, <1>1 DEF Riding
    <3>2. e[0] \in Nat /\ nom \in Nat /\ new \in Nat
      <4>1. e[0] \in Nat
        BY <1>11, <1>19 DEF Plans
      <4>2. B[tail] \in Block /\ L[tail] \in Block /\ override \in Overrides
        BY <1>1, <1>2, <1>5 DEF OtherTypes
      <4> HIDE DEF B
      <4> QED BY <4>1, <4>2, PlannerAssumption DEF nom, new, NominalSpeed, Block
    <3> QED BY <1>16, <3>1, <3>2
  <2> QED BY <2>2, <2>3, <2>4, <2>5 DEF Riding
<1>24. Affords(e, l, n, plan.prep.speed)
  BY <1>4, <1>8
<1> QED BY <1>8, <1>9, <1>13, <1>14, <1>15, <1>20, <1>22, <1>23, <1>24 DEF
           Restartable, q, n, u, new

\* plan_update_velocity_profile_parameters() and the replanning after it keep the invariant.
LEMMA OverrideFed ==
  ASSUME PInv, IInv', NEW o \in Overrides, FeedOverride(o)
  PROVE  PInv'
<1> DEFINE n == Count
           p == Distance(tail, planned)
           nominalBefore(k) == IF k = 0 THEN FarSpeed ELSE NominalSpeed(Queued(k - 1), o)
           limited == [s \in Slots |->
                        LET k == Distance(tail, s)
                        IN IF k < Count
                           THEN [blockBuffer[s] EXCEPT
                                   !.maxEntry = MaxEntrySpeed(blockBuffer[s], o, nominalBefore(k))]
                           ELSE blockBuffer[s]]
           plan == [Plan EXCEPT !.buffer = limited]
           new == Reinitialize(plan)
           now == lowered \/ \E k \in 0 .. Count - 1 :
                                NominalSpeed(Queued(k), o) < NominalSpeed(Queued(k), override)
           pn == nominalBefore(n)
<1>1. /\ PlanTypes(Plan) /\ OtherTypes
      /\ tail \in Slots /\ head \in Slots /\ n \in 0 .. N - 1 /\ n \in Nat /\ p \in Nat
      /\ Plan.buffer = blockBuffer /\ Plan.planned = planned /\ Plan.plBlock = plBlock /\ Plan.prep = prep
      /\ n = 0 => p = 0
  BY PlanTyped
<1>2. /\ override' = o /\ prevNominal' = pn /\ lowered' = now
      /\ IF head = tail THEN UNCHANGED <<blockBuffer, planned, plBlock, prep>> ELSE Adopt(new)
      /\ UNCHANGED <<tail, head, nextHead, control, state>>
  BY DEF FeedOverride
<1>3. n = 0 <=> head = tail
  BY <1>1, RingArithmetic DEF Count
<1>4. blockBuffer \in [Slots -> Block] /\ control \in ControlTypes /\ lowered \in BOOLEAN
      /\ now \in BOOLEAN /\ override \in Overrides
  BY <1>1 DEF PlanTypes, OtherTypes
<1>5. \A k \in 0 .. n - 1 : Ahead(tail, k) \in Slots /\ Distance(tail, Ahead(tail, k)) = k
  <2>1. \A k \in 0 .. n - 1 : k \in 0 .. N - 1
    BY <1>1, PlannerAssumption
  <2> QED BY <1>1, <2>1, RingArithmetic
<1>6. \A s \in Slots, x \in Overrides : NominalSpeed(blockBuffer[s], x) \in Nat
  BY <1>4, PlannerAssumption DEF NominalSpeed, Block
<1>7. \A k \in 0 .. n - 1 : NominalSpeed(blockBuffer[Ahead(tail, k)], o) \in Nat
                           /\ NominalSpeed(blockBuffer[Ahead(tail, k)], override) \in Nat
  BY <1>4, <1>5, <1>6
<1>8. \A k \in 0 .. n - 1 : Queued(k) = blockBuffer[Ahead(tail, k)]
  BY DEF Queued, Slot
<1>9. n # 0 => n - 1 \in 0 .. n - 1
  <2> HIDE DEF n
  <2> QED BY <1>1
<1>10. pn \in Nat /\ (n # 0 => pn = NominalSpeed(blockBuffer[Ahead(tail, n - 1)], o))
  <2>1. CASE n = 0
    BY <2>1, PlannerAssumption
  <2>2. CASE n # 0
    BY <1>7, <1>8, <1>9, <2>2
  <2> QED BY <2>1, <2>2
<1>11. OtherTypes' /\ (control.executeHold => state = "Hold")' /\ Count' = n
  BY <1>1, <1>2, <1>4, <1>10 DEF OtherTypes, PInv, Count, Distance
<1>12. CASE head = tail
  <2>1. Adopt(Plan)
    BY <1>1, <1>2, <1>12 DEF Adopt
  <2>2. SpeedInv(Plan, tail, n, p, override, prevNominal, control, lowered)
    BY DEF PInv
  <2>3. n = 0 /\ now = lowered
    <3>1. n = 0 /\ \A k \in 0 .. 0 - 1 : FALSE
      BY <1>3, <1>12
    <3> QED BY <1>4, <3>1
  <2>4. n = 0 => ~plBlock
    BY PlanTyped
  <2> HIDE DEF now, pn, n
  <2>5. QueueKept(blockBuffer, tail, n, o, pn)
    <3>1. \A k \in 0 .. 0 - 1 : FALSE
      OBVIOUS
    <3>2. \A k \in 1 .. 0 - 1 : FALSE
      OBVIOUS
    <3> QED BY <2>3, <3>1, <3>2 DEF QueueKept
  <2>6. Riding(Speeds(Plan, tail, n), LeftsOf(Plan.buffer, tail, n), NominalSpeed(Plan.buffer[tail], o), n,
               Plan.plBlock, Plan.prep, control, now)
    <3>1. Riding(Speeds(Plan, tail, n), LeftsOf(Plan.buffer, tail, n), NominalSpeed(Plan.buffer[tail], override), n,
                 Plan.plBlock, Plan.prep, control, lowered)
      BY <2>2 DEF SpeedInv
    <3> QED BY <1>1, <2>3, <2>4, <3>1 DEF Riding
  <2>7. SpeedInv(Plan, tail, n, p, o, pn, control, now)
    BY <1>1, <2>2, <2>3, <2>5, <2>6 DEF SpeedInv
  <2>8. p = Distance(tail, Plan.planned)
    BY <1>1
  <2> QED BY <1>1, <1>2, <1>11, <2>1, <2>7, <2>8, Kept
<1>13. CASE head # tail
  <2>1. n # 0
    BY <1>3, <1>13
  <2>2. Limited(plan, blockBuffer, n, o)
    <3>1. plan = [buffer |-> limited, planned |-> planned, plBlock |-> plBlock, prep |-> prep]
      <4> HIDE DEF limited
      <4> QED BY DEF Plan
    <3>2. plan.buffer = limited
      <4> HIDE DEF limited
      <4> QED BY <3>1
    <3>3. \A s \in Slots : nominalBefore(Distance(tail, s)) \in Nat \/ ~(Distance(tail, s) < n)
      <4> SUFFICES ASSUME NEW s \in Slots, Distance(tail, s) < n, Distance(tail, s) # 0
                   PROVE  NominalSpeed(Queued(Distance(tail, s) - 1), o) \in Nat
        BY PlannerAssumption
      <4>1. PICK k : k = Distance(tail, s) - 1
        OBVIOUS
      <4>2. k \in 0 .. n - 1
        <5>1. Distance(tail, s) \in 0 .. N - 1
          BY <1>1, RingArithmetic
        <5> HIDE DEF n
        <5> QED BY <1>1, <4>1, <5>1, PlannerAssumption
      <4> QED BY <1>7, <1>8, <4>1, <4>2
    <3>4. limited \in [Slots -> Block]
      <4> SUFFICES ASSUME NEW s \in Slots PROVE limited[s] \in Block
        OBVIOUS
      <4> DEFINE mx == MaxEntrySpeed(blockBuffer[s], o, nominalBefore(Distance(tail, s)))
      <4>1. blockBuffer[s] \in Block /\ blockBuffer[s].junction \in Nat
        BY <1>4 DEF Block
      <4>2. CASE Distance(tail, s) < n
        <5>1. nominalBefore(Distance(tail, s)) \in Nat /\ NominalSpeed(blockBuffer[s], o) \in Nat
          BY <1>6, <3>3, <4>2
        <5>2. mx \in Nat
          <6> HIDE DEF nominalBefore
          <6> QED BY <4>1, <5>1 DEF MaxEntrySpeed, Lower
        <5>3. limited[s] = [blockBuffer[s] EXCEPT !.maxEntry = mx]
          BY <4>2
        <5> HIDE DEF mx, limited
        <5> QED BY <4>1, <5>2, <5>3 DEF Block
      <4>3. CASE ~(Distance(tail, s) < n)
        BY <4>1, <4>3
      <4> QED BY <4>2, <4>3
    <3>5. \A k \in 0 .. n - 1 : k < n
      <4> HIDE DEF n
      <4> QED BY <1>1
    <3>6. ASSUME NEW k \in 0 .. n - 1
          PROVE  limited[Ahead(tail, k)] =
                   [blockBuffer[Ahead(tail, k)] EXCEPT
                      !.maxEntry = MaxEntrySpeed(blockBuffer[Ahead(tail, k)], o, nominalBefore(k))]
      <4>1. PICK s \in Slots : s = Ahead(tail, k) /\ Distance(tail, s) = k
        BY <1>5
      <4>2. k < n
        BY <3>5
      <4> QED BY <4>1, <4>2
    <3>7. ASSUME NEW k \in 1 .. n - 1
          PROVE  k \in 0 .. n - 1 /\ nominalBefore(k) = NominalSpeed(blockBuffer[Ahead(tail, k - 1)], o)
      <4>1. k \in 0 .. n - 1 /\ k - 1 \in 0 .. n - 1 /\ k # 0
        <5> HIDE DEF n
        <5> QED BY <1>1
      <4> QED BY <1>8, <4>1
    <3> HIDE DEF limited, plan, nominalBefore, n
    <3>8. \A k \in 0 .. n - 1 : LET s == Ahead(tail, k) IN
            /\ limited[s].shape = blockBuffer[s].shape /\ limited[s].junction = blockBuffer[s].junction
            /\ limited[s].left = blockBuffer[s].left /\ limited[s].entry = blockBuffer[s].entry
            /\ limited[s].maxEntry = MaxEntrySpeed(blockBuffer[s], o, nominalBefore(k))
      <4> SUFFICES ASSUME NEW k \in 0 .. n - 1, NEW s, s = Ahead(tail, k)
                   PROVE  /\ limited[s].shape = blockBuffer[s].shape /\ limited[s].junction = blockBuffer[s].junction
                          /\ limited[s].left = blockBuffer[s].left /\ limited[s].entry = blockBuffer[s].entry
                          /\ limited[s].maxEntry = MaxEntrySpeed(blockBuffer[s], o, nominalBefore(k))
        OBVIOUS
      <4>1. s \in Slots /\ blockBuffer[s] \in Block
        BY <1>4, <1>5
      <4>2. limited[s] = [blockBuffer[s] EXCEPT !.maxEntry = MaxEntrySpeed(blockBuffer[s], o, nominalBefore(k))]
        BY <3>6
      <4> QED BY <4>1, <4>2 DEF Block
    <3> QED BY <3>1, <3>2, <3>4, <3>7, <3>8 DEF Limited
  <2>3. ~now => /\ ~lowered
                /\ \A k \in 0 .. n - 1 : NominalSpeed(blockBuffer[Ahead(tail, k)], override)
                                         <= NominalSpeed(blockBuffer[Ahead(tail, k)], o)
    <3> SUFFICES ASSUME ~now, NEW k \in 0 .. n - 1
                 PROVE  ~lowered /\ NominalSpeed(blockBuffer[Ahead(tail, k)], override)
                                     <= NominalSpeed(blockBuffer[Ahead(tail, k)], o)
      OBVIOUS
    <3>1. ~(NominalSpeed(Queued(k), o) < NominalSpeed(Queued(k), override)) /\ ~lowered
      OBVIOUS
    <3>2. \A x, y \in Nat : ~(x < y) => y <= x
      OBVIOUS
    <3> HIDE DEF now, n
    <3> QED BY <1>7, <1>8, <3>1, <3>2
  <2>4. Adopt(new)
    BY <1>2, <1>13
  <2> HIDE DEF plan, pn, now
  <2>5. PlanTypes(plan) /\ Restartable(plan, n, o, pn, control, now)
    BY <1>4, <1>10, <2>1, <2>2, <2>3, LimitsRaised
  <2>6. new = Reinitialize(plan)
    OBVIOUS
  <2> HIDE DEF new
  <2>7. PlanTypes(new) /\ SpeedInv(new, tail, n, Distance(tail, new.planned), o, pn, control, now)
    BY <1>1, <1>4, <2>5, <2>6, ReinitStep
  <2> HIDE DEF n
  <2> QED BY <1>2, <1>11, <2>4, <2>7, Kept
<1> QED BY <1>12, <1>13

-----------------------------------------------------------------------------
(* Segments: Stepper::prep_buffer() and plan_discard_current_block().        *)

\* The profile prep_buffer() has for the block at the tail, loaded if it must be.
TailLoad == IF plBlock THEN [entry |-> Queued(0).entry, speed |-> prep.speed] ELSE Loaded(Queued(0))
TailProfile ==
  IF plBlock THEN prep ELSE Profile(TailLoad, Queued(0).left, NominalSpeed(Queued(0), override))

\* A plan of n blocks, the first of which is ridden at the speed of the profile q.
InHand(q, g, l, m, n, p, r, nom, hold, low) ==
  /\ q \in PrepTypes /\ g[0] = q.speed
  /\ Plans(g, l, m, n) /\ PlanKept(g, l, m, n, p, hold, low)
  /\ Remaining(r, l, n) /\ Stoppable(g, r, n)
  /\ Profiled(g[1], l[0], nom, q, hold) /\ g[1] <= nom
  /\ ~low => ~q.decelOverride /\ q.speed <= nom

\* Ramp() rides such a block as RampFacts says.
LEMMA RampInHand ==
  ASSUME NEW q, NEW g, NEW l, NEW m, NEW n, NEW p, NEW r, NEW nom, NEW hold, NEW low, NEW rem,
         n \in Nat \ {0}, nom \in Nat \ {0}, hold \in BOOLEAN, low \in BOOLEAN,
         InHand(q, g, l, m, n, p, r, nom, hold, low), ~(hold /\ l[0] = q.complete), rem = l[0] - 1
  PROVE  Ramps(q.speed, g[1], l[0], r[1], nom, q, hold, low, rem, Ramp(q.speed, nom, q, rem))
<1>1. 0 \in 0 .. n /\ 1 \in 0 .. n /\ 0 \in 0 .. n - 1 /\ 0 + 1 = 1
  OBVIOUS
<1>2. PICK s \in Nat, e1 \in Nat, l0 \in Nat \ {0}, r1 \in Nat :
        s = g[0] /\ e1 = g[1] /\ l0 = l[0] /\ r1 = r[1]
  BY <1>1 DEF InHand, Plans, Remaining
<1>3. q \in PrepTypes /\ q.speed = s /\ Profiled(e1, l0, nom, q, hold) /\ e1 <= nom
  BY <1>2 DEF InHand
<1>4. r[0] = r1 + l0
  BY <1>1, <1>2 DEF InHand, Remaining
<1>5. s <= r1 + l0 /\ e1 <= r1
  BY <1>1, <1>2, <1>4 DEF InHand, Stoppable
<1>6. ~hold => e1 <= s + l0
  <2>1. ~hold => Climbs(g, l, 0, n)
    BY DEF InHand, PlanKept
  <2> QED BY <1>1, <1>2, <2>1 DEF Climbs
<1>7. ~low => s <= e1 + l0 /\ s <= nom /\ ~q.decelOverride
  <2>1. ~low => Brakes(g, l, 0, n) /\ ~q.decelOverride /\ s <= nom
    BY <1>3 DEF InHand, PlanKept
  <2> QED BY <1>1, <1>2, <2>1 DEF Brakes
<1>8. ~(hold /\ l0 = q.complete) /\ rem = l0 - 1
  BY <1>2
<1> DEFINE v == Ramp(q.speed, nom, q, rem)
<1>9. v = Ramp(s, nom, q, rem)
  BY <1>3
<1> HIDE DEF v
<1>10. Ramps(s, e1, l0, r1, nom, q, hold, low, rem, v)
  BY <1>2, <1>3, <1>5, <1>6, <1>7, <1>8, <1>9, RampFacts
<1> QED BY <1>2, <1>3, <1>10 DEF v

\* The block at the tail, loaded: the speed it starts from is the speed there is.
LEMMA BlockInHand ==
  ASSUME PInv, head # tail
  PROVE  \E g, r :
           /\ InHand(TailProfile, g, LeftsIn(Plan, Count), LimitsIn(Plan, Count), Count,
                     Distance(tail, planned), r, NominalSpeed(blockBuffer[tail], override),
                     control.executeHold, lowered)
           /\ \A k \in 1 .. Count : g[k] = SpeedsIn(Plan, Count)[k]
           /\ TailProfile.speed = prep.speed
           /\ TailLoad.entry \in Nat
<1> DEFINE n == Count
           p == Distance(tail, planned)
           e == SpeedsIn(Plan, n)
           l == LeftsIn(Plan, n)
           m == LimitsIn(Plan, n)
           b == blockBuffer[tail]
           nom == NominalSpeed(b, override)
           q == TailProfile
           hold == control.executeHold
<1>1. /\ PlanTypes(Plan) /\ OtherTypes /\ tail \in Slots /\ head \in Slots
      /\ n \in 0 .. N - 1 /\ n \in Nat /\ p \in Nat
      /\ Plan.buffer = blockBuffer /\ Plan.planned = planned /\ Plan.plBlock = plBlock /\ Plan.prep = prep
      /\ n # 0 => p < n
  BY PlanTyped
<1>2. n # 0
  BY <1>1, RingArithmetic DEF Count
<1>3. /\ blockBuffer \in [Slots -> Block] /\ plBlock \in BOOLEAN /\ prep \in PrepTypes /\ b \in Block
      /\ control \in [executeHold : BOOLEAN, endMotion : BOOLEAN] /\ lowered \in BOOLEAN /\ hold \in BOOLEAN
      /\ override \in Overrides
  BY <1>1 DEF PlanTypes, OtherTypes, ControlTypes
<1>4. SpeedInv(Plan, tail, n, p, override, prevNominal, control, lowered)
  BY DEF PInv
<1>5. /\ QueueKept(blockBuffer, tail, n, override, prevNominal)
      /\ PlanKept(e, l, m, n, p, hold, lowered)
      /\ Affords(e, l, n, prep.speed)
      /\ Riding(e, l, nom, n, plBlock, prep, control, lowered)
  BY <1>1, <1>4 DEF SpeedInv, Speeds, SpeedsIn, LeftsIn, LimitsIn
<1>6. Plans(e, l, m, n)
  BY <1>1, <1>5, TypedPlans DEF QueueKept
<1>7. Ahead(tail, 0) = tail /\ Queued(0) = b
  BY <1>1, PlannerAssumption DEF Ahead, Slots, Queued, Slot
<1>8. nom \in Nat \ {0} /\ b.entry \in Nat
  BY <1>3, PlannerAssumption DEF NominalSpeed, Block
<1> HIDE DEF n
<1>9. 0 \in 0 .. n /\ 1 \in 0 .. n /\ 0 \in 0 .. n - 1 /\ 0 + 1 = 1 /\ 1 \in 1 .. n
  BY <1>1, <1>2
<1>10. l[0] = b.left /\ l[0] \in Nat \ {0}
  BY <1>1, <1>6, <1>7, <1>9 DEF LeftsIn, LeftsOf, Plans
<1>11. e[0] = (IF plBlock THEN prep.speed ELSE b.entry) /\ e[0] \in Nat /\ e[1] \in Nat
  BY <1>1, <1>2, <1>6, <1>7, <1>9 DEF SpeedsIn, SpeedsOf, Plans
<1>12. prep.speed \in Nat
  BY <1>3 DEF PrepTypes
<1>13. e[1] <= nom
  <2>1. CASE n = 1
    BY <1>6, <1>8, <2>1 DEF Plans
  <2>2. CASE n # 1
    <3>1. 1 \in 1 .. n - 1 /\ 1 \in 0 .. n - 1 /\ 1 \in 0 .. N - 1 /\ 1 - 1 = 0
      BY <1>1, <1>2, <2>2, PlannerAssumption
    <3>2. e[1] <= m[1]
      <4>1. Below(e, m, n)
        BY <1>5 DEF PlanKept
      <4> HIDE DEF e, m
      <4> QED BY <3>1, <4>1 DEF Below
    <3>3. m[1] = blockBuffer[Ahead(tail, 1)].maxEntry
      BY <1>1, <3>1 DEF LimitsIn, LimitsOf
    <3>4. blockBuffer[Ahead(tail, 1)].maxEntry =
            MaxEntrySpeed(blockBuffer[Ahead(tail, 1)], override, NominalSpeed(blockBuffer[Ahead(tail, 1 - 1)], override))
      BY <1>5, <3>1 DEF QueueKept
    <3>5. blockBuffer[Ahead(tail, 1)] \in Block
      BY <1>1, <1>3, <3>1, RingArithmetic
    <3>6. /\ NominalSpeed(blockBuffer[Ahead(tail, 1)], override) \in Nat
          /\ blockBuffer[Ahead(tail, 1)].junction \in Nat
      BY <1>3, <3>5, PlannerAssumption DEF NominalSpeed, Block
    <3>7. NominalSpeed(blockBuffer[Ahead(tail, 1 - 1)], override) = nom
      BY <1>7, <3>1
    <3>8. m[1] <= nom
      <4> HIDE DEF nom, m
      <4> QED BY <1>8, <3>3, <3>4, <3>6, <3>7 DEF MaxEntrySpeed, Lower
    <3>9. m[1] \in Nat
      BY <1>6, <3>1 DEF Plans
    <3> QED BY <1>8, <1>11, <3>2, <3>8, <3>9
  <2> QED BY <2>1, <2>2
<1>14. PICK r : Remaining(r, l, n) /\ Stoppable(e, r, n) /\ prep.speed <= r[0]
  BY <1>5 DEF Affords
<1>15. r[0] = r[1] + l[0] /\ r[0] \in Nat /\ r[1] \in Nat
  BY <1>9, <1>14 DEF Remaining
<1>16. CASE plBlock
  <2>1. q = prep /\ TailLoad.entry = b.entry
    BY <1>7, <1>16 DEF TailProfile, TailLoad
  <2>2. Profiled(e[1], l[0], nom, prep, hold) /\ (~lowered => ~prep.decelOverride /\ prep.speed <= nom)
    <3>1. Profiled(e[1], l[0], nom, prep, hold) /\ (~lowered => ~prep.decelOverride /\ e[0] <= nom)
      BY <1>2, <1>5, <1>16 DEF Riding
    <3> QED BY <1>11, <1>16, <3>1
  <2> HIDE DEF e, l, m, nom, p, b
  <2>3. InHand(prep, e, l, m, n, p, r, nom, hold, lowered)
    BY <1>3, <1>5, <1>6, <1>11, <1>13, <1>14, <1>16, <2>2 DEF InHand
  <2>4. \A k \in 1 .. n : e[k] = e[k]
    OBVIOUS
  <2> QED BY <1>8, <2>1, <2>3, <2>4 DEF n, e, l, m, nom, p, b
<1>17. CASE ~plBlock
  <2> DEFINE g == [e EXCEPT ![0] = prep.speed]
             ld == Loaded(b)
             f == Profile(ld, b.left, nom)
  <2>1. q = f /\ TailLoad = ld
    BY <1>7, <1>17 DEF TailProfile, TailLoad
  <2>2. ExitSpeed = e[1]
    <3>1. CASE n = 1
      <4>1. NextIndex(tail) = head
        BY <1>1, <3>1, PlannerAssumption DEF n, Count, Distance, NextIndex, Slots
      <4> QED BY <1>6, <3>1, <4>1 DEF ExitSpeed, Plans
    <3>2. CASE n # 1
      <4>1. NextIndex(tail) # head /\ Ahead(tail, 1) = NextIndex(tail)
        BY <1>1, <1>2, <3>2, PlannerAssumption DEF n, Count, Distance, NextIndex,
           Slots, Ahead
      <4>2. e[1] = blockBuffer[Ahead(tail, 1)].entry
        BY <1>1, <1>9, <3>2 DEF SpeedsIn, SpeedsOf
      <4> QED BY <4>1, <4>2 DEF ExitSpeed
    <3> QED BY <3>1, <3>2
  <2>3. Handed(e[0], prep, hold) /\ (~lowered => ~prep.decelOverride /\ e[0] <= nom /\ prep.speed <= e[0])
    BY <1>2, <1>5, <1>17 DEF Riding
  <2>4. e[0] = b.entry
    BY <1>11, <1>17
  <2>5. ~lowered => prep.speed <= nom
    BY <1>8, <1>11, <1>12, <2>3
  <2>6. ~hold => e[0] <= prep.speed
    BY <1>11, <1>12, <2>3 DEF Handed
  <2> HIDE DEF nom, e, l, m, p, b, f, ld
  <2>7. /\ ld.entry = prep.speed /\ ld.speed = prep.speed
        /\ f \in PrepTypes /\ f.speed = prep.speed
        /\ Profiled(e[1], l[0], nom, f, hold)
        /\ ~lowered => ~f.decelOverride
    <3>1. f = Profile(Loaded(b), l[0], nom)
      BY <1>10 DEF f, ld, b
    <3>2. ExitSpeed \in Nat
      BY <1>11, <2>2
    <3>3. /\ Loaded(b).entry = prep.speed /\ Loaded(b).speed = prep.speed
          /\ f \in PrepTypes /\ f.speed = prep.speed
          /\ Profiled(ExitSpeed, l[0], nom, f, control.executeHold)
          /\ ~lowered => ~f.decelOverride
      BY <1>3, <1>8, <1>10, <2>3, <2>4, <2>5, <3>1, <3>2, LoadFacts
    <3> QED BY <2>2, <3>3 DEF ld
  <2>8. g \in [0 .. n -> Nat] /\ g[0] = prep.speed /\ \A k \in 1 .. n : g[k] = e[k]
    BY <1>1, <1>6, <1>9, <1>12 DEF Plans
  <2>9. g[1] = e[1]
    BY <1>9, <2>8
  <2>10. Plans(g, l, m, n)
    <3>1. n \in 1 .. n
      BY <1>1, <1>2
    <3> QED BY <1>6, <2>8, <3>1 DEF Plans
  <2> HIDE DEF g
  <2>11. p \in 0 .. n - 1 /\ n \in Nat \ {0}
    BY <1>1, <1>2 DEF p
  <2>12. l \in [0 .. n - 1 -> Nat \ {0}] /\ \A k \in 1 .. n - 1 : l[k] = l[k]
    BY <1>6 DEF Plans
  <2>13. g[0] <= r[1] + l[0]
    BY <1>14, <1>15, <2>8
  <2>14. ~hold => e[1] <= g[0] + l[0]
    <3>1. ~hold => Climbs(e, l, 0, n)
      BY <1>5 DEF PlanKept
    <3>2. ~hold => e[1] <= e[0] + l[0]
      BY <1>9, <3>1 DEF Climbs
    <3> QED BY <1>10, <1>11, <1>12, <2>6, <2>8, <3>2
  <2>15. ~lowered => g[0] <= e[1] + l[0]
    <3>1. ~lowered => Brakes(e, l, 0, n)
      BY <1>5 DEF PlanKept
    <3>2. ~lowered => e[0] <= e[1] + l[0]
      BY <1>9, <3>1 DEF Brakes
    <3> QED BY <1>10, <1>11, <1>12, <2>3, <2>8, <3>2
  <2>16. ~lowered /\ ~hold /\ e[1] = e[0] + l[0] => e[1] = g[0] + l[0]
    BY <1>11, <1>12, <2>3, <2>6, <2>8
  <2> HIDE DEF hold, q
  <2>21. Moves(e, l, g, l, n, r, hold, lowered)
    BY <2>8, <2>12, <2>13, <2>14, <2>15, <2>16 DEF Moves
  <2>17. /\ PlanKept(g, l, m, n, p, hold, lowered)
         /\ \E t : Remaining(t, l, n) /\ Stoppable(g, t, n) /\ t[0] = r[1] + l[0]
    BY <1>3, <1>5, <1>6, <1>14, <2>11, <2>21, TailMoved
  <2>18. PICK t : Remaining(t, l, n) /\ Stoppable(g, t, n)
    BY <2>17
  <2>19. InHand(f, g, l, m, n, p, t, nom, hold, lowered)
    BY <1>13, <2>5, <2>7, <2>8, <2>9, <2>10, <2>17, <2>18 DEF InHand
  <2>20. ld.entry \in Nat
    BY <1>12, <2>7
  <2> QED BY <2>1, <2>7, <2>8, <2>19, <2>20 DEF n, e, l, m, nom, p, b, q, hold
<1> QED BY <1>3, <1>16, <1>17

\* The tail block rewritten in a queue of n blocks: only its length and its speed may differ.
Rewritten(plan, c, u, g, o, n) ==
  /\ plan = [buffer |-> [blockBuffer EXCEPT ![tail] = c], planned |-> planned, plBlock |-> TRUE, prep |-> u]
  /\ c \in Block /\ u \in PrepTypes
  /\ c.shape = blockBuffer[tail].shape /\ c.maxEntry = blockBuffer[tail].maxEntry
  /\ c.left = o[0] /\ u.speed = g[0]
  /\ g \in [0 .. n -> Nat] /\ \A k \in 1 .. n : g[k] = SpeedsIn(Plan, n)[k]
  /\ o \in [0 .. n - 1 -> Nat \ {0}] /\ \A k \in 1 .. n - 1 : o[k] = LeftsIn(Plan, n)[k]

\* It keeps the invariant of the speeds.
LEMMA TailRewritten ==
  ASSUME PInv, head # tail, NEW plan, NEW c, NEW u, NEW g, NEW o, NEW w,
         Rewritten(plan, c, u, g, o, Count), w.executeHold = control.executeHold,
         PlanKept(g, o, LimitsIn(Plan, Count), Count, Distance(tail, planned), control.executeHold, lowered),
         \E t : Remaining(t, o, Count) /\ Stoppable(g, t, Count),
         Riding(g, o, NominalSpeed(blockBuffer[tail], override), Count, TRUE, u, w, lowered)
  PROVE  /\ PlanTypes(plan) /\ plan.planned = planned
         /\ SpeedInv(plan, tail, Count, Distance(tail, planned), override, prevNominal, w, lowered)
<1> DEFINE n == Count
           p == Distance(tail, planned)
           e == SpeedsIn(Plan, n)
           l == LeftsIn(Plan, n)
           m == LimitsIn(Plan, n)
           B == blockBuffer
           C == [B EXCEPT ![tail] = c]
           nom == NominalSpeed(B[tail], override)
           A(k) == Ahead(tail, k)
<1>1. /\ PlanTypes(Plan) /\ OtherTypes /\ tail \in Slots /\ head \in Slots
      /\ n \in 0 .. N - 1 /\ n \in Nat /\ p \in Nat
      /\ Plan.buffer = B /\ Plan.planned = planned /\ Plan.plBlock = plBlock /\ Plan.prep = prep
  BY PlanTyped
<1>2. n # 0
  BY <1>1, RingArithmetic DEF Count
<1>3. B \in [Slots -> Block] /\ planned \in Slots
  BY <1>1 DEF PlanTypes
<1>4. SpeedInv(Plan, tail, n, p, override, prevNominal, control, lowered)
  BY DEF PInv
<1>5. QueueKept(B, tail, n, override, prevNominal)
  BY <1>1, <1>4 DEF SpeedInv
<1>6. Plans(e, l, m, n)
  BY <1>1, <1>5, TypedPlans DEF QueueKept
<1>7. /\ plan = [buffer |-> C, planned |-> planned, plBlock |-> TRUE, prep |-> u]
      /\ c \in Block /\ u \in PrepTypes
      /\ c.shape = B[tail].shape /\ c.maxEntry = B[tail].maxEntry
      /\ c.left = o[0] /\ u.speed = g[0]
      /\ g \in [0 .. n -> Nat] /\ \A k \in 1 .. n : g[k] = e[k]
      /\ o \in [0 .. n - 1 -> Nat \ {0}] /\ \A k \in 1 .. n - 1 : o[k] = l[k]
  BY DEF Rewritten
<1>8. /\ \A k \in 0 .. n - 1 : A(k) \in Slots /\ (k # 0 => A(k) # tail)
      /\ A(0) = tail
  <2>1. \A k \in 0 .. n - 1 : k \in 0 .. N - 1
    BY <1>1, PlannerAssumption
  <2>2. \A k \in 0 .. n - 1 : A(k) \in Slots /\ Distance(tail, A(k)) = k
    BY <1>1, <2>1, RingArithmetic
  <2>3. Distance(tail, tail) = 0
    BY <1>1, RingArithmetic
  <2>4. A(0) = tail
    BY <1>1, PlannerAssumption DEF Ahead, Slots
  <2> HIDE DEF A, n
  <2> QED BY <2>2, <2>3, <2>4
<1>9. C \in [Slots -> Block] /\ C[tail] = c /\ \A k \in 0 .. n - 1 : k # 0 => C[A(k)] = B[A(k)]
  <2> HIDE DEF A
  <2> QED BY <1>1, <1>3, <1>7, <1>8
<1> HIDE DEF C
<1>10. plan.buffer = C /\ plan.planned = planned /\ plan.plBlock = TRUE /\ plan.prep = u
  BY <1>7
<1>11. PlanTypes(plan)
  BY <1>3, <1>7, <1>9, <1>10 DEF PlanTypes
<1> HIDE DEF n
<1>12. /\ \A k \in 0 .. n - 1 : k \in 0 .. n /\ k # n /\ (k # 0 => k \in 1 .. n - 1 /\ k \in 1 .. n)
       /\ \A k \in 0 .. n : k = n \/ k \in 0 .. n - 1
       /\ \A k \in 1 .. n - 1 : k \in 0 .. n - 1 /\ k - 1 \in 0 .. n - 1 /\ k # 0
       /\ n \in 1 .. n /\ 0 \in 0 .. n - 1 /\ n - 1 \in 0 .. n - 1 /\ n \in 0 .. n
  BY <1>1, <1>2
<1>13. Speeds(plan, tail, n) = g
  <2>1. Speeds(plan, tail, n) = SpeedsOf(C, tail, TRUE, g[0], n)
    BY <1>7, <1>10 DEF Speeds
  <2>2. e = SpeedsOf(B, tail, plBlock, prep.speed, n)
    BY <1>1 DEF SpeedsIn
  <2>3. g[n] = 0
    BY <1>6, <1>7, <1>12 DEF Plans
  <2>4. ASSUME NEW k \in 0 .. n - 1, k # 0 PROVE C[Ahead(tail, k)].entry = g[k]
    <3>1. g[k] = e[k] /\ C[A(k)] = B[A(k)] /\ k \in 0 .. n /\ k # n
      BY <1>7, <1>9, <1>12, <2>4
    <3> HIDE DEF e
    <3>2. e[k] = B[A(k)].entry
      BY <2>2, <2>4, <3>1 DEF SpeedsOf
    <3> QED BY <3>1, <3>2
  <2>5. \A k \in 0 .. n : g[k] = IF k = n THEN 0 ELSE IF k = 0 /\ TRUE THEN g[0] ELSE C[Ahead(tail, k)].entry
    BY <1>12, <2>3, <2>4
  <2>6. SpeedsOf(C, tail, TRUE, g[0], n) = [k \in 0 .. n |-> g[k]]
    BY <2>5, Zenon DEF SpeedsOf
  <2> QED BY <1>7, <2>1, <2>6
<1>14. LeftsOf(plan.buffer, tail, n) = o
  <2>1. ASSUME NEW k \in 0 .. n - 1 PROVE C[Ahead(tail, k)].left = o[k]
    <3>1. CASE k = 0
      BY <1>7, <1>8, <1>9, <3>1
    <3>2. CASE k # 0
      <4>1. o[k] = l[k] /\ C[A(k)] = B[A(k)]
        BY <1>7, <1>9, <1>12, <3>2
      <4>2. l[k] = B[A(k)].left
        BY <1>1 DEF LeftsIn, LeftsOf
      <4> QED BY <4>1, <4>2
    <3> QED BY <3>1, <3>2
  <2> QED BY <1>7, <1>10, <2>1 DEF LeftsOf
<1>15. LimitsOf(plan.buffer, tail, n) = m
  <2>1. ASSUME NEW k \in 0 .. n - 1 PROVE C[Ahead(tail, k)].maxEntry = B[Ahead(tail, k)].maxEntry
    <3>1. CASE k = 0
      BY <1>7, <1>8, <1>9, <3>1
    <3>2. CASE k # 0
      BY <1>9, <3>2
    <3> QED BY <3>1, <3>2
  <2> QED BY <1>1, <1>10, <2>1 DEF LimitsIn, LimitsOf
<1>16. NominalSpeed(C[tail], override) = nom
  BY <1>7, <1>9 DEF NominalSpeed
<1>17. QueueKept(C, tail, n, override, prevNominal)
  <2>1. ASSUME NEW k \in 0 .. n - 1
        PROVE  /\ C[A(k)].shape = B[A(k)].shape /\ C[A(k)].left # 0
               /\ k # 0 => C[A(k)].maxEntry = B[A(k)].maxEntry /\ C[A(k)].junction = B[A(k)].junction
    <3>1. CASE k = 0
      BY <1>7, <1>8, <1>9, <1>12, <3>1
    <3>2. CASE k # 0
      BY <1>5, <1>9, <3>2 DEF QueueKept
    <3> QED BY <3>1, <3>2
  <2>2. \A k \in 0 .. n - 1 : NominalSpeed(C[A(k)], override) = NominalSpeed(B[A(k)], override)
    BY <2>1 DEF NominalSpeed
  <2>3. ASSUME NEW k \in 1 .. n - 1
        PROVE  C[A(k)].maxEntry = MaxEntrySpeed(C[A(k)], override, NominalSpeed(C[A(k - 1)], override))
    <3>1. B[A(k)].maxEntry = MaxEntrySpeed(B[A(k)], override, NominalSpeed(B[A(k - 1)], override))
      BY <1>5 DEF QueueKept
    <3>2. k \in 0 .. n - 1 /\ k - 1 \in 0 .. n - 1 /\ k # 0
      BY <1>12
    <3> HIDE DEF A, B
    <3> QED BY <2>1, <2>2, <3>1, <3>2 DEF MaxEntrySpeed
  <2>4. prevNominal = NominalSpeed(C[A(n - 1)], override)
    <3>1. prevNominal = NominalSpeed(B[A(n - 1)], override)
      BY <1>2, <1>5 DEF QueueKept
    <3> QED BY <1>12, <2>2, <3>1
  <2> QED BY <2>1, <2>3, <2>4 DEF QueueKept
<1>18. Affords(g, o, n, u.speed)
  <2>1. PICK t : Remaining(t, o, n) /\ Stoppable(g, t, n)
    BY DEF n
  <2>2. g[0] <= t[0]
    <3>1. 0 \in 0 .. n
      BY <1>12
    <3> QED BY <2>1, <3>1 DEF Stoppable
  <2> QED BY <1>7, <2>1, <2>2 DEF Affords
<1> HIDE DEF m, nom, p
<1>19. SpeedInv(plan, tail, n, p, override, prevNominal, w, lowered)
  BY <1>10, <1>13, <1>14, <1>15, <1>16, <1>17, <1>18 DEF SpeedInv, n, m, nom, p
<1> QED BY <1>10, <1>11, <1>19 DEF n, p

\* The ring seen from one slot further on.
LEMMA NextTail ==
  ASSUME tail \in Slots, head \in Slots, planned \in Slots, tail # head, Distance(tail, planned) < Count
  PROVE  /\ NextIndex(tail) \in Slots /\ Distance(NextIndex(tail), head) = Count - 1
         /\ \A k \in 0 .. Count - 2 : /\ Ahead(NextIndex(tail), k) = Ahead(tail, k + 1)
                                      /\ Ahead(tail, k + 1) \in Slots \ {tail}
         /\ Distance(NextIndex(tail), PlannedAfterDiscard) =
              IF Distance(tail, planned) = 0 THEN 0 ELSE Distance(tail, planned) - 1
<1>1. NextIndex(tail) \in Slots /\ Distance(NextIndex(tail), head) = Count - 1
  BY RingArithmetic DEF Count
<1>2. ASSUME NEW k \in 0 .. Count - 2
      PROVE  Ahead(NextIndex(tail), k) = Ahead(tail, k + 1) /\ Ahead(tail, k + 1) \in Slots \ {tail}
  <2>1. PICK n \in 0 .. N - 1 : n = Count
    BY RingArithmetic DEF Count
  <2>2. k \in Nat /\ k + 1 \in 1 .. N - 1 /\ k + 1 \in 0 .. N - 1
    BY <2>1, PlannerAssumption
  <2>3. Ahead(tail, k + 1) \in Slots /\ Distance(tail, Ahead(tail, k + 1)) = k + 1
    BY <2>2, RingArithmetic
  <2>4. Distance(tail, tail) = 0
    BY RingArithmetic
  <2>5. Ahead(NextIndex(tail), k) = Ahead(tail, k + 1)
    BY <2>2, PlannerAssumption DEF Ahead, NextIndex, Slots
  <2> QED BY <2>2, <2>3, <2>4, <2>5
<1>3. Distance(NextIndex(tail), PlannedAfterDiscard) =
        IF Distance(tail, planned) = 0 THEN 0 ELSE Distance(tail, planned) - 1
  <2>1. CASE planned = tail
    BY <1>1, <2>1, RingArithmetic DEF PlannedAfterDiscard
  <2>2. CASE planned # tail
    BY <2>2, RingArithmetic DEF PlannedAfterDiscard
  <2> QED BY <2>1, <2>2
<1> QED BY <1>1, <1>2, <1>3

\* The last unit of the tail block is ridden, from the profile q to the speed v, and the block discarded.
Finished(plan, q, g, r, u, v, w) ==
  /\ InHand(q, g, LeftsIn(Plan, Count), LimitsIn(Plan, Count), Count, Distance(tail, planned), r,
           NominalSpeed(blockBuffer[tail], override), control.executeHold, lowered)
  /\ \A k \in 1 .. Count : g[k] = SpeedsIn(Plan, Count)[k]
  /\ Ramps(q.speed, g[1], LeftsIn(Plan, Count)[0], r[1], NominalSpeed(blockBuffer[tail], override),
          q, control.executeHold, lowered, 0, v)
  /\ u = [q EXCEPT !.speed = v]
  /\ w.executeHold = control.executeHold
  /\ w.endMotion = FALSE
  /\ plan = [buffer |-> [blockBuffer EXCEPT ![tail] = EmptyBlock], planned |-> PlannedAfterDiscard,
            plBlock |-> FALSE, prep |-> u]

\* plan_discard_current_block() keeps the invariant of the speeds.
LEMMA TailDiscarded ==
  ASSUME PInv, head # tail, NEW plan, NEW q, NEW g, NEW r, NEW u, NEW v, NEW w,
         Finished(plan, q, g, r, u, v, w)
  PROVE  /\ PlanTypes(plan)
         /\ SpeedInv(plan, NextIndex(tail), Count - 1, Distance(NextIndex(tail), plan.planned),
                     override, prevNominal, w, lowered)
<1> SUFFICES ASSUME InHand(q, g, LeftsIn(Plan, Count), LimitsIn(Plan, Count), Count, Distance(tail, planned), r,
                      NominalSpeed(blockBuffer[tail], override), control.executeHold, lowered),
                    \A k \in 1 .. Count : g[k] = SpeedsIn(Plan, Count)[k],
                    Ramps(q.speed, g[1], LeftsIn(Plan, Count)[0], r[1], NominalSpeed(blockBuffer[tail], override),
                     q, control.executeHold, lowered, 0, v),
                    u = [q EXCEPT !.speed = v],
                    w.executeHold = control.executeHold,
                    w.endMotion = FALSE,
                    plan = [buffer |-> [blockBuffer EXCEPT ![tail] = EmptyBlock], planned |-> PlannedAfterDiscard,
                       plBlock |-> FALSE, prep |-> u]
             PROVE  /\ PlanTypes(plan)
                   /\ SpeedInv(plan, NextIndex(tail), Count - 1, Distance(NextIndex(tail), plan.planned),
                               override, prevNominal, w, lowered)
  BY DEF Finished
<1> DEFINE n == Count
           p == Distance(tail, planned)
           e == SpeedsIn(Plan, n)
           l == LeftsIn(Plan, n)
           m == LimitsIn(Plan, n)
           hold == control.executeHold
           B == blockBuffer
           C == [B EXCEPT ![tail] = EmptyBlock]
           next == NextIndex(tail)
           A(k) == Ahead(tail, k)
           g1 == SpeedsOf(C, next, FALSE, v, n - 1)
           l1 == LeftsOf(C, next, n - 1)
           m1 == LimitsOf(C, next, n - 1)
           p1 == IF p = 0 THEN 0 ELSE p - 1
           nom1 == NominalSpeed(C[next], override)
<1>1. /\ PlanTypes(Plan) /\ OtherTypes /\ tail \in Slots /\ head \in Slots
      /\ n \in 0 .. N - 1 /\ n \in Nat /\ p \in Nat
      /\ Plan.buffer = B /\ Plan.planned = planned /\ Plan.plBlock = plBlock /\ Plan.prep = prep
      /\ n # 0 => p < n
  BY PlanTyped
<1>2. n # 0
  BY <1>1, RingArithmetic DEF Count
<1>3. /\ B \in [Slots -> Block] /\ planned \in Slots /\ lowered \in BOOLEAN /\ hold \in BOOLEAN
      /\ override \in Overrides
  BY <1>1 DEF PlanTypes, OtherTypes, ControlTypes
<1>4. SpeedInv(Plan, tail, n, p, override, prevNominal, control, lowered)
  BY DEF PInv
<1>5. QueueKept(B, tail, n, override, prevNominal)
  BY <1>1, <1>4 DEF SpeedInv
<1>6. /\ next \in Slots
      /\ \A k \in 0 .. n - 2 : Ahead(next, k) = A(k + 1) /\ A(k + 1) \in Slots \ {tail}
      /\ Distance(next, PlannedAfterDiscard) = p1
  BY <1>1, <1>2, <1>3, NextTail
<1>7. EmptyBlock \in Block
  <2>1. (CHOOSE s \in Shapes : TRUE) \in Shapes
    BY PlannerAssumption
  <2> QED BY <2>1 DEF EmptyBlock, Block
<1>8. C \in [Slots -> Block] /\ \A s \in Slots \ {tail} : C[s] = B[s]
  BY <1>1, <1>3, <1>7
<1> HIDE DEF C
<1>9. plan.buffer = C /\ plan.planned = PlannedAfterDiscard /\ plan.plBlock = FALSE /\ plan.prep = u
      /\ plan = [buffer |-> C, planned |-> PlannedAfterDiscard, plBlock |-> FALSE, prep |-> u]
  BY DEF C
<1>10. /\ q \in PrepTypes /\ g[0] = q.speed /\ Plans(g, l, m, n) /\ PlanKept(g, l, m, n, p, hold, lowered)
       /\ Remaining(r, l, n) /\ Stoppable(g, r, n)
       /\ ~q.recalculate
       /\ ~lowered => ~q.decelOverride
  BY DEF InHand, Profiled
<1>11. /\ v \in Nat /\ v = q.exit /\ v <= r[1]
       /\ ~hold => g[1] <= v /\ (q.decelOverride \/ g[1] = v)
       /\ ~lowered => v <= g[1]
       /\ r[1] = 0 => ~q.decelOverride
  BY DEF Ramps
<1>12. /\ u \in PrepTypes /\ u.speed = v /\ u.exit = q.exit /\ u.recalculate = q.recalculate
       /\ u.decelOverride = q.decelOverride
  BY <1>10, <1>11 DEF PrepTypes
<1>13. PlannedAfterDiscard \in Slots
  BY <1>1, <1>3, <1>6 DEF PlannedAfterDiscard
<1>14. PlanTypes(plan)
  BY <1>8, <1>9, <1>12, <1>13 DEF PlanTypes
<1> HIDE DEF n, next
<1>15. /\ \A k \in 0 .. n - 2 : /\ k \in 0 .. n - 1 /\ k # n - 1 /\ k + 1 \in 1 .. n /\ k + 1 \in 1 .. n - 1
                                /\ k + 1 \in 0 .. n - 1 /\ k + 1 \in 0 .. n /\ k + 1 # n /\ k + 1 # 0
       /\ \A k \in 0 .. n - 1 : (k = n - 1 \/ k \in 0 .. n - 2) /\ k + 1 \in 0 .. n
       /\ (n - 1) - 1 = n - 2 /\ n - 1 \in Nat /\ n - 1 \in 0 .. n - 1 /\ (n - 1) + 1 = n /\ 1 \in 0 .. n
       /\ 0 + 1 = 1
  BY <1>1, <1>2
<1>16. \A k \in 0 .. n - 2 : C[Ahead(next, k)] = B[A(k + 1)]
  <2> HIDE DEF A
  <2> QED BY <1>6, <1>8
<1>17. \A k \in 0 .. n - 1 : g1[k] = g[k + 1]
  <2> SUFFICES ASSUME NEW k \in 0 .. n - 1 PROVE g1[k] = g[k + 1]
    OBVIOUS
  <2>1. g1[k] = IF k = n - 1 THEN 0 ELSE C[Ahead(next, k)].entry
    BY DEF SpeedsOf
  <2>2. CASE k = n - 1
    BY <1>10, <1>15, <2>1, <2>2 DEF Plans
  <2>3. CASE k \in 0 .. n - 2
    <3>1. g1[k] = B[A(k + 1)].entry
      BY <1>15, <1>16, <2>1, <2>3
    <3>2. PICK j : j = k + 1 /\ j \in 0 .. n /\ j # n /\ j # 0 /\ j \in 1 .. n
      BY <1>15, <2>3
    <3>3. e = SpeedsOf(B, tail, plBlock, prep.speed, n)
      BY <1>1 DEF SpeedsIn
    <3>4. g[j] = e[j]
      BY <3>2 DEF n
    <3> HIDE DEF e
    <3>5. e[j] = B[A(j)].entry
      BY <3>2, <3>3 DEF SpeedsOf
    <3> QED BY <3>1, <3>2, <3>4, <3>5
  <2> QED BY <1>15, <2>2, <2>3
<1>18. \A k \in 0 .. n - 2 : l1[k] = l[k + 1] /\ m1[k] = m[k + 1]
  <2> SUFFICES ASSUME NEW k \in 0 .. n - 2 PROVE l1[k] = l[k + 1] /\ m1[k] = m[k + 1]
    OBVIOUS
  <2>1. k \in 0 .. (n - 1) - 1
    BY <1>15
  <2>2. l1[k] = C[Ahead(next, k)].left /\ m1[k] = C[Ahead(next, k)].maxEntry
    BY <2>1 DEF LeftsOf, LimitsOf
  <2>3. PICK j : j = k + 1 /\ j \in 0 .. n - 1
    BY <1>15
  <2>4. l[j] = B[A(j)].left /\ m[j] = B[A(j)].maxEntry
    BY <1>1, <2>3 DEF LeftsIn, LimitsIn, LeftsOf, LimitsOf
  <2> QED BY <1>16, <2>2, <2>3, <2>4
<1>19. Plans(g1, l1, m1, n - 1)
  <2>1. g1 \in [0 .. n - 1 -> Nat]
    <3>1. \A k \in 0 .. n - 1 : g[k + 1] \in Nat
      BY <1>10, <1>15 DEF Plans
    <3>2. g1 = [k \in 0 .. n - 1 |-> g1[k]]
      BY DEF SpeedsOf
    <3> HIDE DEF g1
    <3> QED BY <1>17, <3>1, <3>2
  <2>2. g1[n - 1] = 0
    BY <1>10, <1>15, <1>17 DEF Plans
  <2>3. l1 \in [0 .. (n - 1) - 1 -> Nat \ {0}] /\ m1 \in [0 .. (n - 1) - 1 -> Nat]
    <3>1. \A k \in 0 .. n - 2 : l[k + 1] \in Nat \ {0} /\ m[k + 1] \in Nat
      BY <1>10, <1>15 DEF Plans
    <3>2. l1 = [k \in 0 .. (n - 1) - 1 |-> l1[k]] /\ m1 = [k \in 0 .. (n - 1) - 1 |-> m1[k]]
      BY DEF LeftsOf, LimitsOf
    <3> HIDE DEF l1, m1, l, m
    <3>3. \A k \in 0 .. (n - 1) - 1 : l1[k] \in Nat \ {0} /\ m1[k] \in Nat
      BY <1>15, <1>18, <3>1
    <3> QED BY <3>2, <3>3
  <2> QED BY <2>1, <2>2, <2>3 DEF Plans
<1> HIDE DEF g1, l1, m1, l, m, e, p, hold, A
<1>20. /\ PlanKept(g1, l1, m1, n - 1, p1, hold, lowered)
       /\ \E t : Remaining(t, l1, n - 1) /\ Stoppable(g1, t, n - 1) /\ t[0] = r[1]
  <2>1. n \in Nat \ {0} /\ p \in 0 .. n - 1
    BY <1>1, <1>2
  <2> QED BY <1>3, <1>10, <1>17, <1>18, <1>19, <2>1, TailGone
<1>21. Affords(g1, l1, n - 1, u.speed)
  BY <1>11, <1>12, <1>20 DEF Affords
<1>22. n # 1 => /\ C[next] = B[A(1)] /\ C[next] \in Block /\ g1[0] = g[1]
                /\ C[next].maxEntry = MaxEntrySpeed(C[next], override, NominalSpeed(B[A(0)], override))
                /\ g[1] <= C[next].maxEntry
  <2> SUFFICES ASSUME n # 1
               PROVE  /\ C[next] = B[A(1)] /\ C[next] \in Block /\ g1[0] = g[1]
                      /\ C[next].maxEntry = MaxEntrySpeed(C[next], override, NominalSpeed(B[A(0)], override))
                      /\ g[1] <= C[next].maxEntry
    OBVIOUS
  <2>1. 0 \in 0 .. n - 2 /\ 0 \in 0 .. n - 1 /\ 1 \in 0 .. n - 1 /\ 1 \in 1 .. n - 1 /\ 1 - 1 = 0
    BY <1>1, <1>2
  <2>2. Ahead(next, 0) = next
    BY <1>6, PlannerAssumption DEF Ahead, Slots
  <2>3. C[next] = B[A(1)]
    BY <1>15, <1>16, <2>1, <2>2
  <2>4. C[next] \in Block
    BY <1>6, <1>8
  <2>5. g1[0] = g[1]
    BY <1>15, <1>17, <2>1
  <2>6. B[A(1)].maxEntry = MaxEntrySpeed(B[A(1)], override, NominalSpeed(B[A(1 - 1)], override))
    BY <1>5, <2>1 DEF QueueKept, A
  <2>7. g[1] <= m[1]
    BY <1>10, <2>1 DEF PlanKept, Below
  <2>8. m[1] = B[A(1)].maxEntry
    BY <1>1, <2>1 DEF m, LimitsIn, LimitsOf, A
  <2> QED BY <2>1, <2>3, <2>4, <2>5, <2>6, <2>7, <2>8
<1>23. n # 1 => g[1] <= nom1
  <2> SUFFICES ASSUME n # 1 PROVE g[1] <= nom1
    OBVIOUS
  <2>1. NominalSpeed(B[A(0)], override) \in Nat
    <3>1. A(0) = tail
      BY <1>1, PlannerAssumption DEF A, Ahead, Slots
    <3> QED BY <1>1, <1>3, <3>1, PlannerAssumption DEF Block, NominalSpeed
  <2>2. nom1 \in Nat /\ C[next].junction \in Nat /\ C[next].maxEntry \in Nat
    BY <1>3, <1>22, PlannerAssumption DEF Block, NominalSpeed
  <2>3. MaxEntrySpeed(C[next], override, NominalSpeed(B[A(0)], override)) <= nom1
    BY <2>1, <2>2 DEF MaxEntrySpeed, Lower
  <2>4. g[1] \in Nat
    BY <1>10, <1>15 DEF Plans
  <2> QED BY <1>22, <2>2, <2>3, <2>4
<1>24. Riding(g1, l1, nom1, n - 1, FALSE, u, w, lowered)
  <2>1. n - 1 = 0 => u.speed = 0 /\ u.exit = 0 /\ ~u.decelOverride /\ ~u.recalculate
    <3>1. n - 1 = 0 => r[1] = 0
      BY <1>1, <1>10 DEF Remaining
    <3> QED BY <1>10, <1>11, <1>12, <3>1
  <2>2. n - 1 # 0 => Handed(g1[0], u, w.executeHold)
    BY <1>1, <1>10, <1>11, <1>12, <1>22 DEF Handed, hold
  <2>3. ~lowered => ~u.decelOverride /\ (n - 1 # 0 => g1[0] <= nom1 /\ u.speed <= g1[0])
    BY <1>1, <1>10, <1>11, <1>12, <1>22, <1>23
  <2> QED BY <2>1, <2>2, <2>3 DEF Riding
<1>25. QueueKept(C, next, n - 1, override, prevNominal)
  <2>1. \A k \in 0 .. n - 2 : C[Ahead(next, k)].left # 0
    BY <1>5, <1>15, <1>16 DEF QueueKept, A
  <2>2. ASSUME NEW k \in 1 .. n - 2
        PROVE  C[Ahead(next, k)].maxEntry =
                 MaxEntrySpeed(C[Ahead(next, k)], override, NominalSpeed(C[Ahead(next, k - 1)], override))
    <3>1. PICK i, j : i = k - 1 /\ j = k + 1
      OBVIOUS
    <3>2. i \in 0 .. n - 2 /\ k \in 0 .. n - 2 /\ i + 1 = k /\ j \in 1 .. n - 1 /\ j - 1 = k
      BY <1>1, <3>1
    <3>3. C[Ahead(next, k)] = B[A(j)] /\ C[Ahead(next, i)] = B[A(k)]
      BY <1>16, <3>1, <3>2
    <3>4. B[A(j)].maxEntry = MaxEntrySpeed(B[A(j)], override, NominalSpeed(B[A(j - 1)], override))
      BY <1>5, <3>2 DEF QueueKept, A
    <3> QED BY <3>1, <3>2, <3>3, <3>4
  <2>3. n - 1 # 0 => prevNominal = NominalSpeed(C[Ahead(next, (n - 1) - 1)], override)
    <3> SUFFICES ASSUME n - 1 # 0 PROVE prevNominal = NominalSpeed(C[Ahead(next, (n - 1) - 1)], override)
      OBVIOUS
    <3>1. PICK i : i = n - 2 /\ i = (n - 1) - 1 /\ i \in 0 .. n - 2 /\ i + 1 = n - 1
      BY <1>1, <1>2
    <3>2. C[Ahead(next, i)] = B[A(n - 1)]
      BY <1>16, <3>1
    <3>3. prevNominal = NominalSpeed(B[A(n - 1)], override)
      BY <1>2, <1>5 DEF QueueKept, A
    <3> QED BY <3>1, <3>2, <3>3
  <2> QED BY <1>15, <2>1, <2>2, <2>3 DEF QueueKept
<1>26. Speeds(plan, next, n - 1) = g1 /\ LeftsOf(plan.buffer, next, n - 1) = l1 /\ LimitsOf(plan.buffer, next, n - 1) = m1
  BY <1>9, <1>12 DEF Speeds, g1, l1, m1
<1> HIDE DEF p1, nom1
<1>27. SpeedInv(plan, next, n - 1, p1, override, prevNominal, w, lowered)
  BY <1>9, <1>20, <1>21, <1>24, <1>25, <1>26 DEF SpeedInv, hold, nom1
<1> QED BY <1>6, <1>9, <1>14, <1>27 DEF n, next

\* One segment of the block at the tail: stopped before it, within the block, or its last.
LEMMA SegmentRidden ==
  ASSUME PInv, IInv', Segment
  PROVE  /\ PInv'
         /\ prep'.speed <= prep.speed + 1
         /\ lowered \/ prep'.speed >= prep.speed - 1
<1> DEFINE n == Count
           p == Distance(tail, planned)
           e == SpeedsIn(Plan, n)
           l == LeftsIn(Plan, n)
           m == LimitsIn(Plan, n)
           hold == control.executeHold
           b == blockBuffer[tail]
           nom == NominalSpeed(b, override)
           q == TailProfile
           x == TailLoad.entry
           rem == b.left - 1
           stop == hold /\ b.left = q.complete
           done == ~stop /\ rem = 0
           v == Ramp(q.speed, nom, q, rem)
<1>1. /\ PlanTypes(Plan) /\ OtherTypes /\ tail \in Slots /\ head \in Slots
      /\ n \in 0 .. N - 1 /\ n \in Nat /\ p \in Nat
      /\ Plan.buffer = blockBuffer /\ Plan.planned = planned /\ Plan.plBlock = plBlock /\ Plan.prep = prep
      /\ n # 0 => p < n
  BY PlanTyped
<1>2. Queued(0) = b /\ Ahead(tail, 0) = tail
  BY <1>1, PlannerAssumption DEF Ahead, Slots, Queued, Slot
<1>3. /\ ~control.endMotion /\ head # tail
      /\ prep' = [q EXCEPT !.speed = IF stop THEN @ ELSE Ramp(@, nom, q, rem)]
      /\ control' = [control EXCEPT !.endMotion = hold /\ (stop \/ (rem = q.complete /\ rem > 0))]
      /\ blockBuffer' = [blockBuffer EXCEPT ![tail] =
           IF done THEN EmptyBlock ELSE [b EXCEPT !.entry = x, !.left = IF stop THEN @ ELSE rem]]
      /\ plBlock' = ~done
      /\ IF done THEN tail' = NextIndex(tail) /\ planned' = PlannedAfterDiscard
         ELSE UNCHANGED <<tail, planned>>
      /\ UNCHANGED <<head, nextHead, prevNominal, override, state, lowered>>
  BY <1>2 DEF Segment, TailProfile, TailLoad
<1>4. n # 0
  BY <1>1, <1>3, RingArithmetic DEF Count
<1>5. /\ blockBuffer \in [Slots -> Block] /\ planned \in Slots /\ b \in Block
      /\ control \in ControlTypes /\ hold \in BOOLEAN /\ lowered \in BOOLEAN /\ override \in Overrides
  BY <1>1 DEF PlanTypes, OtherTypes, ControlTypes
<1>6. nom \in Nat \ {0} /\ b.left \in Nat
  BY <1>5, PlannerAssumption DEF NominalSpeed, Block
<1>7. PICK g, r :
        /\ InHand(q, g, l, m, n, p, r, nom, hold, lowered)
        /\ \A k \in 1 .. n : g[k] = e[k]
        /\ q.speed = prep.speed
        /\ x \in Nat
  BY <1>3, BlockInHand
<1> HIDE DEF q, x, n
<1>8. 0 \in 0 .. n /\ 0 \in 0 .. n - 1 /\ 1 \in 0 .. n /\ 1 \in 1 .. n /\ 0 + 1 = 1 /\ n \in Nat \ {0}
  BY <1>1, <1>4
<1>9. l[0] = b.left
  BY <1>1, <1>2, <1>8 DEF LeftsIn, LeftsOf
<1> HIDE DEF l, m, e, p, nom
<1>10. /\ q \in PrepTypes /\ g[0] = q.speed /\ Plans(g, l, m, n) /\ PlanKept(g, l, m, n, p, hold, lowered)
       /\ Remaining(r, l, n) /\ Stoppable(g, r, n) /\ Profiled(g[1], l[0], nom, q, hold)
       /\ ~lowered => ~q.decelOverride /\ q.speed <= nom
  BY <1>7 DEF InHand
<1>11. b.left \in Nat \ {0} /\ rem \in Nat /\ q.speed \in Nat /\ g[1] \in Nat /\ prep.speed \in Nat
  BY <1>7, <1>8, <1>9, <1>10 DEF Plans, PrepTypes
<1>12. g \in [0 .. n -> Nat] /\ l \in [0 .. n - 1 -> Nat \ {0}]
  BY <1>10 DEF Plans
<1>13. OtherTypes' /\ (control.executeHold => state = "Hold")' /\ control'.executeHold = hold
       /\ control' \in ControlTypes
  <2>2. control' \in ControlTypes /\ control'.executeHold = hold
    BY <1>3, <1>5 DEF ControlTypes
  <2> HIDE DEF stop, rem
  <2> QED BY <1>1, <1>3, <2>2 DEF OtherTypes, PInv
<1>14. CASE stop
  <2> DEFINE c == [b EXCEPT !.entry = x]
             plan == [buffer |-> [blockBuffer EXCEPT ![tail] = c], planned |-> planned,
                      plBlock |-> TRUE, prep |-> q]
  <2>1. /\ c \in Block /\ c.shape = b.shape /\ c.maxEntry = b.maxEntry /\ c.left = l[0]
        /\ [b EXCEPT !.entry = x, !.left = b.left] = c
    BY <1>5, <1>7, <1>9 DEF Block
  <2>2. Rewritten(plan, c, q, g, l, n)
    <3>1. \A k \in 1 .. n : g[k] = SpeedsIn(Plan, n)[k]
      BY <1>7 DEF e
    <3>2. \A k \in 1 .. n - 1 : l[k] = LeftsIn(Plan, n)[k]
      BY DEF l
    <3> HIDE DEF c
    <3> QED BY <1>10, <1>12, <2>1, <3>1, <3>2 DEF Rewritten
  <2>3. prep' = q
    <3>1. prep' = [q EXCEPT !.speed = q.speed]
      BY <1>3, <1>14
    <3> QED BY <1>10, <3>1 DEF PrepTypes
  <2>4. Adopt(plan) /\ UNCHANGED <<tail, head, prevNominal, override, lowered>>
    <3>1. blockBuffer' = [blockBuffer EXCEPT ![tail] = c] /\ plBlock' = TRUE /\ planned' = planned
      BY <1>3, <1>14, <2>1
    <3>2. plan.buffer = [blockBuffer EXCEPT ![tail] = c] /\ plan.planned = planned /\ plan.plBlock = TRUE
          /\ plan.prep = q
      BY Zenon
    <3> HIDE DEF plan
    <3> QED BY <1>3, <1>14, <2>3, <3>1, <3>2 DEF Adopt
  <2>5. Riding(g, l, nom, n, TRUE, q, control', lowered)
    <3>1. ~lowered => g[0] <= nom /\ q.speed <= g[0]
      BY <1>10, <1>11
    <3> QED BY <1>4, <1>10, <1>13, <3>1 DEF Riding
  <2> HIDE DEF c, plan
  <2>6. /\ PlanTypes(plan) /\ plan.planned = planned
        /\ SpeedInv(plan, tail, n, p, override, prevNominal, control', lowered)
    BY <1>3, <1>10, <1>13, <2>2, <2>5, TailRewritten DEF n, m, p, nom
  <2>7. Count' = n
    BY <2>4 DEF Count, Distance, n
  <2>8. PInv'
    BY <1>13, <2>4, <2>6, <2>7, Kept DEF p
  <2> QED BY <1>7, <1>11, <2>3, <2>8
<1>15. CASE ~stop
  <2> DEFINE u == [q EXCEPT !.speed = v]
  <2>1. Ramps(q.speed, g[1], l[0], r[1], nom, q, hold, lowered, rem, v)
    <3>1. ~(hold /\ l[0] = q.complete) /\ rem = l[0] - 1
      BY <1>9, <1>15
    <3> HIDE DEF rem, hold, stop
    <3>2. Ramps(q.speed, g[1], l[0], r[1], nom, q, hold, lowered, rem, Ramp(q.speed, nom, q, rem))
      BY <1>5, <1>6, <1>7, <1>8, <3>1, RampInHand
    <3> QED BY <3>2
  <2>2. prep' = u
    BY <1>3, <1>15
  <2> HIDE DEF v
  <2>3. v \in Nat /\ v <= q.speed + 1 /\ (~lowered => q.speed - 1 <= v)
    BY <2>1 DEF Ramps
  <2>4. u \in PrepTypes /\ u.speed = v /\ u.decelOverride = q.decelOverride
    BY <1>10, <2>3 DEF PrepTypes
  <2>5. prep'.speed <= prep.speed + 1 /\ (lowered \/ prep'.speed >= prep.speed - 1)
    BY <1>7, <1>11, <2>2, <2>3, <2>4
  <2>6. CASE rem # 0
    <3> DEFINE c == [b EXCEPT !.entry = x, !.left = rem]
               o == [l EXCEPT ![0] = rem]
               h == [g EXCEPT ![0] = v]
               plan == [buffer |-> [blockBuffer EXCEPT ![tail] = c], planned |-> planned,
                        plBlock |-> TRUE, prep |-> u]
    <3>1. /\ o \in [0 .. n - 1 -> Nat \ {0}] /\ o[0] = rem /\ \A k \in 1 .. n - 1 : o[k] = l[k]
          /\ h \in [0 .. n -> Nat] /\ h[0] = v /\ \A k \in 1 .. n : h[k] = g[k]
      <4>1. rem \in Nat \ {0}
        BY <1>11, <2>6
      <4>2. \A k \in 1 .. n - 1 : k \in 0 .. n - 1 /\ k # 0
        OBVIOUS
      <4>3. \A k \in 1 .. n : k \in 0 .. n /\ k # 0
        OBVIOUS
      <4> HIDE DEF rem
      <4>4. o \in [0 .. n - 1 -> Nat \ {0}] /\ o[0] = rem /\ \A k \in 1 .. n - 1 : o[k] = l[k]
        BY <1>8, <1>12, <4>1, <4>2
      <4>5. h \in [0 .. n -> Nat] /\ h[0] = v /\ \A k \in 1 .. n : h[k] = g[k]
        BY <1>8, <1>12, <2>3, <4>3
      <4> QED BY <4>4, <4>5
    <3>2. /\ c \in Block /\ c.shape = b.shape /\ c.maxEntry = b.maxEntry /\ c.left = rem
      BY <1>5, <1>7, <1>11 DEF Block
    <3>3. /\ Profiled(g[1], rem, nom, u, hold)
          /\ v <= r[1] + rem
          /\ ~hold => g[1] <= v + rem
          /\ ~lowered => v <= g[1] + rem /\ v <= nom
          /\ ~lowered /\ ~hold /\ g[1] = g[0] + l[0] => g[1] = v + rem
      BY <1>10, <2>1, <2>6 DEF Ramps
    <3>4. Adopt(plan) /\ UNCHANGED <<tail, head, prevNominal, override, lowered>>
      <4>1. blockBuffer' = [blockBuffer EXCEPT ![tail] = c] /\ plBlock' = TRUE /\ planned' = planned /\ tail' = tail
        BY <1>3, <1>15, <2>6
      <4>2. plan.buffer = [blockBuffer EXCEPT ![tail] = c] /\ plan.planned = planned /\ plan.plBlock = TRUE
            /\ plan.prep = u
        BY Zenon
      <4> HIDE DEF plan
      <4> QED BY <1>3, <2>2, <4>1, <4>2 DEF Adopt
    <3> HIDE DEF c, o, h, u, rem
    <3>5. Moves(g, l, h, o, n, r, hold, lowered)
      BY <3>1, <3>3 DEF Moves
    <3>6. /\ PlanKept(h, o, m, n, p, hold, lowered)
          /\ \E t : Remaining(t, o, n) /\ Stoppable(h, t, n) /\ t[0] = r[1] + o[0]
      <4>1. p \in 0 .. n - 1 /\ n \in Nat \ {0}
        BY <1>1, <1>4, <1>8 DEF p
      <4> HIDE DEF hold
      <4> QED BY <1>5, <1>10, <3>5, <4>1, TailMoved
    <3>7. Rewritten(plan, c, u, h, o, n)
      <4>1. \A k \in 1 .. n : h[k] = SpeedsIn(Plan, n)[k]
        BY <1>7, <3>1 DEF e
      <4>2. \A k \in 1 .. n - 1 : o[k] = LeftsIn(Plan, n)[k]
        BY <3>1 DEF l
      <4> QED BY <2>4, <3>1, <3>2, <4>1, <4>2 DEF Rewritten
    <3>8. Riding(h, o, nom, n, TRUE, u, control', lowered)
      <4>1. h[1] = g[1]
        BY <1>8, <3>1
      <4>2. ~lowered => ~u.decelOverride /\ h[0] <= nom /\ u.speed <= h[0]
        BY <1>10, <2>3, <2>4, <3>1, <3>3
      <4> QED BY <1>4, <1>13, <3>1, <3>3, <4>1, <4>2 DEF Riding
    <3> HIDE DEF plan
    <3>9. /\ PlanTypes(plan) /\ plan.planned = planned
          /\ SpeedInv(plan, tail, n, p, override, prevNominal, control', lowered)
      <4>1. \E t : Remaining(t, o, n) /\ Stoppable(h, t, n)
        BY <3>6
      <4> QED BY <1>3, <1>13, <3>6, <3>7, <3>8, <4>1, TailRewritten DEF n, m, p, nom
    <3>10. Count' = n
      BY <3>4 DEF Count, Distance, n
    <3>11. PInv'
      BY <1>13, <3>4, <3>9, <3>10, Kept DEF p
    <3> QED BY <2>5, <3>11
  <2>7. CASE rem = 0
    <3> DEFINE plan == [buffer |-> [blockBuffer EXCEPT ![tail] = EmptyBlock], planned |-> PlannedAfterDiscard,
                        plBlock |-> FALSE, prep |-> u]
    <3>1. control'.endMotion = FALSE
      BY <1>3, <1>5, <1>15, <2>7 DEF ControlTypes
    <3>2. Adopt(plan) /\ tail' = NextIndex(tail) /\ UNCHANGED <<head, prevNominal, override, lowered>>
      <4>1. blockBuffer' = [blockBuffer EXCEPT ![tail] = EmptyBlock] /\ plBlock' = FALSE
            /\ planned' = PlannedAfterDiscard /\ tail' = NextIndex(tail)
        BY <1>3, <1>15, <2>7
      <4>2. plan.buffer = [blockBuffer EXCEPT ![tail] = EmptyBlock] /\ plan.planned = PlannedAfterDiscard
            /\ plan.plBlock = FALSE /\ plan.prep = u
        BY Zenon
      <4> HIDE DEF plan
      <4> QED BY <1>3, <2>2, <4>1, <4>2 DEF Adopt
    <3>3. Ramps(q.speed, g[1], l[0], r[1], nom, q, hold, lowered, 0, v)
      BY <2>1, <2>7
    <3>4. u = [q EXCEPT !.speed = v] /\ plan = [buffer |-> [blockBuffer EXCEPT ![tail] = EmptyBlock],
                     planned |-> PlannedAfterDiscard, plBlock |-> FALSE, prep |-> u]
      OBVIOUS
    <3> HIDE DEF plan, u
    <3>5. /\ PlanTypes(plan)
          /\ SpeedInv(plan, NextIndex(tail), n - 1, Distance(NextIndex(tail), plan.planned),
                      override, prevNominal, control', lowered)
      <4>1. Finished(plan, q, g, r, u, v, control')
        BY <1>7, <1>13, <3>1, <3>3, <3>4 DEF Finished, n, m, p, nom, l, e
      <4>2. head # tail
        BY <1>3
      <4> QED BY <4>1, <4>2, TailDiscarded DEF n
    <3>6. Count' = n - 1
      <4>1. Distance(NextIndex(tail), head) = n - 1
        BY <1>1, <1>3, RingArithmetic DEF n, Count
      <4> QED BY <3>2, <4>1 DEF Count, Distance
    <3>7. PInv'
      BY <1>13, <3>2, <3>5, <3>6, Kept
    <3> QED BY <2>5, <3>7
  <2> QED BY <2>6, <2>7
<1> QED BY <1>14, <1>15

-----------------------------------------------------------------------------
(* The theorems.                                                             *)

\* Replanning leaves prep_buffer()'s speed alone.
LEMMA ReplanSpeed ==
  ASSUME NEW plan, NEW h, IsPlan(plan), plan.prep \in PrepTypes
  PROVE  /\ Recalculate(plan, h).prep.speed = plan.prep.speed
         /\ Reinitialize(plan).prep.speed = plan.prep.speed
<1>1. ASSUME NEW some, IsPlan(some), some.prep \in PrepTypes
      PROVE  /\ IsPlan(UpdateTail(some)) /\ UpdateTail(some).prep \in PrepTypes
             /\ UpdateTail(some).prep.speed = some.prep.speed
  BY <1>1, UpdateTailPlanned DEF UpdateTail, IsPlan, PrepTypes
<1>2. ASSUME NEW some, NEW at, IsPlan(some), some.prep \in PrepTypes
      PROVE  Recalculate(some, at).prep.speed = some.prep.speed
  <2> DEFINE n == Distance(tail, at)
             p == Distance(tail, some.planned)
             upd == NotifyStepper(some, p)
  <2>1. IsPlan(upd) /\ upd.prep.speed = some.prep.speed
    BY <1>1, <1>2 DEF NotifyStepper
  <2>2. CASE n = 0 \/ p = n - 1
    BY <2>2 DEF Recalculate
  <2>3. CASE ~(n = 0 \/ p = n - 1)
    <3>1. Recalculate(some, at).prep = upd.prep
      BY <2>1, <2>3 DEF Recalculate, IsPlan
    <3> QED BY <2>1, <3>1
  <2> QED BY <2>2, <2>3
<1>3. Recalculate(plan, h).prep.speed = plan.prep.speed
  BY <1>2
<1>4. Reinitialize(plan).prep.speed = plan.prep.speed
  <2> DEFINE upd == UpdateTail(plan)
             start == [upd EXCEPT !.planned = tail]
  <2>1. IsPlan(upd) /\ upd.prep \in PrepTypes /\ upd.prep.speed = plan.prep.speed
    BY <1>1
  <2>2. Reinitialize(plan) = Recalculate(start, head)
    BY DEF Reinitialize
  <2> HIDE DEF upd
  <2>3. start = [buffer |-> upd.buffer, planned |-> tail, plBlock |-> upd.plBlock, prep |-> upd.prep]
    BY <2>1 DEF IsPlan
  <2>4. IsPlan(start) /\ start.prep = upd.prep
    BY <2>3 DEF IsPlan
  <2> HIDE DEF start
  <2> QED BY <1>2, <2>1, <2>2, <2>4
<1> QED BY <1>3, <1>4

\* No step of the machine changes its speed by more than the acceleration allows, unless an override has
\* lowered the plan's limits.
Gently == prep'.speed <= prep.speed + 1 /\ (lowered \/ prep'.speed >= prep.speed - 1)

\* The invariant is inductive.
LEMMA NextPlan == PInv /\ [Next]_vars => PInv' /\ Gently
<1> SUFFICES ASSUME PInv, [Next]_vars PROVE PInv' /\ Gently
  OBVIOUS
<1>1. IInv'
  BY NextInvariant DEF PInv
<1>2. /\ IsPlan(Plan) /\ Plan.prep = prep /\ prep \in PrepTypes /\ prep.speed \in Nat
      /\ prep'.speed = prep.speed => Gently
  <2>1. PlanTypes(Plan) /\ Plan.prep = prep
    BY PlanTyped
  <2>2. prep \in PrepTypes /\ IsPlan(Plan)
    BY <2>1 DEF PlanTypes, IsPlan
  <2>3. prep.speed \in Nat
    BY <2>2 DEF PrepTypes
  <2> QED BY <2>1, <2>2, <2>3 DEF Gently
<1>3. ASSUME NEW s \in Shapes, BufferLine(s) PROVE PInv' /\ Gently
  <2>1. PInv'
    BY <1>1, <1>3, LineBuffered
  <2>2. PICK b : Adopt(Recalculate([Plan EXCEPT !.buffer[head] = b], nextHead))
    BY <1>3 DEF BufferLine
  <2> DEFINE plan == [Plan EXCEPT !.buffer[head] = b]
  <2>3. IsPlan(plan) /\ plan.prep = prep
    BY DEF IsPlan, Plan
  <2> HIDE DEF plan
  <2>4. Recalculate(plan, nextHead).prep.speed = prep.speed
    BY <1>2, <2>3, ReplanSpeed
  <2>5. prep' = Recalculate(plan, nextHead).prep
    BY <2>2 DEF Adopt, plan
  <2> QED BY <1>2, <2>1, <2>4, <2>5
<1>4. ASSUME NEW o \in Overrides, FeedOverride(o) PROVE PInv' /\ Gently
  <2>1. PInv'
    BY <1>1, <1>4, OverrideFed
  <2>2. CASE head = tail
    <3>1. prep' = prep
      BY <1>4, <2>2 DEF FeedOverride
    <3> QED BY <1>2, <2>1, <3>1
  <2>3. CASE head # tail
    <3>1. PICK limited : Adopt(Reinitialize([Plan EXCEPT !.buffer = limited]))
      BY <1>4, <2>3 DEF FeedOverride
    <3> DEFINE plan == [Plan EXCEPT !.buffer = limited]
    <3>2. IsPlan(plan) /\ plan.prep = prep
      BY DEF IsPlan, Plan
    <3> HIDE DEF plan
    <3>3. Reinitialize(plan).prep.speed = prep.speed
      BY <1>2, <3>2, ReplanSpeed
    <3>4. prep' = Reinitialize(plan).prep
      BY <3>1 DEF Adopt, plan
    <3> QED BY <1>2, <2>1, <3>3, <3>4
  <2> QED BY <2>2, <2>3
<1>5. CASE Segment
  BY <1>1, <1>5, SegmentRidden DEF Gently
<1>6. CASE CycleStart \/ ResumeIdle \/ UNCHANGED vars \/ (CycleStop /\ state = "Cycle")
  <2>1. prep' = prep
    BY <1>6 DEF CycleStart, ResumeIdle, CycleStop, vars
  <2>2. PInv'
    BY <1>1, <1>6, StartsAndStops
  <2> QED BY <1>2, <2>1, <2>2
<1>7. CASE FeedHold
  <2>1. prep' = UpdateTail(Plan).prep
    BY <1>7 DEF FeedHold, Adopt
  <2>2. UpdateTail(Plan).prep.speed = prep.speed
    BY <1>2 DEF UpdateTail, IsPlan, PrepTypes
  <2>3. PInv'
    BY <1>1, <1>7, StartsAndStops
  <2> QED BY <1>2, <2>1, <2>2, <2>3
<1>8. CASE CycleStop /\ state = "Hold"
  <2>1. prep' = Reinitialize(Plan).prep
    BY <1>8 DEF CycleStop, Adopt
  <2>2. Reinitialize(Plan).prep.speed = prep.speed
    BY <1>2, ReplanSpeed
  <2>3. PInv'
    BY <1>1, <1>8, HoldEnds
  <2> QED BY <1>2, <2>1, <2>2, <2>3
<1>9. CycleStop => state \in {"Cycle", "Hold"}
  BY DEF CycleStop
<1> QED BY <1>3, <1>4, <1>5, <1>6, <1>7, <1>8, <1>9 DEF Next

\* The distance between two queued blocks.
LEMMA LengthBetween ==
  ASSUME NEW n, NEW e, NEW m, NEW r, NEW i, NEW j, n = Count, n \in Nat,
         Plans(e, LeftsIn(Plan, n), m, n), Remaining(r, LeftsIn(Plan, n), n),
         i \in 0 .. n, j \in i .. n
  PROVE  Length(i, j) = r[i] - r[j]
<1> DEFINE l == LeftsIn(Plan, n)
           At(f, k) == IF k = j THEN 0 ELSE Queued(k).left + f[k + 1]
           sum == CHOOSE f : f = [k \in i .. j |-> At(f, k)]
<1>1. i \in Nat /\ j \in Nat /\ i <= j /\ i \in i .. j /\ j \in i .. j
  OBVIOUS
<1>2. \A k \in i .. j : k \in 0 .. n /\ r[k] \in Nat
  <2>1. \A k \in i .. j : k \in 0 .. n
    OBVIOUS
  <2> QED BY <2>1 DEF Remaining
<1>3. ASSUME NEW k \in i .. j, k # j
      PROVE  k + 1 \in i .. j /\ Queued(k).left \in Nat /\ r[k] = r[k + 1] + Queued(k).left
  <2>1. k \in 0 .. n - 1 /\ k + 1 \in i .. j
    BY <1>3
  <2>2. r[k] = r[k + 1] + l[k]
    BY <2>1 DEF Remaining
  <2>3. l[k] = Queued(k).left
    BY <2>1 DEF LeftsIn, LeftsOf, Plan, Queued, Slot
  <2>4. l[k] \in Nat
    <3>1. l \in [0 .. n - 1 -> Nat \ {0}]
      BY DEF Plans
    <3> HIDE DEF l
    <3> QED BY <2>1, <3>1
  <2> QED BY <2>1, <2>2, <2>3, <2>4
<1>4. \E f : f = [k \in i .. j |-> At(f, k)]
  <2> DEFINE f == [k \in i .. j |-> r[k] - r[j]]
  <2>1. ASSUME NEW k \in i .. j PROVE r[k] - r[j] = At(f, k)
    <3>1. CASE k = j
      BY <1>1, <1>2, <3>1
    <3>2. CASE k # j
      <4>1. f[k + 1] = r[k + 1] - r[j]
        BY <1>3, <3>2
      <4>2. r[k] \in Nat /\ r[k + 1] \in Nat /\ r[j] \in Nat
        BY <1>1, <1>2, <1>3, <3>2
      <4>3. r[k] = r[k + 1] + Queued(k).left /\ Queued(k).left \in Nat
        BY <1>3, <3>2
      <4> HIDE DEF f
      <4>4. At(f, k) = Queued(k).left + f[k + 1]
        BY <3>2
      <4> QED BY <4>1, <4>2, <4>3, <4>4
    <3> QED BY <3>1, <3>2
  <2>2. f = [k \in i .. j |-> At(f, k)]
    <3> HIDE DEF At
    <3> QED BY <2>1
  <2> QED BY <2>2
<1>5. sum = [k \in i .. j |-> At(sum, k)]
  <2> HIDE DEF At
  <2> QED BY <1>4, Zenon
<1>6. Length(i, j) = sum[i]
  BY Zenon DEF Length
<1> HIDE DEF sum
<1> DEFINE S == {k \in Nat : sum[k] = r[k] - r[j]}
<1>7. j \in S
  <2>1. sum[j] = 0
    BY <1>1, <1>5
  <2> QED BY <1>1, <1>2, <2>1
<1>8. ASSUME NEW k \in i .. j - 1, k + 1 \in S PROVE k \in S
  <2>1. k \in i .. j /\ k # j /\ k \in Nat
    BY <1>1
  <2>2. sum[k] = Queued(k).left + sum[k + 1]
    BY <1>5, <2>1
  <2>3. sum[k + 1] = r[k + 1] - r[j]
    BY <1>8
  <2>4. k + 1 \in i .. j /\ r[k] = r[k + 1] + Queued(k).left /\ Queued(k).left \in Nat
    BY <1>3, <2>1
  <2>5. r[k] \in Nat /\ r[k + 1] \in Nat /\ r[j] \in Nat
    BY <1>1, <1>2, <2>1, <2>4
  <2>6. sum[k] = r[k] - r[j]
    BY <2>2, <2>3, <2>4, <2>5
  <2> QED BY <2>1, <2>6
<1> HIDE DEF S
<1>9. i \in S
  BY <1>1, <1>7, <1>8, Downward
<1> QED BY <1>6, <1>9 DEF S

\* A kept plan is optimal: no plan of the same blocks is faster anywhere.
LEMMA PlanFastest == PInv => PlanOptimal
<1> SUFFICES ASSUME PInv, ~control.executeHold, ~lowered, NEW k \in 1 .. Count - 1
             PROVE  Queued(k).entry = OptimalEntry(k)
  BY DEF PlanOptimal
<1> DEFINE n == Count
           p == Distance(tail, planned)
           e == SpeedsIn(Plan, n)
           l == LeftsIn(Plan, n)
           m == LimitsIn(Plan, n)
           near == {Cap(j) + Length(j, k) : j \in 0 .. k}
           far == {Cap(j) + Length(k, j) : j \in k + 1 .. n}
<1>1. /\ PlanTypes(Plan) /\ OtherTypes /\ tail \in Slots /\ n \in 0 .. N - 1 /\ n \in Nat /\ p \in Nat
      /\ Plan.buffer = blockBuffer /\ Plan.planned = planned /\ Plan.plBlock = plBlock /\ Plan.prep = prep
  BY PlanTyped
<1>2. SpeedInv(Plan, tail, n, p, override, prevNominal, control, lowered)
  BY DEF PInv
<1>3. /\ QueueKept(blockBuffer, tail, n, override, prevNominal)
      /\ PlanKept(e, l, m, n, p, control.executeHold, lowered)
      /\ Affords(e, l, n, prep.speed)
  BY <1>1, <1>2 DEF SpeedInv, Speeds, SpeedsIn, LeftsIn, LimitsIn
<1>4. Plans(e, l, m, n)
  BY <1>1, <1>3, TypedPlans DEF QueueKept
<1>5. PICK r : Remaining(r, l, n)
  BY <1>3 DEF Affords
<1>6. k \in 1 .. n - 1 /\ k \in 1 .. n /\ k \in 0 .. n /\ k \in Nat /\ k \in 0 .. n - 1 /\ k # 0 /\ k # n
      /\ n \in 0 .. n /\ 0 \in 0 .. n
  BY <1>1
<1>7. /\ \A j \in 0 .. k : j \in 0 .. n /\ k \in j .. n /\ (j # 0 => j \in 1 .. n - 1)
      /\ \A j \in k + 1 .. n : j \in 0 .. n /\ j \in k .. n /\ j # 0 /\ (j # n => j \in 1 .. n - 1)
      /\ \A j \in 0 .. k : j # n
  <2> HIDE DEF n
  <2> QED BY <1>6
<1>8. \A j \in 1 .. n - 1 : j \in 0 .. n /\ j # n /\ j # 0 /\ j \in 0 .. n - 1
  <2> HIDE DEF n
  <2> QED BY <1>1
<1>9. e = SpeedsOf(blockBuffer, tail, plBlock, prep.speed, n)
  BY <1>1 DEF SpeedsIn
<1>10. Cap(0) = e[0] /\ Cap(n) = e[n] /\ \A j \in 1 .. n - 1 : Cap(j) = m[j]
  <2>1. Cap(0) = e[0]
    <3> HIDE DEF e, n
    <3>1. e[0] = IF plBlock THEN prep.speed ELSE Queued(0).entry
      BY <1>6, <1>9 DEF SpeedsOf, Queued, Slot
    <3> QED BY <3>1 DEF Cap
  <2>2. Cap(n) = e[n]
    BY <1>4, <1>6 DEF Cap, Plans
  <2>3. ASSUME NEW j \in 1 .. n - 1 PROVE Cap(j) = m[j]
    <3>1. j # 0 /\ j # Count /\ j \in 0 .. n - 1
      BY <1>8
    <3>2. m[j] = Queued(j).maxEntry
      BY <1>1, <3>1 DEF LimitsIn, LimitsOf, Queued, Slot
    <3> QED BY <3>1, <3>2 DEF Cap
  <2> QED BY <2>1, <2>2, <2>3
<1>11. Queued(k).entry = e[k]
  <2> HIDE DEF e, n
  <2> QED BY <1>6, <1>9 DEF SpeedsOf, Queued, Slot
<1>12. /\ \A j \in 0 .. k : Length(j, k) = r[j] - r[k]
       /\ \A j \in k + 1 .. n : Length(k, j) = r[k] - r[j]
  BY <1>1, <1>4, <1>5, <1>6, <1>7, LengthBetween
<1>13. \A j \in 0 .. n : e[j] \in Nat /\ r[j] \in Nat
  <2> HIDE DEF e
  <2> QED BY <1>4, <1>5 DEF Plans, Remaining
<1>14. OptimalEntry(k) = CHOOSE c \in near \cup far : \A d \in near \cup far : c <= d
  BY DEF OptimalEntry
<1> HIDE DEF e, l, m, n, p
<1>15. Below(e, m, n) /\ Climbs(e, l, 0, n) /\ Brakes(e, l, 0, n) /\ Tight(e, l, m, 1, n)
  BY <1>3 DEF PlanKept
<1>16. Brakes(e, l, 1, n)
  <2>1. \A j \in 1 .. n - 1 : j \in 0 .. n - 1
    OBVIOUS
  <2> QED BY <1>15, <2>1 DEF Brakes
<1>17. \A j \in 1 .. n - 1 : e[j] <= m[j] /\ m[j] \in Nat
  BY <1>4, <1>8, <1>15 DEF Below, Plans
<1>18. \A j \in 0 .. n : e[j] <= Cap(j) /\ Cap(j) \in Nat
  <2>1. \A j \in 0 .. n : j = 0 \/ j = n \/ j \in 1 .. n - 1
    BY <1>1
  <2> QED BY <1>10, <1>13, <1>17, <2>1
<1>19. \A d \in near \cup far : e[k] <= d
  <2>1. ASSUME NEW j \in 0 .. k PROVE e[k] <= Cap(j) + Length(j, k)
    <3>1. e[k] + r[k] <= e[j] + r[j]
      BY <1>1, <1>4, <1>5, <1>6, <1>15, FarClimb
    <3> QED BY <1>6, <1>7, <1>12, <1>13, <1>18, <3>1
  <2>2. ASSUME NEW j \in k + 1 .. n PROVE e[k] <= Cap(j) + Length(k, j)
    <3>1. j \in k .. n
      BY <1>7
    <3>2. e[k] + r[j] <= e[j] + r[k]
      BY <1>1, <1>4, <1>5, <1>6, <1>16, <3>1, FarBrake
    <3> QED BY <1>6, <1>7, <1>12, <1>13, <1>18, <3>2
  <2> QED BY <2>1, <2>2
<1>20. e[k] \in near \cup far
  <2>1. \/ \E j \in 0 .. k : e[k] + r[k] = e[j] + r[j] /\ (j = 0 \/ e[j] = m[j])
        \/ \E j \in k + 1 .. n : e[k] + r[j] = e[j] + r[k] /\ (j = n \/ e[j] = m[j])
    BY <1>1, <1>4, <1>5, <1>6, <1>15, <1>16, TightIsFastest
  <2>2. CASE \E j \in 0 .. k : e[k] + r[k] = e[j] + r[j] /\ (j = 0 \/ e[j] = m[j])
    <3>1. PICK j \in 0 .. k : e[k] + r[k] = e[j] + r[j] /\ (j = 0 \/ e[j] = m[j])
      BY <2>2
    <3>2. Cap(j) = e[j]
      BY <1>7, <1>10, <3>1
    <3>3. e[k] = Cap(j) + Length(j, k)
      BY <1>6, <1>7, <1>12, <1>13, <3>1, <3>2
    <3> QED BY <3>3
  <2>3. CASE \E j \in k + 1 .. n : e[k] + r[j] = e[j] + r[k] /\ (j = n \/ e[j] = m[j])
    <3>1. PICK j \in k + 1 .. n : e[k] + r[j] = e[j] + r[k] /\ (j = n \/ e[j] = m[j])
      BY <2>3
    <3>2. Cap(j) = e[j]
      BY <1>7, <1>10, <3>1
    <3>3. e[k] = Cap(j) + Length(k, j)
      BY <1>6, <1>7, <1>12, <1>13, <3>1, <3>2
    <3> QED BY <3>3
  <2> QED BY <2>1, <2>2, <2>3
<1>21. \A d \in near \cup far : d \in Int
  <2>1. ASSUME NEW j \in 0 .. k PROVE Cap(j) + Length(j, k) \in Int
    <3>1. Cap(j) \in Int /\ r[j] \in Int /\ r[k] \in Int /\ Length(j, k) = r[j] - r[k]
      BY <1>6, <1>7, <1>12, <1>13, <1>18
    <3> QED BY <3>1
  <2>2. ASSUME NEW j \in k + 1 .. n PROVE Cap(j) + Length(k, j) \in Int
    <3>1. Cap(j) \in Int /\ r[j] \in Int /\ r[k] \in Int /\ Length(k, j) = r[k] - r[j]
      BY <1>6, <1>7, <1>12, <1>13, <1>18
    <3> QED BY <3>1
  <2> QED BY <2>1, <2>2
<1> DEFINE caps == near \cup far
<1> HIDE DEF caps, near, far
<1>22. OptimalEntry(k) = CHOOSE c \in caps : \A d \in caps : c <= d
  BY <1>14 DEF caps
<1>23. e[k] \in caps /\ \A d \in caps : e[k] <= d /\ d \in Int
  BY <1>19, <1>20, <1>21 DEF caps
<1>24. ASSUME NEW c \in caps, \A d \in caps : c <= d PROVE c = e[k]
  BY <1>23, <1>24
<1>25. OptimalEntry(k) = e[k]
  BY <1>22, <1>23, <1>24
<1> QED BY <1>11, <1>25

\* Every variable of the planner keeps its type, for a ring of any size, any
\* moves and any overrides: in particular no speed goes below zero, whatever is
\* replanned, held, overridden and ridden.
THEOREM TypesCorrect == Spec => []TypeOK
<1>1. PInv => TypeOK
  BY DEF PInv
<1>2. PInv /\ [Next]_vars => PInv'
  BY NextPlan
<1> QED BY InitPlan, <1>1, <1>2, PTL DEF Spec

\* Unless a feed hold decelerates or an override has lowered limits, every
\* queued block's entry speed is the highest that its limit, the acceleration
\* from the tail's speed and the stop at the end of the queue allow: the
\* shortcuts of planner_recalculate(), which never looks again at the blocks
\* before block_buffer_planned, lose nothing.
THEOREM PlanIsOptimal == Spec => []PlanOptimal
<1>1. PInv /\ [Next]_vars => PInv'
  BY NextPlan
<1> QED BY InitPlan, PlanFastest, <1>1, PTL DEF Spec

\* The machine's speed never rises faster than its acceleration, and never
\* falls faster unless an override has lowered limits under way.
THEOREM AccelerationKept == Spec => AccelerationBounded
<1>1. PInv /\ [Next]_vars => PInv'
  BY NextPlan
<1>2. PInv /\ [Next]_vars => [prep'.speed <= prep.speed + 1 /\ (lowered \/ prep'.speed >= prep.speed - 1)]_vars
  BY NextPlan DEF Gently
<1> QED BY InitPlan, <1>1, <1>2, PTL DEF Spec, AccelerationBounded
=============================================================================
