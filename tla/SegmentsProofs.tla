--------------------------- MODULE SegmentsProofs ---------------------------
(***************************************************************************)
(* A slot of st_block_buffer is not written again before the last segment  *)
(* that names it has been traced: Spec => []SlotIntact, for any number of  *)
(* slots, axes, smoothings and moves.                                      *)
(*                                                                         *)
(* The slots are taken in turn, and every block that has been given one is *)
(* in the ring with at least a segment before the next is loaded.  So the  *)
(* k-th segment from the end of the ring is at most k slots behind the     *)
(* block in preparation (Behind), the ring has no more segments than there *)
(* are slots, and the next slot is free.  Two things break the turn.  A    *)
(* hold may end before the first segment of a block: it then goes on with  *)
(* that block (Slack).  After a parking move preparation goes back to the  *)
(* slot of the block it interrupted: the ring is empty then, because the   *)
(* move's end is only noticed when the interrupt has run dry and nothing   *)
(* can have been prepared since (EngineInv); and the parking move has used *)
(* the slot after it, so that its data are still there (OwnData).          *)
(*                                                                         *)
(* From there: no tick of a block is traced twice and its steps are exact, *)
(* where a step event may be divided: Spec => []PathExact.  The segments   *)
(* in the ring divide the ticks that are prepared: each has a tick of its  *)
(* block it begins at (Chained), and either it ends where the next begins, *)
(* or it ends the block and the next, of a later block in another slot,    *)
(* begins it (Joined).  The first begins where the interrupt is, which     *)
(* keeps its counters exactly when the segment names the slot it is in     *)
(* (Front, Resumes); the last ends where preparation goes on (Back).  A    *)
(* counter is then always where the ticks and the steps that were made     *)
(* have left it, modulo a whole block (Level).                             *)
(***************************************************************************)
EXTENDS Segments, TLAPS

-----------------------------------------------------------------------------
(* The inductive invariant.                                                  *)

\* How many slots j is ahead of i.
Distance(i, j) == IF j >= i THEN j - i ELSE j - i + Slots

\* The next round of preparation does not load a new block.
Unfinished == plBlock # "none" \/ prep.recalculate

\* While something moves exactly one of the interrupt, the filling of the ring and a queued
\* cycleStop will carry it on, and a motion that has run dry stays dry.
EngineInv ==
  /\ mode \in {"Idle", "Held"} => ~awake /\ ~waking /\ ~stopped
  /\ mode \in {"Cycle", "Hold", "Parking"} =>
       \/ awake /\ ~waking /\ ~stopped
       \/ ~awake /\ waking /\ ~stopped
       \/ ~awake /\ ~waking /\ stopped
  /\ "executeSysMotion" \in control <=> mode = "Parking"
  /\ "executeHold" \in control => mode \in {"Hold", "Parking"}
  /\ plBlock = "system" => mode = "Parking"
  /\ plBlock = "program" => mode # "Parking" /\ blocks # <<>>
  /\ mode = "Parking" => prep.parking
  /\ stopped /\ mode # "Cycle" =>
       ring = <<>> /\ ("endMotion" \in control \/ (plBlock = "none" /\ Source = "none"))

\* The slot preparation goes on with holds the block it goes on with.
OwnData ==
  /\ mode # "Parking" /\ prep.remaining > 0
       /\ (plBlock = "program" \/ prep.recalculate \/ prep.holdPartial)
       => blocks # <<>> /\ slots[prep.index] = Head(blocks)
  /\ mode = "Parking" /\ prep.remaining > 0 /\ Unfinished => slots[prep.index] = system
  /\ mode = "Parking" /\ prep.holdPartial /\ prep.lastRemaining > 0
       => blocks # <<>> /\ slots[prep.lastIndex] = Head(blocks)
  /\ mode = "Parking" /\ prep.holdPartial
       => prep.index = IF Unfinished THEN NextIndex(prep.lastIndex) ELSE prep.lastIndex

Slack == IF "executeHold" \in control /\ Unfinished THEN 1 ELSE 0
Behind == \A k \in 1 .. Len(ring) : Distance(ring[k].slot, prep.index) <= Len(ring) - k + Slack

IInv == TypeOK /\ EngineInv /\ OwnData /\ Behind /\ SlotIntact

-----------------------------------------------------------------------------
(* Types.                                                                    *)

LEMMA NextIndexType == \A i \in SlotIndex : NextIndex(i) \in SlotIndex
BY SegmentsAssumption DEF SlotIndex, NextIndex

LEMMA NoMoveType == NoMove \in Block
BY SegmentsAssumption DEF NoMove, Block, Idents

\* The block a round of prep_buffer() works on, and what it makes of it.
LEMMA MotionType ==
  ASSUME TypeOK, Prepping # "none", plBlock = "program" => blocks # <<>>
  PROVE  Motion(Prepping) \in Block
BY DEF TypeOK, Prepping, Motion, Source

LEMMA LoadedType ==
  ASSUME NEW p \in PrepState, NEW m \in Block
  PROVE  Loaded(p, m) \in PrepState
BY NextIndexType DEF Loaded, Reloaded, PrepState, Block

LEMMA SmallTypes ==
  ASSUME TypeOK
  PROVE  /\ Recomputed(prep) \in PrepState
         /\ \A p \in PrepState : Partial(p) \in PrepState /\ Restored(p) \in PrepState
         /\ NoPrep \in PrepState /\ NoStep \in StepperState
<1>1. 0 \in SlotIndex
  BY SegmentsAssumption DEF SlotIndex
<1>2. Recomputed(prep) \in PrepState
  BY DEF TypeOK, Recomputed, PrepState
<1>3. ASSUME NEW p \in PrepState PROVE Partial(p) \in PrepState /\ Restored(p) \in PrepState
  BY DEF Partial, Restored, PrepState
<1>4. NoPrep \in PrepState /\ NoStep \in StepperState
  BY <1>1 DEF NoPrep, NoStep, PrepState, StepperState
<1> QED
  BY <1>2, <1>3, <1>4

LEMMA PrepType ==
  ASSUME TypeOK, Prep, plBlock = "program" => blocks # <<>>
  PROVE  TypeOK'
<1> DEFINE m == Motion(Prepping)
           p == Loaded(prep, m)
<1>1. Prepping \in {"program", "system"} /\ m \in Block /\ p \in PrepState
  BY MotionType, LoadedType DEF Prep, CanPrep, TypeOK, PrepState, Prepping, Source
<1>2. slots' \in [SlotIndex -> Block]
  BY <1>1 DEF Prep, TypeOK, PrepState
<1>3. CASE Bail(p)
  BY <1>1, <1>2, <1>3, SmallTypes DEF Prep, Bail, TypeOK, PrepState
<1>4. CASE Cut(p, m)
  <2>1. PICK n \in 1 .. p.remaining, s \in Smoothings : Cut(p, m)!(n, s)
    BY <1>4 DEF Cut
  <2> DEFINE seg == [slot |-> p.index, ticks |-> n * s, smoothing |-> s, of |-> m]
             q == [p EXCEPT !.remaining = @ - n]
  <2>2. n * s \in Nat \ {0}
    BY <1>1, SegmentsAssumption DEF PrepState
  <2>3. seg \in Segment /\ q \in PrepState
    BY <1>1, <2>2 DEF Segment, PrepState
  <2>4. ring' = Append(ring, seg) /\ ring' \in Seq(Segment) /\ Len(ring') <= Slots
    BY <2>1, <2>3, SegmentsAssumption DEF Prep, CanPrep, Room, TypeOK
  <2>5. prep' \in PrepState /\ plBlock' \in {"none", "program", "system"}
    BY <1>1, <2>1, <2>3, SmallTypes
  <2>6. blocks' \in Seq(Block)
    <3>1. blocks' = blocks \/ (blocks' = Tail(blocks) /\ Prepping = "program")
      BY <1>1, <2>1
    <3> QED
      BY <3>1 DEF TypeOK, Prepping, Source
  <2>7. control' \subseteq {"executeHold", "endMotion", "executeSysMotion"}
    BY <2>1 DEF TypeOK
  <2>8. ring # <<>> => ring' # <<>>
    BY <2>4, <2>3 DEF TypeOK
  <2> QED
    BY <1>2, <2>4, <2>5, <2>6, <2>7, <2>8 DEF Prep, TypeOK, PrepState
<1> QED
  BY <1>3, <1>4 DEF Prep

LEMMA StepperRecord ==
  ASSUME NEW b \in BOOLEAN, NEW n \in Nat, NEW x \in SlotIndex,
         NEW c \in [Axes -> Nat], NEW i \in [Axes -> Nat]
  PROVE  [busy |-> b, count |-> n, index |-> x, counter |-> c, increment |-> i] \in StepperState
BY DEF StepperState

\* The segment being traced, after this tick.
LEMMA PulseType ==
  ASSUME TypeOK, Pulse
  PROVE  TypeOK'
<1> DEFINE s == IF st.busy THEN st ELSE Fetched
           seg == Head(ring)
<1>1. seg \in Segment
  BY DEF Pulse, TypeOK
<1>2. Finest \in Nat /\ seg.smoothing \in Nat /\ (Finest \div seg.smoothing) \in Nat
  BY <1>1, SegmentsAssumption DEF Segment
<1>3. s \in StepperState /\ s.count > 0
  <2>1. CASE st.busy
    BY <2>1 DEF TypeOK, StepperState
  <2>2. CASE ~st.busy
    <3> DEFINE m == slots[seg.slot]
    <3>1. m \in Block
      BY <1>1 DEF TypeOK, Segment
    <3>2. (m.events * Finest) \div 2 \in Nat
      BY <3>1, <1>2 DEF Block
    <3>3. \A a \in Axes : m.steps[a] * (Finest \div seg.smoothing) \in Nat
      BY <3>1, <1>2 DEF Block
    <3>4. Fetched.counter \in [Axes -> Nat]
      BY <3>2 DEF Fetched, TypeOK, StepperState
    <3>5. Fetched.increment \in [Axes -> Nat]
      BY <3>3 DEF Fetched
    <3>6. Fetched = [busy |-> TRUE, count |-> seg.ticks, index |-> seg.slot,
                    counter |-> Fetched.counter, increment |-> Fetched.increment]
      BY DEF Fetched
    <3>7. seg.ticks \in Nat /\ seg.ticks > 0 /\ seg.slot \in SlotIndex
      BY <1>1 DEF Segment
    <3>8. Fetched \in StepperState
      BY <3>4, <3>5, <3>6, <3>7, StepperRecord, Zenon
    <3>9. Fetched.count = seg.ticks
      BY DEF Fetched
    <3> QED
      BY <2>2, <3>7, <3>8, <3>9
  <2> QED
    BY <2>1, <2>2
<1> HIDE DEF s
<1>4. Advance(s) \in StepperState
  <2>1. slots[s.index] \in Block
    BY <1>3 DEF TypeOK, StepperState
  <2>2. slots[s.index].events * Finest \in Nat
    BY <2>1, <1>2 DEF Block
  <2> DEFINE full == slots[s.index].events * Finest
  <2>3. \A a \in Axes : s.counter[a] + s.increment[a] - (IF Steps(s, a) THEN full ELSE 0) \in Nat
    BY <1>3, <2>2 DEF Steps, StepperState
  <2> DEFINE counter == [a \in Axes |-> s.counter[a] + s.increment[a] - (IF Steps(s, a) THEN full ELSE 0)]
  <2>4. counter \in [Axes -> Nat]
    BY <2>3
  <2>5. Advance(s) = [busy |-> s.count > 1, count |-> s.count - 1, index |-> s.index,
                      counter |-> counter, increment |-> s.increment]
    BY DEF Advance
  <2>6. /\ (s.count > 1) \in BOOLEAN /\ s.count - 1 \in Nat /\ s.index \in SlotIndex
        /\ s.increment \in [Axes -> Nat]
    BY <1>3 DEF StepperState
  <2> HIDE DEF counter
  <2> QED
    BY <2>4, <2>5, <2>6, StepperRecord, Zenon
<1>5. ring' \in Seq(Segment) /\ Len(ring') <= Slots
  BY SegmentsAssumption DEF Pulse, TypeOK
<1>6. made' \in [Idents -> MadeState]
  <2>1. seg.of \in Block /\ seg.of.id \in Idents
    BY <1>1 DEF Segment, Block
  <2>2. made[seg.of.id] \in MadeState
    BY <2>1 DEF TypeOK
  <2> DEFINE n == [of |-> seg.of, ticks |-> made[seg.of.id].ticks + Finest \div seg.smoothing,
                   steps |-> [a \in Axes |-> made[seg.of.id].steps[a] + (IF Steps(s, a) THEN 1 ELSE 0)]]
  <2>3. n \in MadeState
    BY <1>2, <2>1, <2>2 DEF MadeState
  <2>4. made' = [made EXCEPT ![seg.of.id] = n]
    BY DEF Pulse, Record, s
  <2> HIDE DEF n
  <2> QED
    BY <2>3, <2>4 DEF TypeOK
<1>7. st' = Advance(s) /\ ring' = IF s.count > 1 THEN ring ELSE Tail(ring)
  BY DEF Pulse, s
<1>8. st'.busy => st'.count > 0 /\ ring' # <<>>
  <2>1. (Advance(s).busy => s.count > 1) /\ Advance(s).count = s.count - 1 /\ s.count \in Nat
    BY <1>3 DEF Advance, StepperState
  <2>2. ring # <<>>
    BY DEF Pulse
  <2>3. ASSUME st'.busy PROVE s.count > 1
    BY <1>7, <2>1, <2>3
  <2> QED
    BY <1>7, <2>1, <2>2, <2>3
<1> QED
  BY <1>4, <1>5, <1>6, <1>7, <1>8 DEF Pulse, TypeOK, protocol, planner, preparation

\* What mc_linear() adds to the plan, and what parking does.
LEMMA NewBlockType ==
  ASSUME TypeOK
  PROVE  /\ moves < MaxMoves => moves + 1 \in 0 .. MaxMoves
         /\ parks < MaxParks => parks + 1 \in 0 .. MaxParks
         /\ \A m \in Moves : moves < MaxMoves =>
              [id |-> moves + 1, events |-> m.events, steps |-> m.steps] \in Block
         /\ \A n \in Nat : parks < MaxParks => ParkMove(MaxMoves + parks + 1, n) \in Block
<1>1. moves \in Nat /\ parks \in Nat /\ MaxMoves \in Nat /\ MaxParks \in Nat
  BY SegmentsAssumption DEF TypeOK
<1>2. /\ moves < MaxMoves => moves + 1 \in Idents /\ moves + 1 \in 0 .. MaxMoves
      /\ parks < MaxParks => MaxMoves + parks + 1 \in Idents /\ parks + 1 \in 0 .. MaxParks
  BY <1>1 DEF Idents
<1>3. \A m \in Moves : m.events \in Nat /\ m.steps \in [Axes -> Nat]
  BY SegmentsAssumption
<1>4. ASSUME NEW i \in Idents, NEW n \in Nat PROVE ParkMove(i, n) \in Block
  BY DEF ParkMove, Block
<1> QED
  BY <1>2, <1>3, <1>4 DEF Block

LEMMA OtherTypes ==
  ASSUME TypeOK,
         \/ \E m \in Moves : BufferLine(m)
         \/ WakeUp \/ RunDry \/ Replan
         \/ CycleStart \/ Hold \/ CycleStop \/ ReopenDoor \/ Flush
         \/ \E n \in ParkLengths, back \in BOOLEAN : Moveto(n, back)
  PROVE  TypeOK'
<1> USE DEF protocol, planner, preparation
<1>0. /\ Recomputed(prep) \in PrepState /\ NoPrep \in PrepState /\ NoStep \in StepperState
      /\ Restored(Recomputed(prep)) \in PrepState
  BY SmallTypes
<1>1. ASSUME NEW m \in Moves, BufferLine(m) PROVE TypeOK'
  <2> DEFINE b == [id |-> moves + 1, events |-> m.events, steps |-> m.steps]
  <2>1. b \in Block /\ moves' \in 0 .. MaxMoves
    BY <1>1, NewBlockType DEF BufferLine
  <2>2. blocks' \in Seq(Block)
    BY <1>1, <2>1 DEF BufferLine, TypeOK
  <2> QED
    BY <1>1, <2>1, <2>2 DEF BufferLine, TypeOK
<1>2. CASE WakeUp \/ RunDry
  BY <1>2 DEF WakeUp, RunDry, TypeOK
<1>6. CASE Replan
  BY <1>0, <1>6 DEF Replan, TypeOK
<1>7. CASE CycleStart
  BY <1>7 DEF CycleStart, TypeOK
<1>8. CASE Hold \/ ReopenDoor
  BY <1>0, <1>8 DEF Hold, ReopenDoor, TypeOK
<1>3. CASE CycleStop
  BY <1>0, <1>3 DEF CycleStop, TypeOK
<1>4. CASE Flush
  <2>1. Unmade \in MadeState
    BY NoMoveType DEF Unmade, MadeState
  <2>2. made' \in [Idents -> MadeState]
    BY <1>4, <2>1 DEF Flush
  <2> QED
    <3>1. ~NoStep.busy
      BY DEF NoStep
    <3>2. ring' \in Seq(Segment) /\ Len(ring') <= Slots /\ blocks' \in Seq(Block)
      BY <1>4, SegmentsAssumption DEF Flush, StepperReset
    <3> QED
      BY <1>0, <1>4, <2>2, <3>1, <3>2 DEF Flush, StepperReset, TypeOK
<1>5. ASSUME NEW n \in ParkLengths, NEW back \in BOOLEAN, Moveto(n, back) PROVE TypeOK'
  <2>1. system' \in Block /\ parks' \in 0 .. MaxParks
    <3>1. parks < MaxParks /\ parks' = parks + 1 /\ system' = ParkMove(MaxMoves + parks + 1, n)
      BY <1>5 DEF Moveto
    <3>2. n \in Nat
      BY SegmentsAssumption
    <3> QED
      BY <3>1, <3>2, NewBlockType
  <2>2. prep' \in PrepState
    BY <1>5 DEF Moveto, ParkingSetup, TypeOK, PrepState
  <2>3. disturbed' \subseteq {"saved", "unsaved", "leftover"}
    BY <1>5 DEF Moveto, Met, TypeOK
  <2> QED
    BY <1>5, <2>1, <2>2, <2>3 DEF Moveto, ParkingSetup, TypeOK
<1> QED
  BY <1>1, <1>2, <1>3, <1>4, <1>5, <1>6, <1>7, <1>8

LEMMA TypeStep ==
  ASSUME TypeOK, EngineInv, [Next]_vars
  PROVE  TypeOK'
<1>1. CASE UNCHANGED vars
  BY <1>1 DEF vars, protocol, planner, preparation, TypeOK
<1>2. CASE Next
  BY <1>2, PrepType, PulseType, OtherTypes DEF Next, Interrupt, EngineInv
<1> QED
  BY <1>1, <1>2

-----------------------------------------------------------------------------
(* The steps that prepare.                                                   *)

LEMMA SlotArithmetic ==
  /\ \A i \in SlotIndex : NextIndex(i) \in SlotIndex /\ NextIndex(i) # i /\ Distance(i, i) = 0
  /\ \A i, j \in SlotIndex : Distance(i, j) \in 0 .. Slots - 1
  /\ \A i, j \in SlotIndex : Distance(i, j) <= Slots - 2 =>
       i # NextIndex(j) /\ Distance(i, NextIndex(j)) = Distance(i, j) + 1
BY SegmentsAssumption DEF SlotIndex, NextIndex, Distance

LEMMA DistanceType == \A i, j \in SlotIndex : Distance(i, j) \in Int
BY SegmentsAssumption DEF SlotIndex, Distance

\* What a round of prep_buffer() does to the slots and the ring.
LEMMA PrepStep ==
  ASSUME IInv, Prep
  PROVE  LET m == Motion(Prepping)
             p == Loaded(prep, m)
         IN /\ m \in Block /\ p \in PrepState
            /\ Prepping = (IF mode = "Parking" THEN "system" ELSE "program")
            /\ mode # "Parking" => blocks # <<>> /\ m = Head(blocks)
            /\ mode = "Parking" => m = system
            /\ Unfinished => p.index = prep.index /\ p.remaining = prep.remaining /\ slots' = slots
            /\ ~Unfinished => p.index = NextIndex(prep.index) /\ slots' = [slots EXCEPT ![p.index] = m]
            /\ p.remaining > 0 => slots'[p.index] = m
<1> DEFINE m == Motion(Prepping)
           p == Loaded(prep, m)
<1>1. Prepping = (IF mode = "Parking" THEN "system" ELSE "program")
  BY DEF IInv, EngineInv, TypeOK, Prep, CanPrep, Prepping, Source
<1>2. (mode # "Parking" => blocks # <<>> /\ m = Head(blocks)) /\ (mode = "Parking" => m = system)
  BY <1>1 DEF IInv, EngineInv, TypeOK, Prep, CanPrep, Prepping, Source, Motion
<1>3. m \in Block /\ p \in PrepState
  BY MotionType, LoadedType DEF Prep, CanPrep, IInv, EngineInv, TypeOK
<1>4. Unfinished => p.index = prep.index /\ p.remaining = prep.remaining /\ slots' = slots
  BY DEF Prep, IsReload, Unfinished, Loaded, IInv, TypeOK, PrepState
<1>5. ~Unfinished => p.index = NextIndex(prep.index) /\ slots' = [slots EXCEPT ![p.index] = m]
  BY DEF Prep, IsReload, Unfinished, Loaded, Reloaded, IInv, TypeOK, PrepState
<1>6. ASSUME Unfinished, p.remaining > 0 PROVE slots'[p.index] = m
  <2>1. prep.remaining > 0 /\ p.index = prep.index /\ slots' = slots
    BY <1>4, <1>6
  <2>2. CASE mode = "Parking"
    BY <1>2, <1>6, <2>1, <2>2 DEF IInv, OwnData
  <2>3. CASE mode # "Parking"
    <3>1. plBlock = "program" \/ prep.recalculate
      BY <1>6, <2>3 DEF Unfinished, IInv, EngineInv, TypeOK
    <3> QED
      BY <1>2, <2>1, <2>3, <3>1 DEF IInv, OwnData
  <2> QED
    BY <2>2, <2>3
<1>7. ~Unfinished => slots'[p.index] = m
  BY <1>3, <1>5 DEF IInv, TypeOK, PrepState
<1> QED
  BY <1>1, <1>2, <1>3, <1>4, <1>5, <1>6, <1>7

\* Loading a block spares the slots of the ring.
LEMMA RingSpared ==
  ASSUME IInv, Prep, NEW k \in 1 .. Len(ring)
  PROVE  LET p == Loaded(prep, Motion(Prepping))
         IN /\ slots'[ring[k].slot] = ring[k].of
            /\ Distance(ring[k].slot, p.index) <=
                 Len(ring) - k + (IF Unfinished THEN Slack ELSE 1)
<1> DEFINE p == Loaded(prep, Motion(Prepping))
<1>1. ring[k].slot \in SlotIndex /\ prep.index \in SlotIndex
  <2>1. ring[k] \in Segment /\ prep \in PrepState
    BY DEF IInv, TypeOK
  <2> QED
    BY <2>1 DEF Segment, PrepState
<1>2. slots[ring[k].slot] = ring[k].of /\ Distance(ring[k].slot, prep.index) <= Len(ring) - k + Slack
  BY DEF IInv, SlotIntact, Behind, TypeOK
<1>3. CASE Unfinished
  BY <1>2, <1>3, PrepStep
<1>4. CASE ~Unfinished
  <2>1. Distance(ring[k].slot, prep.index) <= Len(ring) - k
    BY <1>2, <1>4 DEF Slack
  <2>2. Distance(ring[k].slot, prep.index) \in Int
    BY <1>1, DistanceType
  <2>3. Len(ring) \in Nat /\ Len(ring) < Slots
    BY DEF Prep, CanPrep, Room, IInv, TypeOK
  <2>4. Distance(ring[k].slot, prep.index) <= Slots - 2
    BY <2>1, <2>2, <2>3, SegmentsAssumption
  <2>5. p.index = NextIndex(prep.index) /\ slots' = [slots EXCEPT ![p.index] = Motion(Prepping)]
    BY <1>4, PrepStep
  <2>6. /\ ring[k].slot # p.index
        /\ Distance(ring[k].slot, p.index) = Distance(ring[k].slot, prep.index) + 1
    <3>1. \A i, j \in SlotIndex : Distance(i, j) <= Slots - 2 =>
            i # NextIndex(j) /\ Distance(i, NextIndex(j)) = Distance(i, j) + 1
      BY SlotArithmetic
    <3> QED
      BY <1>1, <2>4, <2>5, <3>1
  <2>7. slots'[ring[k].slot] = slots[ring[k].slot]
    BY <1>1, <2>5, <2>6 DEF IInv, TypeOK
  <2> QED
    BY <1>2, <1>4, <2>1, <2>2, <2>3, <2>6, <2>7
<1> QED
  BY <1>3, <1>4

\* The outcomes of a round: a segment of the block in its slot, or none as a hold ends.
LEMMA PrepOutcome ==
  ASSUME IInv, Prep
  PROVE  LET m == Motion(Prepping)
             p == Loaded(prep, m)
         IN /\ prep'.index = p.index
            /\ prep'.lastIndex = prep.lastIndex /\ prep'.lastRemaining = prep.lastRemaining
            /\ prep'.parking = prep.parking
            /\ mode = "Parking" => prep'.holdPartial = prep.holdPartial
            /\ mode = "Parking" => plBlock' = "system" /\ blocks' = blocks
            /\ mode # "Parking" => plBlock' \in {"none", "program"}
            /\ plBlock' = "program" => blocks' = blocks
            /\ prep'.remaining > 0 => p.remaining > 0 /\ plBlock' = Prepping /\ blocks' = blocks
            /\ control' = control \/ control' = control \cup {"endMotion"}
            /\ \/ /\ ring' = ring
                  /\ "executeHold" \in control' /\ plBlock' # "none"
               \/ \E seg \in Segment :
                    ring' = Append(ring, seg) /\ seg.slot = p.index /\ seg.of = m /\ p.remaining > 0
<1> DEFINE m == Motion(Prepping)
           p == Loaded(prep, m)
<1>1. /\ m \in Block /\ p \in PrepState
      /\ Prepping = (IF mode = "Parking" THEN "system" ELSE "program")
  BY PrepStep
<1>2. p.lastIndex = prep.lastIndex /\ p.lastRemaining = prep.lastRemaining /\ p.parking = prep.parking
  BY DEF Loaded, Reloaded, IInv, TypeOK, PrepState
<1>3. mode = "Parking" => p.parking /\ p.holdPartial = prep.holdPartial
  <2>1. mode = "Parking" => prep.parking
    BY DEF IInv, EngineInv
  <2> QED
    BY <2>1 DEF Loaded, Reloaded, IInv, TypeOK, PrepState
<1> HIDE DEF m, p
<1>4. CASE Bail(p)
  <2>1. /\ Partial(p).index = p.index /\ Partial(p).remaining = p.remaining
        /\ Partial(p).lastIndex = p.lastIndex /\ Partial(p).lastRemaining = p.lastRemaining
        /\ Partial(p).parking = p.parking
        /\ p.parking => Partial(p).holdPartial = p.holdPartial
    BY <1>1 DEF Partial, PrepState
  <2> QED
    BY <1>1, <1>2, <1>3, <1>4, <2>1 DEF Bail, m, p
<1>5. CASE Cut(p, m)
  <2>1. PICK n \in 1 .. p.remaining, s \in Smoothings : Cut(p, m)!(n, s)
    BY <1>5 DEF Cut
  <2> DEFINE seg == [slot |-> p.index, ticks |-> n * s, smoothing |-> s, of |-> m]
             q == [p EXCEPT !.remaining = @ - n]
  <2>2. p.remaining \in Nat /\ p.remaining > 0 /\ n * s \in Nat \ {0}
    BY <1>1, SegmentsAssumption DEF PrepState
  <2>3. seg \in Segment /\ seg.slot = p.index /\ seg.of = m /\ ring' = Append(ring, seg)
    BY <1>1, <2>1, <2>2 DEF Segment, PrepState
  <2>4. /\ q.index = p.index /\ q.remaining = p.remaining - n
        /\ q.lastIndex = p.lastIndex /\ q.lastRemaining = p.lastRemaining
        /\ q.parking = p.parking /\ q.holdPartial = p.holdPartial
        /\ Partial(q).index = q.index /\ Partial(q).remaining = q.remaining
        /\ Partial(q).lastIndex = q.lastIndex /\ Partial(q).lastRemaining = q.lastRemaining
        /\ Partial(q).parking = q.parking
        /\ q.parking => Partial(q).holdPartial = q.holdPartial
    BY <1>1 DEF Partial, PrepState
  <2>5. prep' = q \/ prep' = Partial(q)
    BY <2>1
  <2>6. /\ prep'.index = p.index /\ prep'.remaining = q.remaining
        /\ prep'.lastIndex = p.lastIndex /\ prep'.lastRemaining = p.lastRemaining
        /\ prep'.parking = p.parking
        /\ p.parking => prep'.holdPartial = p.holdPartial
    BY <2>4, <2>5
  <2>7. /\ q.remaining > 0 => plBlock' = Prepping /\ blocks' = blocks
        /\ ~(q.remaining > 0) /\ Prepping = "system" => plBlock' = "system" /\ blocks' = blocks
        /\ ~(q.remaining > 0) /\ Prepping # "system" => plBlock' = "none"
        /\ control' = control \/ control' = control \cup {"endMotion"}
    BY <2>1
  <2> HIDE DEF seg, q
  <2> QED
    BY <1>1, <1>2, <1>3, <2>2, <2>3, <2>6, <2>7 DEF m, p
<1> QED
  BY <1>4, <1>5 DEF Prep, m, p

LEMMA PrepKeeps ==
  ASSUME IInv, Prep
  PROVE  EngineInv' /\ OwnData' /\ Behind' /\ SlotIntact'
<1> DEFINE m == Motion(Prepping)
           p == Loaded(prep, m)
<1>1. /\ m \in Block /\ p.index \in SlotIndex
      /\ Prepping = (IF mode = "Parking" THEN "system" ELSE "program")
      /\ mode # "Parking" => blocks # <<>> /\ m = Head(blocks)
      /\ mode = "Parking" => m = system
      /\ Unfinished => p.index = prep.index /\ slots' = slots
      /\ ~Unfinished => p.index = NextIndex(prep.index) /\ slots' = [slots EXCEPT ![p.index] = m]
      /\ p.remaining > 0 => slots'[p.index] = m
  BY PrepStep DEF PrepState
<1>2. \A k \in 1 .. Len(ring) :
        slots'[ring[k].slot] = ring[k].of /\ Distance(ring[k].slot, p.index) <= Len(ring) - k + 1
  <2> TAKE k \in 1 .. Len(ring)
  <2>1. ring[k].slot \in SlotIndex
    <3>1. ring[k] \in Segment
      BY DEF IInv, TypeOK
    <3> QED
      BY <3>1 DEF Segment
  <2>2. Distance(ring[k].slot, p.index) \in Int /\ Len(ring) \in Nat
    <3>1. Distance(ring[k].slot, p.index) \in Int
      BY <1>1, <2>1, DistanceType
    <3>2. Len(ring) \in Nat
      BY DEF IInv, TypeOK
    <3> QED
      BY <3>1, <3>2
  <2>3. Slack \in 0 .. 1
    BY DEF Slack
  <2>4. /\ slots'[ring[k].slot] = ring[k].of
        /\ Distance(ring[k].slot, p.index) <= Len(ring) - k + (IF Unfinished THEN Slack ELSE 1)
    BY RingSpared
  <2> QED
    BY <2>2, <2>3, <2>4
<1>3. /\ prep'.index = p.index
      /\ prep'.lastIndex = prep.lastIndex /\ prep'.lastRemaining = prep.lastRemaining
      /\ prep'.parking = prep.parking
      /\ mode = "Parking" => prep'.holdPartial = prep.holdPartial
      /\ mode = "Parking" => plBlock' = "system" /\ blocks' = blocks
      /\ mode # "Parking" => plBlock' \in {"none", "program"}
      /\ plBlock' = "program" => blocks' = blocks
      /\ prep'.remaining > 0 => p.remaining > 0 /\ plBlock' = Prepping /\ blocks' = blocks
      /\ control' = control \/ control' = control \cup {"endMotion"}
  BY PrepOutcome
<1>4. \/ /\ ring' = ring
         /\ "executeHold" \in control' /\ plBlock' # "none"
      \/ \E seg \in Segment :
           ring' = Append(ring, seg) /\ seg.slot = p.index /\ seg.of = m /\ p.remaining > 0
  BY PrepOutcome
<1> HIDE DEF m, p
<1>5. UNCHANGED <<mode, stopped, system, awake, waking>>
  BY DEF Prep
<1>6. EngineInv'
  <2>1. ~(stopped /\ mode # "Cycle")
    BY DEF Prep, CanPrep, IInv, EngineInv, Prepping
  <2>2. plBlock' = "program" => blocks' # <<>>
    BY <1>1, <1>3
  <2> QED
    BY <1>1, <1>3, <1>5, <2>1, <2>2 DEF IInv, EngineInv
<1>7. OwnData'
  <2>1. mode # "Parking" /\ prep'.remaining > 0 => blocks' # <<>> /\ slots'[prep'.index] = Head(blocks')
    BY <1>1, <1>3
  <2>2. mode = "Parking" /\ prep'.remaining > 0 => slots'[prep'.index] = system'
    BY <1>1, <1>3, <1>5
  <2>3. ASSUME mode = "Parking", prep.holdPartial
        PROVE  /\ prep.lastRemaining > 0 => blocks # <<>> /\ slots'[prep.lastIndex] = Head(blocks)
               /\ prep'.index = NextIndex(prep.lastIndex)
    <3>1. CASE Unfinished
      BY <1>1, <1>3, <2>3, <3>1 DEF IInv, OwnData
    <3>2. CASE ~Unfinished
      <4>1. prep.index = prep.lastIndex /\ prep.lastIndex \in SlotIndex
        BY <2>3, <3>2 DEF IInv, OwnData, TypeOK, PrepState
      <4>2. p.index # prep.lastIndex /\ slots \in [SlotIndex -> Block]
        BY <1>1, <3>2, <4>1, SlotArithmetic DEF IInv, TypeOK
      <4>3. slots'[prep.lastIndex] = slots[prep.lastIndex]
        BY <1>1, <3>2, <4>1, <4>2
      <4> QED
        BY <1>1, <1>3, <2>3, <3>2, <4>1, <4>3 DEF IInv, OwnData
    <3> QED
      BY <3>1, <3>2
  <2>4. mode = "Parking" => Unfinished'
    BY <1>3 DEF Unfinished
  <2> QED
    BY <1>3, <1>5, <2>1, <2>2, <2>3, <2>4 DEF OwnData
<1>8. CASE ring' = ring /\ "executeHold" \in control' /\ plBlock' # "none"
  <2>1. Slack' = 1
    BY <1>8 DEF Slack, Unfinished
  <2>2. DOMAIN ring = 1 .. Len(ring)
    BY DEF IInv, TypeOK
  <2>3. SlotIntact'
    BY <1>2, <1>8, <2>2 DEF SlotIntact
  <2>4. Behind'
    BY <1>2, <1>3, <1>8, <2>1 DEF Behind
  <2> QED
    BY <1>6, <1>7, <2>3, <2>4
<1>9. ASSUME NEW seg \in Segment,
             ring' = Append(ring, seg), seg.slot = p.index, seg.of = m, p.remaining > 0
      PROVE  Behind' /\ SlotIntact'
  <2>1. Slack' \in 0 .. 1
    BY DEF Slack
  <2>2. /\ ring \in Seq(Segment) /\ Len(ring) \in Nat /\ Len(ring') = Len(ring) + 1
        /\ DOMAIN ring' = 1 .. Len(ring) + 1
        /\ \A k \in 1 .. Len(ring) : ring'[k] = ring[k]
        /\ ring'[Len(ring) + 1] = seg
    BY <1>9 DEF IInv, TypeOK
  <2>3. ASSUME NEW k \in 1 .. Len(ring) + 1
        PROVE  /\ slots'[ring'[k].slot] = ring'[k].of
               /\ Distance(ring'[k].slot, p.index) <= Len(ring) + 1 - k + Slack'
    <3>1. CASE k \in 1 .. Len(ring)
      <4>1. Distance(ring[k].slot, p.index) <= Len(ring) - k + 1 /\ slots'[ring[k].slot] = ring[k].of
        BY <1>2, <3>1
      <4>2. ring[k] \in Segment
        BY <2>2, <3>1
      <4>3. Distance(ring[k].slot, p.index) \in Int
        BY <1>1, <4>2, DistanceType DEF Segment
      <4> QED
        BY <2>1, <2>2, <3>1, <4>1, <4>3
    <3>2. CASE k = Len(ring) + 1
      <4>1. ring'[k] = seg /\ Distance(p.index, p.index) = 0
        BY <1>1, <2>2, <3>2, SlotArithmetic
      <4>2. Len(ring) + 1 - k = 0
        BY <2>2, <3>2
      <4> QED
        BY <1>1, <1>9, <2>1, <4>1, <4>2
    <3> QED
      BY <2>2, <3>1, <3>2
  <2>4. SlotIntact'
    BY <2>2, <2>3 DEF SlotIntact
  <2>5. Behind'
    BY <1>3, <2>2, <2>3 DEF Behind
  <2> QED
    BY <2>4, <2>5
<1> QED
  BY <1>4, <1>6, <1>7, <1>8, <1>9

-----------------------------------------------------------------------------
(* The interrupt and the protocol.                                           *)

\* A tick takes at most the oldest segment from the ring.
LEMMA PulseKeeps ==
  ASSUME IInv, Pulse
  PROVE  EngineInv' /\ OwnData' /\ Behind' /\ SlotIntact'
<1> USE DEF protocol, planner, preparation
<1>1. UNCHANGED <<mode, control, stopped, blocks, system, plBlock, prep, slots, awake, waking>>
  BY DEF Pulse
<1>2. EngineInv'
  BY <1>1 DEF Pulse, IInv, EngineInv, Source
<1>3. OwnData' /\ Slack' = Slack
  BY <1>1 DEF IInv, OwnData, Unfinished, Slack
<1>4. CASE ring' = ring
  BY <1>1, <1>2, <1>3, <1>4 DEF IInv, Behind, SlotIntact
<1>5. CASE ring' = Tail(ring)
  <2>1. /\ ring \in Seq(Segment) /\ Len(ring) \in Nat \ {0} /\ Len(ring') = Len(ring) - 1
        /\ DOMAIN ring' = 1 .. Len(ring) - 1 /\ DOMAIN ring = 1 .. Len(ring)
        /\ \A k \in 1 .. Len(ring) - 1 : ring'[k] = ring[k + 1]
    BY <1>5 DEF Pulse, IInv, TypeOK
  <2>2. \A k \in 1 .. Len(ring) - 1 : k + 1 \in 1 .. Len(ring) /\ Len(ring) - (k + 1) = Len(ring') - k
    BY <2>1
  <2>3. SlotIntact'
    BY <1>1, <2>1, <2>2 DEF IInv, SlotIntact
  <2>4. Behind'
    <3>1. ASSUME NEW k \in 1 .. Len(ring) - 1
          PROVE  Distance(ring'[k].slot, prep.index) <= Len(ring') - k + Slack
      <4>1. Distance(ring[k + 1].slot, prep.index) <= Len(ring) - (k + 1) + Slack
        BY <2>2 DEF IInv, Behind
      <4> QED
        BY <2>1, <2>2, <4>1
    <3> QED
      BY <1>1, <1>3, <2>1, <3>1 DEF Behind
  <2> QED
    BY <1>2, <1>3, <2>3, <2>4
<1> QED
  BY <1>4, <1>5 DEF Pulse

LEMMA RecomputedFields ==
  ASSUME TypeOK
  PROVE  /\ Recomputed(prep).index = prep.index /\ Recomputed(prep).remaining = prep.remaining
         /\ Recomputed(prep).lastIndex = prep.lastIndex
         /\ Recomputed(prep).lastRemaining = prep.lastRemaining
         /\ Recomputed(prep).parking = prep.parking
         /\ Recomputed(prep).holdPartial = prep.holdPartial
         /\ Recomputed(prep).recalculate <=> Unfinished
BY DEF Recomputed, Unfinished, TypeOK, PrepState

\* A block that is dropped from preparation to be profiled anew stays the block to go on with.
LEMMA RecomputedKeeps ==
  ASSUME IInv, plBlock' = "none", prep' = Recomputed(prep),
         UNCHANGED <<blocks, system, slots, ring>>,
         mode' = "Parking" <=> mode = "Parking",
         "executeHold" \in control => "executeHold" \in control'
  PROVE  OwnData' /\ Behind' /\ SlotIntact'
<1>1. Unfinished' <=> Unfinished
  BY RecomputedFields DEF IInv, Unfinished
<1>2. prep'.recalculate <=> Unfinished
  BY RecomputedFields DEF IInv
<1>3. /\ prep'.index = prep.index /\ prep'.remaining = prep.remaining
      /\ prep'.lastIndex = prep.lastIndex /\ prep'.lastRemaining = prep.lastRemaining
      /\ prep'.holdPartial = prep.holdPartial
  BY RecomputedFields DEF IInv
<1>4. mode # "Parking" => plBlock \in {"none", "program"}
  BY DEF IInv, EngineInv, TypeOK
<1>5. OwnData'
  <2>1. mode # "Parking" /\ prep'.recalculate => plBlock = "program" \/ prep.recalculate
    BY <1>2, <1>4 DEF Unfinished
  <2> QED
    BY <1>1, <1>3, <2>1 DEF IInv, OwnData
<1>6. SlotIntact'
  BY DEF IInv, SlotIntact
<1>7. Behind'
  <2>1. Slack \in 0 .. 1 /\ Slack' \in 0 .. 1 /\ Slack <= Slack'
    BY <1>1 DEF Slack
  <2> SUFFICES ASSUME NEW k \in 1 .. Len(ring)
               PROVE  Distance(ring[k].slot, prep.index) <= Len(ring) - k + Slack'
    BY <1>3 DEF Behind
  <2>2. Distance(ring[k].slot, prep.index) <= Len(ring) - k + Slack
    BY DEF IInv, Behind
  <2>3. ring[k] \in Segment /\ prep \in PrepState /\ Len(ring) \in Nat
    BY DEF IInv, TypeOK
  <2>4. Distance(ring[k].slot, prep.index) \in Int
    BY <2>3, DistanceType DEF Segment, PrepState
  <2> QED
    BY <2>1, <2>2, <2>3, <2>4
<1> QED
  BY <1>5, <1>6, <1>7


\* An event of the protocol, or the interrupt finding nothing.
LEMMA ProtocolKeeps ==
  ASSUME IInv,
         \/ \E m \in Moves : BufferLine(m)
         \/ WakeUp \/ RunDry \/ Replan
         \/ CycleStart \/ Hold \/ CycleStop \/ ReopenDoor \/ Flush
         \/ \E n \in ParkLengths, back \in BOOLEAN : Moveto(n, back)
  PROVE  EngineInv' /\ OwnData' /\ Behind' /\ SlotIntact'
<1> USE DEF protocol, planner, preparation
<1>0. "executeHold" \in control => mode \in {"Hold", "Parking"}
  BY DEF IInv, EngineInv
<1>1. ASSUME NEW m \in Moves, BufferLine(m) PROVE EngineInv' /\ OwnData' /\ Behind' /\ SlotIntact'
  <2>1. blocks' # <<>> /\ (blocks # <<>> => Head(blocks') = Head(blocks))
    <3> DEFINE b == [id |-> moves + 1, events |-> m.events, steps |-> m.steps]
    <3>1. blocks' = Append(blocks, b)
      BY <1>1 DEF BufferLine
    <3>2. b \in Block
      BY <1>1, NewBlockType DEF BufferLine, IInv
    <3>3. blocks \in Seq(Block)
      BY DEF IInv, TypeOK
    <3> HIDE DEF b
    <3>4. Len(blocks') = Len(blocks) + 1 /\ Len(blocks) \in Nat /\ blocks' \in Seq(Block)
      BY <3>1, <3>2, <3>3
    <3>5. ASSUME blocks # <<>> PROVE Head(blocks') = Head(blocks)
      BY <3>1, <3>2, <3>3, <3>4, <3>5
    <3> QED
      BY <3>4, <3>5
  <2>2. EngineInv'
    BY <1>1, <2>1 DEF BufferLine, IInv, EngineInv
  <2>3. OwnData'
    BY <1>1, <2>1 DEF BufferLine, IInv, OwnData, Unfinished
  <2> QED
    BY <1>1, <2>2, <2>3 DEF BufferLine, IInv, Behind, SlotIntact, Slack, Unfinished
<1>2. CASE WakeUp
  <2>1. EngineInv'
    BY <1>2 DEF WakeUp, IInv, EngineInv, Source
  <2> QED
    BY <1>2, <2>1 DEF WakeUp, IInv, OwnData, Behind, SlotIntact, Slack, Unfinished
<1>3. CASE RunDry
  <2>1. "endMotion" \in control \/ (plBlock = "none" /\ Source = "none")
    <3>1. mode # "Idle" /\ Room
      BY <1>3, SegmentsAssumption DEF RunDry, Room, IInv, EngineInv
    <3> QED
      BY <1>3, <3>1 DEF RunDry, CanPrep, Prepping
  <2>2. EngineInv'
    BY <1>3, <2>1 DEF RunDry, IInv, EngineInv, Source
  <2> QED
    BY <1>3, <2>2 DEF RunDry, IInv, OwnData, Behind, SlotIntact, Slack, Unfinished
<1>4. CASE Replan
  <2>1. EngineInv'
    BY <1>4, RecomputedFields DEF Replan, IInv, EngineInv
  <2> QED
    BY <1>4, <2>1, RecomputedKeeps DEF Replan
<1>5. CASE CycleStart
  <2>1. EngineInv'
    BY <1>5 DEF CycleStart, IInv, EngineInv
  <2>2. OwnData'
    BY <1>5 DEF CycleStart, IInv, OwnData, Unfinished
  <2>3. Slack' = Slack
    BY <1>0, <1>5 DEF CycleStart, Slack
  <2> QED
    BY <1>5, <2>1, <2>2, <2>3 DEF CycleStart, IInv, Behind, SlotIntact
<1>6. CASE Hold
  <2>1. EngineInv'
    BY <1>6, RecomputedFields DEF Hold, IInv, EngineInv
  <2>2. CASE mode = "Cycle"
    BY <1>0, <1>6, <2>1, <2>2, RecomputedKeeps DEF Hold
  <2>3. CASE mode = "Idle"
    BY <1>6, <2>1, <2>3 DEF Hold, IInv, OwnData, Behind, SlotIntact, Slack, Unfinished
  <2> QED
    BY <1>6, <2>2, <2>3 DEF Hold
<1>7. CASE ReopenDoor
  <2>1. EngineInv'
    BY <1>7, RecomputedFields DEF ReopenDoor, IInv, EngineInv
  <2> QED
    BY <1>7, <2>1, RecomputedKeeps DEF ReopenDoor
<1>8. CASE CycleStop
  <2>1. EngineInv'
    BY <1>8 DEF CycleStop, IInv, EngineInv, TypeOK
  <2>2. CASE mode = "Cycle"
    <3>1. OwnData'
      BY <1>8, <2>2 DEF CycleStop, IInv, OwnData, Unfinished
    <3> QED
      BY <1>8, <2>1, <2>2, <3>1 DEF CycleStop, IInv, Behind, SlotIntact, Slack, Unfinished
  <2>3. CASE mode # "Cycle"
    <3>1. ring' = <<>> /\ mode' = "Held" /\ plBlock' = "none" /\ UNCHANGED <<blocks, slots>>
      BY <1>8, <2>3 DEF CycleStop, IInv, EngineInv
    <3>2. Behind' /\ SlotIntact'
      BY <3>1 DEF Behind, SlotIntact
    <3>3. CASE mode = "Parking"
      <4>1. prep' = Restored(Recomputed(prep)) /\ Recomputed(prep) \in PrepState
        BY <1>8, <3>3, SmallTypes DEF CycleStop, IInv
      <4>2. IF prep.holdPartial
            THEN prep'.index = prep.lastIndex /\ prep'.remaining = prep.lastRemaining
            ELSE ~prep'.recalculate /\ ~prep'.holdPartial
        BY <4>1, RecomputedFields DEF Restored, PrepState, IInv
      <4> QED
        BY <2>1, <3>1, <3>2, <3>3, <4>2 DEF IInv, OwnData
    <3>4. CASE mode # "Parking"
      <4>1. prep' = Recomputed(prep)
        BY <1>8, <2>3, <3>4 DEF CycleStop
      <4>2. prep'.recalculate => plBlock = "program" \/ prep.recalculate
        BY <3>4, <4>1, RecomputedFields DEF IInv, EngineInv, TypeOK, Unfinished
      <4>3. prep'.index = prep.index /\ prep'.remaining = prep.remaining /\ prep'.holdPartial = prep.holdPartial
        BY <4>1, RecomputedFields DEF IInv
      <4> QED
        BY <2>1, <3>1, <3>2, <3>4, <4>2, <4>3 DEF IInv, OwnData
    <3> QED
      BY <3>3, <3>4
  <2> QED
    BY <2>2, <2>3
<1>9. CASE Flush
  <2>1. ring' = <<>> /\ mode' = "Idle" /\ control' = {} /\ plBlock' = "none" /\ ~stopped' /\ ~awake' /\ ~waking'
    BY <1>9 DEF Flush, StepperReset
  <2>2. ~(prep'.remaining > 0)
    BY <1>9 DEF Flush, StepperReset, NoPrep
  <2> QED
    BY <2>1, <2>2 DEF EngineInv, OwnData, Behind, SlotIntact
<1>10. ASSUME NEW n \in ParkLengths, NEW back \in BOOLEAN, Moveto(n, back)
       PROVE  EngineInv' /\ OwnData' /\ Behind' /\ SlotIntact'
  <2>1. /\ prep'.parking /\ ~prep'.recalculate
        /\ prep'.index = prep.index /\ prep'.holdPartial = prep.holdPartial
        /\ prep.holdPartial => prep'.lastIndex = prep.index /\ prep'.lastRemaining = prep.remaining
    BY <1>10 DEF Moveto, ParkingSetup, IInv, TypeOK, PrepState
  <2>2. /\ mode = "Held" /\ mode' = "Parking" /\ plBlock' = "none" /\ ~stopped' /\ ~stopped
        /\ control' = (control \ {"endMotion"}) \cup {"executeSysMotion"}
        /\ waking' = TRUE /\ UNCHANGED <<blocks, slots, ring, awake>>
    BY <1>10 DEF Moveto, ParkingSetup
  <2>3. "executeHold" \notin control /\ "executeHold" \notin control'
    BY <1>0, <2>2
  <2>4. EngineInv'
    BY <2>1, <2>2, <2>3 DEF IInv, EngineInv
  <2>5. OwnData'
    BY <2>1, <2>2 DEF IInv, OwnData, Unfinished
  <2>6. Slack = 0 /\ Slack' = 0
    BY <2>3 DEF Slack
  <2> QED
    BY <2>1, <2>2, <2>4, <2>5, <2>6 DEF IInv, Behind, SlotIntact
<1> QED
  BY <1>1, <1>2, <1>3, <1>4, <1>5, <1>6, <1>7, <1>8, <1>9, <1>10

-----------------------------------------------------------------------------
(* The theorems.                                                             *)

LEMMA Initially == Init => IInv
<1> SUFFICES ASSUME Init PROVE IInv
  OBVIOUS
<1>1. Unmade \in MadeState
  BY NoMoveType DEF Unmade, MadeState
<1>2. NoPrep \in PrepState /\ NoStep \in StepperState /\ ~NoStep.busy
  <2>1. 0 \in SlotIndex
    BY SegmentsAssumption DEF SlotIndex
  <2> QED
    BY <2>1 DEF NoPrep, NoStep, PrepState, StepperState
<1>3. TypeOK
  <2>1. slots \in [SlotIndex -> Block] /\ made \in [Idents -> MadeState] /\ system \in Block
    BY <1>1, NoMoveType DEF Init
  <2>2. 0 \in 0 .. MaxMoves /\ 0 \in 0 .. MaxParks /\ 0 <= Slots
    BY SegmentsAssumption
  <2>3. <<>> \in Seq(Block) /\ <<>> \in Seq(Segment) /\ Len(<<>>) <= Slots
    BY SegmentsAssumption
  <2>4. prep \in PrepState /\ st \in StepperState /\ ~st.busy
    BY <1>2 DEF Init
  <2> QED
    BY <2>1, <2>2, <2>3, <2>4 DEF Init, TypeOK
<1>4. EngineInv
  BY DEF Init, EngineInv
<1>5. OwnData
  BY DEF Init, OwnData, NoPrep
<1> QED
  BY <1>3, <1>4, <1>5 DEF Init, IInv, Behind, SlotIntact

LEMMA Inductive == IInv /\ [Next]_vars => IInv'
<1> SUFFICES ASSUME IInv, [Next]_vars PROVE IInv'
  OBVIOUS
<1>1. TypeOK'
  BY TypeStep DEF IInv
<1>2. CASE UNCHANGED vars
  BY <1>1, <1>2 DEF vars, protocol, planner, preparation, IInv, EngineInv, OwnData, Behind,
                    SlotIntact, Slack, Unfinished, Source
<1>3. CASE Next
  BY <1>1, <1>3, PrepKeeps, PulseKeeps, ProtocolKeeps DEF Next, Interrupt, IInv
<1> QED
  BY <1>2, <1>3

LEMMA SpecKeepsIInv == Spec => []IInv
<1> QED
  BY Initially, Inductive, PTL DEF Spec

\* The state of prep_buffer(), of the interrupt and of the protocol around them keeps its type:
\* the ring never holds more segments than it has room for, an index is one of a slot, and an
\* interrupt in the middle of a segment has that segment.
THEOREM SegmentsTypes == Spec => []TypeOK
<1>1. IInv => TypeOK
  BY DEF IInv
<1> QED
  BY <1>1, SpecKeepsIInv, PTL

\* A slot of st_block_buffer is not written while a segment that is traced with it is in the
\* ring, although it has one entry less than the ring and nothing checks that it is free.
THEOREM SlotsKept == Spec => []SlotIntact
<1>1. IInv => SlotIntact
  BY DEF IInv
<1> QED
  BY <1>1, SpecKeepsIInv, PTL

-----------------------------------------------------------------------------
(* The invariant of the paths, where no parking has disturbed a block.       *)

(* The steps of a block are no more than its events.                         *)
Sane(b) == b \in Block /\ b.events > 0 /\ \A a \in Axes : b.steps[a] <= b.events
Parking == mode = "Parking"

(* The block in preparation, when there is one, and how far it is prepared,  *)
(* in ticks of the finest.                                                   *)
Now == IF Parking THEN system ELSE Head(blocks)
Whole(b) == b.events * Finest
Given(b, n) == (b.events - n) * Finest

(* The ticks of a segment, of the finest.                                    *)
Unit(seg) == Finest \div seg.smoothing
Fine(seg) == seg.ticks * Unit(seg)

Planned ==
    /\ \A i \in DOMAIN blocks : Sane(blocks[i]) /\ blocks[i].id <= moves
    /\ \A i, j \in DOMAIN blocks : i < j => blocks[i].id < blocks[j].id
    /\ Parking => Sane(system) /\ parks > 0 /\ system.id = MaxMoves + parks
Cuts == \A k \in DOMAIN ring :
    Sane(ring[k].of) /\ IF Parking THEN ring[k].of = system ELSE ring[k].of.id <= moves

(* The flags, as they are with no block half executed under a parking move.  *)
Flags ==
    /\ prep.parking <=> Parking
    /\ plBlock # "none" => ~prep.recalculate
    /\ prep.holdPartial =>
         ~Parking /\ (prep.recalculate \/ (plBlock = "program" /\ "endMotion" \in control))
    /\ "endMotion" \in control => mode \in {"Hold", "Held", "Parking"}
    /\ "endMotion" \in control /\ mode = "Held" => plBlock = "none"
    /\ ~Parking /\ Unfinished => prep.remaining > 0
    /\ Unfinished => prep.remaining <= Now.events

(* A parking move that is woken has been cut.                                *)
ParkCut == Parking =>
    IF Unfinished THEN ring # <<>> \/ made[system.id] # Unmade
    ELSE /\ waking /\ ring = <<>> /\ control \cap {"executeHold", "endMotion"} = {}
         /\ made[system.id] = Unmade

(* Only the block in preparation has been begun of those in the planner.     *)
Passed(id) == \A i \in DOMAIN blocks :
    id < blocks[i].id \/ (i = 1 /\ ~Parking /\ Unfinished /\ id = blocks[i].id)
Fresh == \A id \in Idents : made[id] # Unmade =>
    IF id <= MaxMoves
    THEN id <= moves /\ Passed(id) /\ (~Parking /\ ring # <<>> => id <= ring[1].of.id)
    ELSE id <= MaxMoves + parks
Ahead == ~Parking => \A k \in DOMAIN ring : Passed(ring[k].of.id)

(* The counters are where the ticks and the steps made have left them.       *)
Level(b) == \A a \in Axes :
    /\ st.counter[a] <= Whole(b)
    /\ st.counter[a] + made[b.id].steps[a] * Whole(b) = Whole(b) \div 2 + made[b.id].ticks * b.steps[a]

(* The interrupt goes on at tick x of block b in slot i, as it left it there *)
(* or as with a new block.                                                   *)
Resumes(b, i, x) ==
    IF made[b.id] = Unmade THEN i # st.index /\ x = 0
    ELSE i = st.index /\ made[b.id].of = b /\ made[b.id].ticks = x /\ Level(b)

(* After tick x of block b in slot i comes tick y of block c in slot j.      *)
Joined(b, i, x, c, j, y) ==
    IF c = b THEN j = i /\ y = x ELSE b.id < c.id /\ j # i /\ x = Whole(b) /\ y = 0

(* The segment k begins at tick o[k] of its block.                           *)
Chained(o) ==
    /\ o \in [1 .. Len(ring) -> Nat]
    /\ \A k \in 1 .. Len(ring) : o[k] + Fine(ring[k]) <= Whole(ring[k].of)
    /\ \A k, l \in 1 .. Len(ring) : l = k + 1 =>
         Joined(ring[k].of, ring[k].slot, o[k] + Fine(ring[k]), ring[l].of, ring[l].slot, o[l])
Front(o) == ring # <<>> =>
    IF st.busy
    THEN LET seg == ring[1] IN
         /\ seg.slot = st.index /\ st.count <= seg.ticks
         /\ made[seg.of.id].of = seg.of /\ made[seg.of.id] # Unmade
         /\ made[seg.of.id].ticks = o[1] + (seg.ticks - st.count) * Unit(seg)
         /\ st.increment = [a \in Axes |-> seg.of.steps[a] * Unit(seg)]
         /\ Level(seg.of)
    ELSE Resumes(ring[1].of, ring[1].slot, o[1])

(* Where preparation goes on, with block b in slot j from tick y on.         *)
Meets(o, b, j, y) ==
    IF ring = <<>> THEN Resumes(b, j, y)
    ELSE LET n == Len(ring) IN Joined(ring[n].of, ring[n].slot, o[n] + Fine(ring[n]), b, j, y)
Back(o) ==
    IF Unfinished THEN Meets(o, Now, prep.index, Given(Now, prep.remaining))
    ELSE IF ring = <<>> THEN prep.index = st.index
    ELSE LET n == Len(ring) IN prep.index = ring[n].slot /\ o[n] + Fine(ring[n]) = Whole(ring[n].of)
Traced == \E o : Chained(o) /\ Front(o) /\ Back(o)

Paths == Planned /\ Cuts /\ Flags /\ ParkCut /\ Fresh /\ Ahead /\ Traced
PathInv == PathExact /\ (disturbed = {} => Paths)

-----------------------------------------------------------------------------
(* Ticks.                                                                    *)

(* Of e events r are left, of which the next n are taken.                    *)
Spreads(e, r, n, f) ==
    /\ (e - r) * f \in Nat /\ n * f \in Nat /\ e * f \in Nat
    /\ (e - (r - n)) * f = (e - r) * f + n * f
    /\ (e - r) * f + n * f <= e * f
    /\ (e - e) * f = 0 /\ (e - 0) * f = e * f

LEMMA Spread ==
  ASSUME NEW e \in Nat, NEW r \in Nat, NEW n \in Nat, NEW f \in Nat, n <= r, r <= e
  PROVE  Spreads(e, r, n, f)
<1> USE DEF Spreads
<1> DEFINE a == e - r
           b == r - n
<1>1. a \in Nat /\ b \in Nat /\ e = a + n + b
  OBVIOUS
<1> HIDE DEF a, b
<1>2. (a + n + b) * f = a * f + n * f + b * f
  BY <1>1
<1>3. a * f \in Nat /\ n * f \in Nat /\ b * f \in Nat /\ (a + n) * f = a * f + n * f
  BY <1>1
<1>4. e * f = a * f + n * f + b * f
  BY <1>1, <1>2
<1>5. (e - r) * f = a * f /\ e - (r - n) = a + n
  BY DEF a, b
<1> QED BY <1>3, <1>4, <1>5

(* The ticks of a segment of n events, however they are divided.             *)
LEMMA FineCut ==
  ASSUME NEW n \in Nat, NEW s \in Smoothings
  PROVE  /\ (n * s) * (Finest \div s) = n * Finest
         /\ (Finest \div s) \in Nat \ {0} /\ Finest \div s <= Finest
<1> DEFINE u == Finest \div s
<1>1. u \in Nat \ {0} /\ s \in Nat \ {0} /\ s * u = Finest
  BY SegmentsAssumption
<1> HIDE DEF u
<1>2. (n * s) * u = n * (s * u)
  BY <1>1
<1>3. u <= s * u
  <2>1. PICK k \in Nat : s = k + 1
    <3>1. s - 1 \in Nat /\ s = (s - 1) + 1
      BY <1>1
    <3> QED BY <3>1
  <2>2. (k + 1) * u = k * u + u /\ k * u \in Nat
    BY <1>1, <2>1
  <2> QED BY <1>1, <2>1, <2>2
<1> QED BY <1>1, <1>2, <1>3 DEF u

(* A tick of a segment of t, c of them to come.                              *)
LEMMA TickOf ==
  ASSUME NEW t \in Nat, NEW c \in Nat \ {0}, NEW u \in Nat, c <= t
  PROVE  /\ (t - c) * u \in Nat
         /\ (t - (c - 1)) * u = (t - c) * u + u
         /\ (t - c) * u + u <= t * u
         /\ (t - t) * u = 0 /\ (t - 0) * u = t * u
<1> DEFINE a == t - c
           b == c - 1
<1>1. a \in Nat /\ b \in Nat /\ t = a + b + 1 /\ t - (c - 1) = a + 1
  OBVIOUS
<1> HIDE DEF a, b
<1>2. (a + 1) * u = a * u + u /\ a * u \in Nat /\ b * u \in Nat
  BY <1>1
<1>3. (a + b + 1) * u = a * u + b * u + u
  BY <1>1
<1>4. (t - c) * u = a * u
  BY DEF a
<1> QED BY <1>1, <1>2, <1>3, <1>4

(* From the counters' start to their end an axis makes its steps.            *)
LEMMA EvenSteps ==
  ASSUME NEW w \in Nat, w >= 2, NEW c \in Nat, c <= w, NEW s \in Nat, NEW p \in Nat,
         c + s * w = w \div 2 + w * p
  PROVE  s = p
<1>1. w \div 2 \in Nat /\ w \div 2 >= 1 /\ w \div 2 < w
  OBVIOUS
<1>2. CASE s > p
  <2>1. PICK k \in Nat : s = p + k + 1
    <3>1. s - p - 1 \in Nat /\ s = p + (s - p - 1) + 1
      BY <1>2
    <3> QED BY <3>1
  <2>2. (p + k + 1) * w = w * p + k * w + w /\ k * w \in Nat /\ w * p \in Nat
    BY <2>1
  <2> QED BY <1>1, <2>1, <2>2
<1>3. CASE s < p
  <2>1. PICK k \in Nat : p = s + k + 1
    <3>1. p - s - 1 \in Nat /\ p = s + (p - s - 1) + 1
      BY <1>3
    <3> QED BY <3>1
  <2>2. w * (s + k + 1) = s * w + k * w + w /\ k * w \in Nat /\ s * w \in Nat
    BY <2>1
  <2> QED BY <1>1, <2>1, <2>2
<1> QED BY <1>2, <1>3

LEMMA Products ==
  ASSUME NEW p \in Nat, NEW e \in Nat, NEW u \in Nat, NEW f \in Nat, p <= e, u <= f
  PROVE  p * u \in Nat /\ e * f \in Nat /\ p * u <= e * f
<1>1. PICK x \in Nat, y \in Nat : e = p + x /\ f = u + y
  <2>1. e - p \in Nat /\ f - u \in Nat /\ e = p + (e - p) /\ f = u + (f - u)
    OBVIOUS
  <2> QED BY <2>1
<1>2. (p + x) * (u + y) = p * u + p * y + x * u + x * y
  BY <1>1
<1>3. p * u \in Nat /\ p * y \in Nat /\ x * u \in Nat /\ x * y \in Nat
  BY <1>1
<1> QED BY <1>1, <1>2, <1>3

(* The equation of a counter after u ticks more, with a step or without.     *)
LevelsOn(c, s, w, t, p, u) ==
    /\ c + p * u > w => /\ c + p * u - w <= w
                         /\ (c + p * u - w) + (s + 1) * w = w \div 2 + (t + u) * p
    /\ ~(c + p * u > w) => (c + p * u) + s * w = w \div 2 + (t + u) * p

LEMMA LevelOn ==
  ASSUME NEW c \in Nat, NEW s \in Nat, NEW w \in Nat, NEW t \in Nat, NEW p \in Nat, NEW u \in Nat,
         c <= w, p * u <= w, c + s * w = w \div 2 + t * p
  PROVE  LevelsOn(c, s, w, t, p, u)
<1>1. p * u \in Nat /\ s * w \in Nat /\ t * p \in Nat /\ w \div 2 \in Nat
  OBVIOUS
<1>2. (s + 1) * w = s * w + w /\ (t + u) * p = t * p + p * u
  OBVIOUS
<1> QED BY <1>1, <1>2 DEF LevelsOn

-----------------------------------------------------------------------------
(* Steps that leave the ring, the interrupt and what has been made.          *)

LEMMA TracedAside ==
  ASSUME Traced, UNCHANGED <<ring, st, made>>, prep'.index = prep.index,
         Unfinished' <=> Unfinished,
         Unfinished => Now' = Now /\ prep'.remaining = prep.remaining
  PROVE  Traced'
<1>1. PICK o : Chained(o) /\ Front(o) /\ Back(o)
  BY DEF Traced
<1>2. Chained(o)'
  BY <1>1 DEF Chained
<1>3. Front(o)'
  BY <1>1 DEF Front, Resumes, Level
<1>4. Back(o)'
  <2>1. CASE Unfinished
    <3>1. PICK c, y : c = Now /\ y = Given(Now, prep.remaining)
      OBVIOUS
    <3>2. Now' = c /\ Given(Now, prep.remaining)' = y
      BY <2>1, <3>1 DEF Given
    <3>3. Meets(o, c, prep.index, y)
      BY <1>1, <2>1, <3>1 DEF Back
    <3>4. Meets(o, c, prep.index, y)'
      BY <3>3 DEF Meets, Resumes, Level
    <3> QED
      BY <2>1, <3>2, <3>4 DEF Back
  <2>2. CASE ~Unfinished
    BY <1>1, <2>2 DEF Back
  <2> QED
    BY <2>1, <2>2
<1> QED
  BY <1>2, <1>3, <1>4 DEF Traced

LEMMA ExactAside ==
  ASSUME PathExact, UNCHANGED made, disturbed' = {} => disturbed = {}
  PROVE  PathExact'
BY DEF PathExact, StepsExact

(* What is planned to follow.                                                *)
LEMMA BeginPaths == ASSUME Init PROVE PathInv
<1>1. /\ blocks = <<>> /\ ring = <<>> /\ mode = "Idle" /\ plBlock = "none" /\ prep = NoPrep
      /\ control = {} /\ st = NoStep /\ made = [id \in Idents |-> Unmade]
  BY DEF Init
<1>2. Unmade.ticks = 0 /\ Unmade.of.events = 0 /\ Unmade.steps = Unmade.of.steps
  BY DEF Unmade, NoMove
<1>3. PathExact
  BY <1>1, <1>2, SegmentsAssumption DEF PathExact, StepsExact
<1>4. Planned /\ Cuts /\ ParkCut /\ Fresh /\ Ahead
  BY <1>1 DEF Planned, Cuts, ParkCut, Fresh, Ahead, Parking
<1>5. Flags
  BY <1>1 DEF Flags, Parking, NoPrep, Unfinished
<1>6. Traced
  <2> DEFINE o == [k \in 1 .. 0 |-> 0]
  <2>1. Len(ring) = 0
    BY <1>1
  <2>2. Chained(o) /\ Front(o)
    BY <1>1, <2>1 DEF Chained, Front
  <2>3. Back(o)
    BY <1>1 DEF Back, Unfinished, NoPrep, NoStep
  <2> QED
    BY <2>2, <2>3 DEF Traced
<1> QED
  BY <1>3, <1>4, <1>5, <1>6 DEF PathInv, Paths

LEMMA FlushPaths == ASSUME Flush PROVE PathInv'
<1>1. /\ blocks' = <<>> /\ ring' = <<>> /\ mode' = "Idle" /\ plBlock' = "none" /\ prep' = NoPrep
      /\ control' = {} /\ st' = NoStep /\ made' = [id \in Idents |-> Unmade]
  BY DEF Flush, StepperReset
<1>2. Unmade.ticks = 0 /\ Unmade.of.events = 0 /\ Unmade.steps = Unmade.of.steps
  BY DEF Unmade, NoMove
<1>3. PathExact'
  BY <1>1, <1>2, SegmentsAssumption DEF PathExact, StepsExact
<1>4. Planned' /\ Cuts' /\ ParkCut' /\ Fresh' /\ Ahead'
  BY <1>1 DEF Planned, Cuts, ParkCut, Fresh, Ahead, Parking
<1>5. Flags'
  BY <1>1 DEF Flags, Parking, NoPrep, Unfinished
<1>6. Traced'
  <2> DEFINE o == [k \in 1 .. 0 |-> 0]
  <2>1. Len(ring') = 0
    BY <1>1
  <2>2. Chained(o)' /\ Front(o)'
    BY <1>1, <2>1 DEF Chained, Front
  <2>3. Back(o)'
    BY <1>1 DEF Back, Unfinished, NoPrep, NoStep
  <2> QED
    BY <2>2, <2>3 DEF Traced
<1> QED
  BY <1>3, <1>4, <1>5, <1>6 DEF PathInv, Paths

(* A block in preparation is a block.                                        *)
LEMMA NowIs ==
  ASSUME IInv, Flags, Unfinished, ~Parking
  PROVE  blocks # <<>> /\ Now = Head(blocks)
<1>1. prep.remaining > 0
  BY DEF Flags
<1>2. plBlock = "program" \/ prep.recalculate
  BY DEF Unfinished, IInv, EngineInv, TypeOK, Parking
<1> QED
  BY <1>1, <1>2 DEF IInv, OwnData, Parking, Now

LEMMA BufferLinePaths ==
  ASSUME IInv, Paths, NEW m \in Moves, BufferLine(m)
  PROVE  Paths'
<1> USE DEF protocol, preparation
<1> DEFINE b == [id |-> moves + 1, events |-> m.events, steps |-> m.steps]
           n == Len(blocks)
<1>1. /\ UNCHANGED <<mode, control, system, parks, plBlock, prep, slots, ring, st, waking, made>>
      /\ moves' = moves + 1 /\ blocks' = Append(blocks, b) /\ ~Parking /\ ~Parking'
  BY DEF BufferLine, Parking
<1>2. b \in Block /\ moves \in Nat /\ blocks \in Seq(Block) /\ n \in Nat
  <2>1. moves \in Nat /\ blocks \in Seq(Block)
    BY SegmentsAssumption DEF IInv, TypeOK
  <2>2. b \in Block
    BY NewBlockType DEF BufferLine, IInv
  <2> HIDE DEF b
  <2>3. n \in Nat
    BY <2>1
  <2> QED
    BY <2>1, <2>2, <2>3
<1>3. Sane(b) /\ b.id = moves + 1
  BY <1>2, SegmentsAssumption DEF Sane
<1> HIDE DEF b
<1>4. /\ DOMAIN blocks = 1 .. n /\ DOMAIN blocks' = 1 .. n + 1
      /\ \A i \in 1 .. n : blocks'[i] = blocks[i]
      /\ blocks'[n + 1] = b
  BY <1>1, <1>2
<1>5. \A i \in 1 .. n : Sane(blocks[i]) /\ blocks[i].id \in Nat /\ blocks[i].id <= moves
  BY <1>4, SegmentsAssumption DEF Paths, Planned, Sane, Block, Idents
<1>6. Planned'
  <2>1. \A i \in 1 .. n + 1 : Sane(blocks'[i]) /\ blocks'[i].id <= moves + 1
    <3> TAKE i \in 1 .. n + 1
    <3>1. CASE i \in 1 .. n
      BY <1>2, <1>4, <1>5, <3>1
    <3>2. CASE i = n + 1
      BY <1>2, <1>3, <1>4, <3>2
    <3> QED
      BY <1>2, <3>1, <3>2
  <2>2. ASSUME NEW i \in 1 .. n + 1, NEW j \in 1 .. n + 1, i < j
        PROVE  blocks'[i].id < blocks'[j].id
    <3>1. i \in 1 .. n
      BY <1>2, <2>2
    <3>2. CASE j \in 1 .. n
      BY <1>4, <2>2, <3>1, <3>2 DEF Paths, Planned
    <3>3. CASE j = n + 1
      BY <1>2, <1>3, <1>4, <1>5, <3>1, <3>3
    <3> QED
      BY <1>2, <3>2, <3>3
  <2> QED
    BY <1>1, <1>4, <2>1, <2>2 DEF Planned
<1>7. Cuts'
  <2> SUFFICES ASSUME NEW k \in DOMAIN ring PROVE Sane(ring[k].of) /\ ring[k].of.id <= moves + 1
    BY <1>1 DEF Cuts
  <2>1. Sane(ring[k].of) /\ ring[k].of.id <= moves
    BY <1>1 DEF Paths, Cuts
  <2>2. ring[k].of.id \in Nat
    BY <2>1, SegmentsAssumption DEF Sane, Block, Idents
  <2> QED
    BY <1>2, <2>1, <2>2
<1>8. ASSUME NEW id \in Nat, id <= moves, Passed(id) PROVE Passed(id)'
  <2> SUFFICES ASSUME NEW i \in 1 .. n + 1
               PROVE  id < blocks'[i].id \/ (i = 1 /\ Unfinished /\ id = blocks'[i].id)
    BY <1>1, <1>4 DEF Passed, Unfinished
  <2>1. CASE i \in 1 .. n
    BY <1>1, <1>4, <1>8, <2>1 DEF Passed
  <2>2. CASE i = n + 1
    BY <1>2, <1>3, <1>4, <1>8, <2>2
  <2> QED
    BY <1>2, <2>1, <2>2
<1>9. Unfinished' <=> Unfinished
  BY <1>1 DEF Unfinished
<1>10. Unfinished => Now' = Now
  <2> HAVE Unfinished
  <2>1. blocks # <<>> /\ Now = Head(blocks)
    BY <1>1, NowIs DEF Paths
  <2>2. n > 0 /\ Now = blocks[1]
    BY <1>2, <2>1
  <2>3. Now' = blocks'[1]
    BY <1>1, <1>2, <2>2 DEF Now
  <2> QED
    BY <1>2, <1>4, <2>2, <2>3
<1>11. Flags'
  BY <1>1, <1>9, <1>10 DEF Paths, Flags
<1>12. ParkCut'
  BY <1>1 DEF ParkCut
<1>13. Fresh'
  <2> SUFFICES ASSUME NEW id \in Idents, made[id] # Unmade
               PROVE  IF id <= MaxMoves
                      THEN id <= moves + 1 /\ Passed(id)' /\ (ring # <<>> => id <= ring[1].of.id)
                      ELSE id <= MaxMoves + parks
    BY <1>1 DEF Fresh
  <2>1. id \in Nat
    BY SegmentsAssumption DEF Idents
  <2>2. IF id <= MaxMoves THEN id <= moves /\ Passed(id) /\ (ring # <<>> => id <= ring[1].of.id)
        ELSE id <= MaxMoves + parks
    BY <1>1 DEF Paths, Fresh
  <2> QED
    BY <1>2, <1>8, <2>1, <2>2
<1>14. Ahead'
  <2> SUFFICES ASSUME NEW k \in DOMAIN ring PROVE Passed(ring[k].of.id)'
    BY <1>1 DEF Ahead
  <2>1. Sane(ring[k].of) /\ ring[k].of.id <= moves /\ Passed(ring[k].of.id)
    BY <1>1 DEF Paths, Cuts, Ahead
  <2>2. PICK id \in Nat : id = ring[k].of.id
    BY <2>1, SegmentsAssumption DEF Sane, Block, Idents
  <2>3. Passed(id)'
    BY <1>8, <2>1, <2>2
  <2> QED
    BY <1>1, <2>2, <2>3 DEF Passed
<1>15. Traced'
  BY <1>1, <1>9, <1>10, TracedAside DEF Paths
<1> QED
  BY <1>6, <1>7, <1>11, <1>12, <1>13, <1>14, <1>15 DEF Paths

(* Events that leave the blocks, the ring and what has been made.            *)
LEMMA PathsAside ==
  ASSUME Paths, UNCHANGED <<blocks, system, moves, parks, ring, st, made>>,
         Parking' <=> Parking, Unfinished' <=> Unfinished,
         prep'.index = prep.index, prep'.remaining = prep.remaining
  PROVE  Planned' /\ Cuts' /\ Fresh' /\ Ahead' /\ Traced'
<1>1. Planned' /\ Cuts'
  BY DEF Paths, Planned, Cuts
<1>2. \A id : Passed(id)' <=> Passed(id)
  BY DEF Passed
<1>3. Fresh'
  BY <1>2 DEF Paths, Fresh
<1>4. Ahead'
  BY <1>2 DEF Paths, Ahead, Passed
<1>5. Now' = Now
  BY DEF Now
<1>6. Traced'
  BY <1>5, TracedAside DEF Paths
<1> QED
  BY <1>1, <1>3, <1>4, <1>6

(* A block that is dropped from preparation, or not.                         *)
LEMMA DroppedFields ==
  ASSUME TypeOK,
         (prep' = prep /\ plBlock' = plBlock) \/ (prep' = Recomputed(prep) /\ plBlock' = "none")
  PROVE  /\ prep'.index = prep.index /\ prep'.remaining = prep.remaining
         /\ prep'.parking = prep.parking /\ prep'.holdPartial = prep.holdPartial
         /\ Unfinished' <=> Unfinished
         /\ prep.recalculate => prep'.recalculate
         /\ plBlock' # "none" => plBlock' = plBlock /\ prep' = prep
         /\ plBlock' = "none" => (prep'.recalculate <=> Unfinished)
<1>1. CASE prep' = prep /\ plBlock' = plBlock
  BY <1>1 DEF Unfinished
<1>2. CASE prep' = Recomputed(prep) /\ plBlock' = "none"
  BY <1>2, RecomputedFields DEF Unfinished
<1> QED
  BY <1>1, <1>2

LEMMA AsidePaths ==
  ASSUME IInv, Paths, WakeUp \/ RunDry \/ Replan \/ CycleStart \/ Hold \/ ReopenDoor
  PROVE  Paths'
<1> USE DEF protocol, planner, preparation
<1>0. /\ UNCHANGED <<blocks, system, moves, parks, ring, st, made>>
      /\ Parking' <=> Parking
      /\ (prep' = prep /\ plBlock' = plBlock) \/ (prep' = Recomputed(prep) /\ plBlock' = "none")
  BY DEF WakeUp, RunDry, Replan, CycleStart, Hold, ReopenDoor, Parking
<1>1. /\ prep'.index = prep.index /\ prep'.remaining = prep.remaining
      /\ prep'.parking = prep.parking /\ prep'.holdPartial = prep.holdPartial
      /\ Unfinished' <=> Unfinished
      /\ prep.recalculate => prep'.recalculate
      /\ plBlock' # "none" => plBlock' = plBlock /\ prep' = prep
      /\ plBlock' = "none" => (prep'.recalculate <=> Unfinished)
  BY <1>0, DroppedFields DEF IInv
<1>2. Planned' /\ Cuts' /\ Fresh' /\ Ahead' /\ Traced'
  BY <1>0, <1>1, PathsAside
<1>3. Now' = Now
  BY <1>0 DEF Now
<1>4. Flags'
  <2>1. /\ prep'.parking <=> Parking'
        /\ plBlock' # "none" => ~prep'.recalculate
        /\ ~Parking' /\ Unfinished' => prep'.remaining > 0
        /\ Unfinished' => prep'.remaining <= Now'.events
    BY <1>0, <1>1, <1>3 DEF Paths, Flags
  <2>2. CASE WakeUp \/ RunDry
    BY <1>1, <2>1, <2>2 DEF WakeUp, RunDry, Paths, Flags, Parking
  <2>3. CASE Replan
    BY <1>1, <2>1, <2>3 DEF Replan, Paths, Flags, Parking, Unfinished
  <2>4. CASE CycleStart
    BY <1>1, <2>1, <2>4 DEF CycleStart, Paths, Flags, Parking
  <2>5. CASE Hold
    BY <1>1, <2>1, <2>5 DEF Hold, Paths, Flags, Parking, Unfinished
  <2>6. CASE ReopenDoor
    BY <1>1, <2>1, <2>6 DEF ReopenDoor, Paths, Flags, Parking, Unfinished
  <2> QED
    BY <2>2, <2>3, <2>4, <2>5, <2>6
<1>5. ParkCut'
  <2>1. CASE ~Parking
    BY <1>0, <2>1 DEF ParkCut
  <2>2. CASE Parking /\ Unfinished
    BY <1>0, <1>1, <2>2 DEF Paths, ParkCut
  <2>3. CASE Parking /\ ~Unfinished
    <3>1. /\ waking /\ ring = <<>> /\ control \cap {"executeHold", "endMotion"} = {}
          /\ made[system.id] = Unmade /\ "executeSysMotion" \in control
      BY <2>3 DEF Paths, ParkCut, IInv, EngineInv, Parking
    <3>2. CanPrep
      BY <2>3, <3>1, SegmentsAssumption DEF CanPrep, Room, Prepping, Source, Parking, Unfinished
    <3>3. ~awake /\ ~stopped
      BY <2>3, <3>1 DEF IInv, EngineInv, Parking
    <3>4. plBlock = "none"
      BY <2>3 DEF Unfinished
    <3> QED
      BY <2>3, <3>1, <3>2, <3>3, <3>4
      DEF WakeUp, RunDry, Replan, CycleStart, Hold, ReopenDoor, Parking
  <2> QED
    BY <2>1, <2>2, <2>3
<1> QED
  BY <1>2, <1>4, <1>5 DEF Paths

(* What has been made of the program has passed, as it had.                  *)
LEMMA PassedAside ==
  ASSUME UNCHANGED blocks, NEW id, Passed(id), Parking \/ ~Unfinished
  PROVE  Passed(id)'
BY DEF Passed

LEMMA CycleStopPaths ==
  ASSUME IInv, Paths, CycleStop
  PROVE  Paths'
<1> USE DEF planner
<1>0. UNCHANGED <<blocks, system, moves, parks, ring, st, made>>
  BY DEF CycleStop
<1>1. CASE ~Parking
  <2>1. mode \in {"Cycle", "Hold"} /\ ~Parking'
    BY <1>1 DEF CycleStop, IInv, TypeOK, EngineInv, Parking
  <2>2. (prep' = prep /\ plBlock' = plBlock) \/ (prep' = Recomputed(prep) /\ plBlock' = "none")
    BY <1>1 DEF CycleStop, Parking
  <2>3. /\ prep'.index = prep.index /\ prep'.remaining = prep.remaining
        /\ prep'.parking = prep.parking /\ prep'.holdPartial = prep.holdPartial
        /\ Unfinished' <=> Unfinished
        /\ prep.recalculate => prep'.recalculate
        /\ plBlock' # "none" => plBlock' = plBlock /\ prep' = prep
        /\ plBlock' = "none" => (prep'.recalculate <=> Unfinished)
    BY <2>2, DroppedFields DEF IInv
  <2>4. Planned' /\ Cuts' /\ Fresh' /\ Ahead' /\ Traced'
    BY <1>0, <1>1, <2>1, <2>3, PathsAside
  <2>5. Now' = Now
    BY <1>0, <1>1, <2>1 DEF Now
  <2>6. /\ prep'.parking <=> Parking'
        /\ plBlock' # "none" => ~prep'.recalculate
        /\ ~Parking' /\ Unfinished' => prep'.remaining > 0
        /\ Unfinished' => prep'.remaining <= Now'.events
    BY <1>0, <1>1, <2>1, <2>3, <2>5 DEF Paths, Flags
  <2>7. Flags'
    <3>1. CASE mode = "Cycle"
      BY <1>1, <2>1, <2>3, <2>6, <3>1 DEF CycleStop, Paths, Flags
    <3>2. CASE mode = "Hold"
      <4>1. plBlock' = "none" /\ mode' = "Held"
        BY <3>2 DEF CycleStop
      <4> QED
        BY <1>1, <2>1, <2>3, <2>6, <3>2, <4>1 DEF Paths, Flags, Unfinished
    <3> QED
      BY <2>1, <3>1, <3>2
  <2> QED
    BY <2>1, <2>4, <2>7 DEF Paths, ParkCut
<1>2. CASE Parking
  <2>1. /\ ring = <<>> /\ ~waking /\ mode' = "Held" /\ ~Parking' /\ plBlock' = "none"
        /\ control' \subseteq control
    BY <1>2 DEF CycleStop, IInv, EngineInv, Parking
  <2>2. Unfinished /\ made[system.id] # Unmade /\ ~prep.holdPartial
    BY <1>2, <2>1 DEF Paths, ParkCut, Flags
  <2>3. prep' = Restored(Recomputed(prep))
    BY <1>2 DEF CycleStop, Parking
  <2>4. /\ prep'.index = prep.index /\ ~prep'.parking /\ ~prep'.recalculate /\ ~prep'.holdPartial
    <3> DEFINE q == Recomputed(prep)
    <3>1. q \in PrepState /\ q.index = prep.index /\ ~q.holdPartial
      BY <2>2, RecomputedFields, SmallTypes DEF IInv
    <3> HIDE DEF q
    <3>2. prep' = [q EXCEPT !.recalculate = FALSE, !.parking = FALSE]
      BY <2>3, <3>1 DEF Restored, q
    <3> QED
      BY <3>1, <3>2 DEF PrepState
  <2>5. ~Unfinished'
    BY <2>1, <2>4 DEF Unfinished
  <2>6. Flags'
    BY <2>1, <2>4, <2>5 DEF Flags
  <2>7. Planned' /\ Cuts' /\ Ahead' /\ ParkCut'
    BY <1>0, <2>1 DEF Paths, Planned, Cuts, Ahead, ParkCut
  <2>8. Fresh'
    BY <1>0, <1>2, <2>1, PassedAside DEF Paths, Fresh
  <2>9. Traced'
    <3>1. PICK o : Chained(o) /\ Front(o) /\ Back(o)
      BY DEF Paths, Traced
    <3>2. prep.index = st.index
      BY <1>2, <2>1, <2>2, <3>1 DEF Back, Meets, Resumes, Now
    <3>3. Chained(o)' /\ Front(o)'
      BY <1>0, <2>1, <3>1 DEF Chained, Front
    <3>4. Back(o)'
      BY <1>0, <2>1, <2>4, <2>5, <3>2 DEF Back
    <3> QED
      BY <3>3, <3>4 DEF Traced
  <2> QED
    BY <2>6, <2>7, <2>8, <2>9 DEF Paths
<1> QED
  BY <1>1, <1>2

LEMMA MovetoPaths ==
  ASSUME IInv, Paths, NEW n \in ParkLengths, NEW back \in BOOLEAN, Moveto(n, back),
         disturbed' = {}
  PROVE  Paths'
<1>1. Met = {}
  BY DEF Moveto
<1>2. plBlock = "none" /\ ring = <<>> /\ ~prep.recalculate /\ ~Parking /\ mode = "Held"
  <2>1. mode = "Held"
    BY DEF Moveto
  <2>2. plBlock # "program" /\ ring = <<>> /\ ~(prep.recalculate /\ ~prep.holdPartial)
        /\ ~(prep.holdPartial /\ prep.recalculate)
    BY <1>1 DEF Met
  <2> QED
    BY <2>1, <2>2 DEF IInv, EngineInv, TypeOK, PrepState, Parking
<1>3. ~Unfinished /\ ~prep.holdPartial
  BY <1>2 DEF Unfinished, Paths, Flags
<1>4. /\ prep'.index = prep.index /\ prep'.parking /\ ~prep'.recalculate /\ ~prep'.holdPartial
      /\ plBlock' = "none"
  BY <1>3 DEF Moveto, ParkingSetup, IInv, TypeOK, PrepState
<1>5. ~Unfinished' /\ Parking' /\ waking'
  BY <1>4 DEF Moveto, Unfinished, Parking
<1>6. UNCHANGED <<blocks, ring, st, made, moves>>
  BY DEF Moveto
<1>7. /\ parks \in Nat /\ parks' = parks + 1 /\ system' = ParkMove(MaxMoves + parks + 1, n)
      /\ parks < MaxParks /\ n \in Nat \ {0} /\ MaxMoves \in Nat /\ MaxParks \in Nat
  BY SegmentsAssumption DEF Moveto, IInv, TypeOK
<1>8. Sane(system') /\ system'.id = MaxMoves + parks + 1
  <2>1. system' \in Block
    BY <1>7, NewBlockType DEF IInv
  <2> QED
    BY <1>7, <2>1 DEF ParkMove, Sane
<1>9. Planned'
  <2>1. Sane(system)' /\ parks' > 0 /\ (system.id)' = MaxMoves + parks'
    BY <1>7, <1>8 DEF Sane
  <2> QED
    BY <1>6, <2>1 DEF Paths, Planned, Sane
<1>10. Cuts' /\ Ahead'
  BY <1>2, <1>5, <1>6 DEF Cuts, Ahead
<1>11. Flags'
  BY <1>4, <1>5 DEF Moveto, Flags, Parking
<1>12. made[MaxMoves + parks + 1] = Unmade
  <2>1. MaxMoves + parks + 1 \in Idents
    BY <1>7 DEF Idents
  <2> QED
    BY <1>7, <2>1 DEF Paths, Fresh
<1>13. ParkCut'
  <2>1. control' \cap {"executeHold", "endMotion"} = {}
    BY <1>2 DEF Moveto, IInv, EngineInv
  <2> QED
    BY <1>2, <1>5, <1>6, <1>8, <1>12, <2>1 DEF ParkCut
<1>14. Fresh'
  <2> SUFFICES ASSUME NEW id \in Idents, made[id] # Unmade
               PROVE  IF id <= MaxMoves THEN id <= moves /\ Passed(id)'
                      ELSE id <= MaxMoves + parks + 1
    BY <1>5, <1>6, <1>7 DEF Fresh
  <2>1. id \in Nat
    BY <1>7 DEF Idents
  <2>2. IF id <= MaxMoves THEN id <= moves /\ Passed(id) ELSE id <= MaxMoves + parks
    BY DEF Paths, Fresh
  <2>3. Passed(id) => Passed(id)'
    BY <1>3, <1>6, PassedAside
  <2> QED
    BY <1>7, <2>1, <2>2, <2>3
<1>15. Traced'
  BY <1>3, <1>4, <1>5, <1>6, TracedAside DEF Paths
<1> QED
  BY <1>9, <1>10, <1>11, <1>13, <1>14, <1>15 DEF Paths

-----------------------------------------------------------------------------
(* Preparation.                                                              *)

(* A round of prep_buffer() goes on where the ring ends.                     *)
LEMMA LoadedFacts ==
  ASSUME IInv, Paths, Prep
  PROVE  LET m == Motion(Prepping)
             p == Loaded(prep, m)
         IN /\ Sane(m) /\ p.index \in SlotIndex /\ p.remaining \in Nat /\ p.remaining <= m.events
            /\ ~Parking => p.remaining > 0
            /\ Unfinished => m = Now /\ p.index = prep.index /\ p.remaining = prep.remaining
            /\ ~Unfinished => p.index = NextIndex(prep.index) /\ p.remaining = m.events
            /\ ~p.recalculate /\ ~p.holdPartial /\ (p.parking <=> Parking)
            /\ Parking => m = system
            /\ ~Parking => blocks # <<>> /\ m = Head(blocks) /\ m = blocks[1] /\ 1 \in DOMAIN blocks
<1> DEFINE m == Motion(Prepping)
           p == Loaded(prep, m)
<1>1. /\ m \in Block /\ p \in PrepState
      /\ ~Parking => blocks # <<>> /\ m = Head(blocks)
      /\ Parking => m = system
      /\ Unfinished => p.index = prep.index /\ p.remaining = prep.remaining
      /\ ~Unfinished => p.index = NextIndex(prep.index)
  BY PrepStep DEF Parking
<1>2. ~Unfinished => p.remaining = m.events
  BY DEF Unfinished, Loaded, Reloaded, IInv, TypeOK, PrepState
<1>3. Unfinished => m = Now
  BY <1>1 DEF Now
<1>4. "endMotion" \notin control
  BY DEF Prep, CanPrep
<1>5. ~p.recalculate /\ ~p.holdPartial /\ (p.parking <=> Parking)
  <2>1. plBlock # "none" => ~prep.recalculate /\ ~prep.holdPartial
    BY <1>4 DEF Paths, Flags
  <2>2. prep.holdPartial => ~Parking /\ prep.recalculate
    BY <1>4 DEF Paths, Flags
  <2>3. prep \in PrepState /\ (prep.parking <=> Parking)
    BY DEF IInv, TypeOK, Paths, Flags
  <2> HIDE DEF m
  <2>4. CASE plBlock # "none"
    BY <2>1, <2>3, <2>4 DEF Loaded
  <2>5. CASE plBlock = "none" /\ ~prep.recalculate
    BY <2>2, <2>3, <2>5 DEF Loaded, Reloaded, PrepState
  <2>6. CASE plBlock = "none" /\ prep.recalculate
    BY <2>2, <2>3, <2>6 DEF Loaded, PrepState
  <2> QED
    BY <2>4, <2>5, <2>6
<1>6. ~Parking => m = blocks[1] /\ 1 \in DOMAIN blocks
  BY <1>1 DEF IInv, TypeOK
<1>7. Sane(m)
  BY <1>1, <1>6 DEF Paths, Planned
<1>8. p.index \in SlotIndex /\ p.remaining \in Nat
  BY <1>1 DEF PrepState
<1>9. p.remaining <= m.events
  <2>1. CASE Unfinished
    BY <1>1, <1>3, <2>1 DEF Paths, Flags
  <2>2. CASE ~Unfinished
    BY <1>2, <1>7, <2>2 DEF Sane, Block
  <2> QED
    BY <2>1, <2>2
<1>10. ~Parking => p.remaining > 0
  <2>1. CASE Unfinished
    BY <1>1, <2>1 DEF Paths, Flags
  <2>2. CASE ~Unfinished
    BY <1>2, <1>7, <2>2 DEF Sane
  <2> QED
    BY <2>1, <2>2
<1> QED
  BY <1>1, <1>2, <1>3, <1>5, <1>6, <1>7, <1>8, <1>9, <1>10

LEMMA LoadedMeets ==
  ASSUME IInv, Paths, Prep, NEW o, Chained(o), Back(o)
  PROVE  LET m == Motion(Prepping)
             p == Loaded(prep, m)
         IN Meets(o, m, p.index, Given(m, p.remaining))
<1> DEFINE m == Motion(Prepping)
           p == Loaded(prep, m)
<1>1. /\ Sane(m) /\ p.index \in SlotIndex /\ p.remaining \in Nat
      /\ Unfinished => m = Now /\ p.index = prep.index /\ p.remaining = prep.remaining
      /\ ~Unfinished => p.index = NextIndex(prep.index) /\ p.remaining = m.events
      /\ Parking => m = system
      /\ ~Parking => m = blocks[1] /\ 1 \in DOMAIN blocks
  BY LoadedFacts
<1> HIDE DEF m, p
<1>2. CASE Unfinished
  BY <1>1, <1>2 DEF Back, m, p
<1>3. CASE ~Unfinished
  <2>1. /\ m.events \in Nat /\ m.id \in Idents /\ Finest \in Nat
        /\ prep.index \in SlotIndex /\ MaxMoves \in Nat /\ MaxParks \in Nat
    BY <1>1, SegmentsAssumption DEF Sane, Block, IInv, TypeOK, PrepState
  <2>2. Given(m, p.remaining) = 0
    BY <1>1, <1>3, <2>1 DEF Given
  <2>3. p.index # prep.index
    BY <1>1, <1>3, <2>1, SlotArithmetic
  <2>4. CASE ring = <<>>
    <3>1. prep.index = st.index
      BY <1>3, <2>4 DEF Back
    <3>2. made[m.id] = Unmade
      <4>1. CASE Parking
        BY <1>1, <1>3, <4>1 DEF Paths, ParkCut
      <4>2. CASE ~Parking
        <5>1. m.id <= MaxMoves /\ m.id \in Nat
          BY <1>1, <2>1, <4>2 DEF Paths, Planned, IInv, TypeOK, Idents
        <5>2. ~Passed(m.id)
          BY <1>1, <1>3, <4>2, <5>1 DEF Passed
        <5> QED
          BY <2>1, <5>1, <5>2 DEF Paths, Fresh
      <4> QED
        BY <4>1, <4>2
    <3> QED
      BY <2>2, <2>3, <2>4, <3>1, <3>2 DEF Meets, Resumes, m, p
  <2>5. CASE ring # <<>>
    <3> DEFINE n == Len(ring)
    <3>1. ~Parking
      BY <1>3, <2>5 DEF Paths, ParkCut
    <3>2. n \in DOMAIN ring
      BY <2>5 DEF IInv, TypeOK
    <3>3. prep.index = ring[n].slot /\ o[n] + Fine(ring[n]) = Whole(ring[n].of)
      BY <1>3, <2>5 DEF Back
    <3>4. ring[n].of.id < m.id
      BY <1>1, <1>3, <3>1, <3>2 DEF Paths, Ahead, Passed
    <3>5. m # ring[n].of
      <4>1. m.id \in Nat
        BY <2>1 DEF Idents
      <4> QED
        BY <3>4, <4>1
    <3>6. Joined(ring[n].of, ring[n].slot, o[n] + Fine(ring[n]), m, p.index, Given(m, p.remaining))
      BY <2>2, <2>3, <3>3, <3>4, <3>5 DEF Joined
    <3> QED
      BY <2>5, <3>6 DEF Meets, m, p
  <2> QED
    BY <2>4, <2>5
<1> QED
  BY <1>2, <1>3 DEF m, p

(* What a round leaves: the block goes on, or it is the program's and done.  *)
LEMMA PrepLeaves ==
  ASSUME IInv, Paths, Prep
  PROVE  LET m == Motion(Prepping)
             p == Loaded(prep, m)
         IN /\ UNCHANGED <<mode, system, moves, parks, st, made>>
            /\ prep'.index = p.index /\ ~prep'.recalculate /\ (prep'.parking <=> Parking)
            /\ prep'.holdPartial => ~Parking /\ plBlock' = "program" /\ "endMotion" \in control'
            /\ "endMotion" \in control' => mode \in {"Hold", "Parking"}
            /\ Parking => plBlock' = "system"
            /\ \/ /\ ring' = ring /\ "executeHold" \in control /\ prep'.remaining = p.remaining
                  /\ plBlock' # "none" /\ blocks' = blocks
               \/ \E n \in 1 .. p.remaining, s \in Smoothings :
                    /\ ring' = Append(ring,
                         [slot |-> p.index, ticks |-> n * s, smoothing |-> s, of |-> m])
                    /\ prep'.remaining = p.remaining - n
                    /\ \/ plBlock' # "none" /\ blocks' = blocks /\ (p.remaining - n > 0 \/ Parking)
                       \/ plBlock' = "none" /\ blocks' = Tail(blocks) /\ n = p.remaining /\ ~Parking
<1> DEFINE m == Motion(Prepping)
           p == Loaded(prep, m)
<1>1. /\ p.index \in SlotIndex /\ p.remaining \in Nat
      /\ ~p.recalculate /\ ~p.holdPartial /\ (p.parking <=> Parking)
  BY LoadedFacts
<1>2. p \in PrepState /\ Prepping = (IF Parking THEN "system" ELSE "program")
  BY PrepStep DEF Parking
<1>3. "endMotion" \notin control
  BY DEF Prep, CanPrep
<1>4. "executeHold" \in control => mode \in {"Hold", "Parking"}
  BY DEF IInv, EngineInv
<1>5. UNCHANGED <<mode, system, moves, parks, st, made>>
  BY DEF Prep
<1>6. ASSUME NEW q \in PrepState, ~q.recalculate, ~q.holdPartial, q.parking <=> Parking
      PROVE  /\ Partial(q).index = q.index /\ Partial(q).remaining = q.remaining
             /\ ~Partial(q).recalculate /\ (Partial(q).parking <=> Parking)
             /\ Partial(q).holdPartial => ~Parking
  BY <1>6 DEF Partial, PrepState
<1>7. CASE Bail(p)
  <2>1. prep' = Partial(p) /\ plBlock' = Prepping /\ control' = control \cup {"endMotion"}
        /\ "executeHold" \in control /\ blocks' = blocks /\ ring' = ring
    BY <1>7 DEF Bail
  <2> HIDE DEF p
  <2>2. /\ Partial(p).index = p.index /\ Partial(p).remaining = p.remaining
        /\ ~Partial(p).recalculate /\ (Partial(p).parking <=> Parking)
        /\ Partial(p).holdPartial => ~Parking
    BY <1>1, <1>2, <1>6
  <2> QED
    BY <1>2, <1>4, <1>5, <2>1, <2>2 DEF p
<1>8. CASE Cut(p, m)
  <2>1. PICK n \in 1 .. p.remaining, s \in Smoothings : Cut(p, m)!(n, s)
    BY <1>8 DEF Cut
  <2> DEFINE q == [p EXCEPT !.remaining = @ - n]
  <2>2. ring' = Append(ring, [slot |-> p.index, ticks |-> n * s, smoothing |-> s, of |-> m])
    BY <2>1
  <2>3. q \in PrepState /\ q.index = p.index /\ q.remaining = p.remaining - n
        /\ ~q.recalculate /\ ~q.holdPartial /\ (q.parking <=> Parking)
    BY <1>1, <1>2 DEF PrepState
  <2>4. /\ Partial(q).index = q.index /\ Partial(q).remaining = q.remaining
        /\ ~Partial(q).recalculate /\ (Partial(q).parking <=> Parking)
        /\ Partial(q).holdPartial => ~Parking
    <3> HIDE DEF q
    <3> QED
      BY <1>6, <2>3
  <2>5. CASE q.remaining > 0
    <3>1. blocks' = blocks /\ plBlock' = Prepping
          /\ \/ prep' = q /\ control' = control
             \/ /\ "executeHold" \in control
                /\ prep' = Partial(q)
                /\ control' = control \cup {"endMotion"}
      BY <2>1, <2>5
    <3> HIDE DEF q
    <3>2. /\ prep'.index = p.index /\ ~prep'.recalculate /\ (prep'.parking <=> Parking)
          /\ prep'.holdPartial => ~Parking /\ plBlock' = "program" /\ "endMotion" \in control'
          /\ "endMotion" \in control' => mode \in {"Hold", "Parking"}
          /\ Parking => plBlock' = "system"
          /\ prep'.remaining = p.remaining - n /\ plBlock' # "none"
      BY <1>2, <1>3, <1>4, <2>3, <2>4, <3>1
    <3>3. p.remaining - n > 0
      BY <2>3, <2>5
    <3> HIDE DEF p
    <3> QED
      BY <1>5, <2>2, <3>1, <3>2, <3>3 DEF p
  <2>6. CASE ~(q.remaining > 0)
    <3>1. prep' = q
          /\ IF Prepping = "system"
             THEN control' = control \cup {"endMotion"} /\ plBlock' = "system" /\ blocks' = blocks
             ELSE plBlock' = "none" /\ blocks' = Tail(blocks) /\ control' = control
      BY <2>1, <2>6
    <3>2. n = p.remaining
      <4>1. q.remaining \in Nat
        BY <2>3 DEF PrepState
      <4> QED
        BY <1>1, <2>3, <2>6, <4>1
    <3> HIDE DEF q
    <3>3. /\ prep'.index = p.index /\ ~prep'.recalculate /\ (prep'.parking <=> Parking)
          /\ ~prep'.holdPartial
          /\ "endMotion" \in control' => Parking
          /\ Parking => plBlock' = "system" /\ blocks' = blocks
          /\ ~Parking => plBlock' = "none" /\ blocks' = Tail(blocks)
          /\ prep'.remaining = p.remaining - n
      BY <1>2, <1>3, <2>3, <3>1
    <3> HIDE DEF p
    <3> QED
      BY <1>5, <2>2, <3>2, <3>3 DEF p, Parking
  <2> QED
    BY <2>5, <2>6
<1> QED
  BY <1>7, <1>8 DEF Prep

(* The blocks that are left have been passed as they had been.               *)
LEMMA PassedOn ==
  ASSUME IInv, Parking' <=> Parking, NEW id, Passed(id),
         (blocks' = blocks /\ Unfinished') \/ (blocks' = Tail(blocks) /\ blocks # <<>>)
  PROVE  Passed(id)'
<1>1. CASE blocks' = blocks /\ Unfinished'
  BY <1>1 DEF Passed
<1>2. CASE blocks' = Tail(blocks) /\ blocks # <<>>
  <2> SUFFICES ASSUME NEW i \in DOMAIN blocks' PROVE id < blocks'[i].id
    BY DEF Passed
  <2>1. i \in Nat \ {0} /\ i + 1 \in DOMAIN blocks /\ blocks'[i] = blocks[i + 1] /\ i + 1 # 1
    BY <1>2 DEF IInv, TypeOK
  <2> QED
    BY <2>1 DEF Passed
<1> QED
  BY <1>1, <1>2

LEMMA PlannedOn ==
  ASSUME IInv, Planned, UNCHANGED <<mode, system, moves, parks>>,
         blocks' = blocks \/ (blocks' = Tail(blocks) /\ blocks # <<>>)
  PROVE  Planned'
<1>1. CASE blocks' = blocks
  BY <1>1 DEF Planned, Parking
<1>2. CASE blocks' = Tail(blocks) /\ blocks # <<>>
  <2>1. \A i \in DOMAIN blocks' : i \in Nat /\ i + 1 \in DOMAIN blocks /\ blocks'[i] = blocks[i + 1]
    BY <1>2 DEF IInv, TypeOK
  <2>2. \A i \in DOMAIN blocks' : Sane(blocks'[i]) /\ blocks'[i].id <= moves
    BY <2>1 DEF Planned
  <2>3. ASSUME NEW i \in DOMAIN blocks', NEW j \in DOMAIN blocks', i < j
        PROVE  blocks'[i].id < blocks'[j].id
    <3>1. i + 1 < j + 1
      BY <2>1, <2>3
    <3> QED
      BY <2>1, <3>1 DEF Planned
  <2> QED
    BY <2>2, <2>3 DEF Planned, Parking
<1> QED
  BY <1>1, <1>2

(* A segment more, with the tick it begins at.                               *)
LEMMA CutTraced ==
  ASSUME IInv, Paths, NEW m, Sane(m), NEW r \in Nat, r <= m.events, NEW i \in SlotIndex,
         NEW n \in 1 .. r, NEW s \in Smoothings,
         ring' = Append(ring, [slot |-> i, ticks |-> n * s, smoothing |-> s, of |-> m]),
         UNCHANGED <<st, made>>,
         prep'.index = i, prep'.remaining = r - n,
         NEW o, Chained(o), Front(o), Meets(o, m, i, Given(m, r)),
         IF Unfinished' THEN Now' = m ELSE n = r
  PROVE  Traced'
<1> DEFINE l == Len(ring)
           x == Given(m, r)
           seg == [slot |-> i, ticks |-> n * s, smoothing |-> s, of |-> m]
<1>1. m.events \in Nat /\ n \in Nat /\ n <= r /\ Finest \in Nat
  BY SegmentsAssumption DEF Sane, Block
<1>2. /\ x \in Nat /\ Given(m, r - n) = x + n * Finest /\ x + n * Finest <= Whole(m)
      /\ Given(m, 0) = Whole(m)
  <2>1. PICK e \in Nat : e = m.events /\ r <= e
    BY <1>1
  <2>2. Spreads(e, r, n, Finest)
    BY <1>1, <2>1, Spread
  <2> QED
    BY <2>1, <2>2 DEF Given, Whole, Spreads
<1>3. Fine(seg) = n * Finest
  BY <1>1, FineCut DEF Fine, Unit
<1>4. seg \in Segment
  <2>1. n * s \in Nat \ {0}
    BY SegmentsAssumption
  <2> QED
    BY <2>1 DEF Segment, Sane
<1>5. /\ ring \in Seq(Segment) /\ l \in Nat
      /\ Len(ring') = l + 1 /\ ring' # <<>> /\ ring'[l + 1] = seg
      /\ \A k \in 1 .. l : ring'[k] = ring[k]
  <2>1. ring \in Seq(Segment) /\ ring' = Append(ring, seg)
    BY DEF IInv, TypeOK
  <2> HIDE DEF seg
  <2> QED
    BY <1>4, <2>1
<1>6. seg.slot = i /\ seg.of = m
  OBVIOUS
<1> HIDE DEF seg, x
<1>7. o \in [1 .. l -> Nat]
  BY DEF Chained
<1>8. PICK q \in [1 .. l + 1 -> Nat] : q[l + 1] = x /\ \A k \in 1 .. l : q[k] = o[k]
  <2> DEFINE q == [k \in 1 .. l + 1 |-> IF k = l + 1 THEN x ELSE o[k]]
  <2>1. q \in [1 .. l + 1 -> Nat] /\ q[l + 1] = x /\ \A k \in 1 .. l : q[k] = o[k]
    BY <1>2, <1>5, <1>7
  <2> QED
    BY <2>1
<1>9. Chained(q)'
  <2>1. \A k \in 1 .. l + 1 : q[k] + Fine(ring'[k]) <= Whole(ring'[k].of)
    <3> TAKE k \in 1 .. l + 1
    <3>1. CASE k \in 1 .. l
      BY <1>5, <1>8, <3>1 DEF Chained
    <3>2. CASE k = l + 1
      BY <1>2, <1>3, <1>5, <1>6, <1>8, <3>2
    <3> QED
      BY <1>5, <3>1, <3>2
  <2>2. ASSUME NEW k \in 1 .. l + 1, NEW j \in 1 .. l + 1, j = k + 1
        PROVE  Joined(ring'[k].of, ring'[k].slot, q[k] + Fine(ring'[k]),
                      ring'[j].of, ring'[j].slot, q[j])
    <3>1. k \in 1 .. l
      BY <1>5, <2>2
    <3>2. CASE j \in 1 .. l
      BY <1>5, <1>8, <2>2, <3>1, <3>2 DEF Chained
    <3>3. CASE j = l + 1
      <4>1. k = l /\ ring # <<>>
        BY <1>5, <2>2, <3>1, <3>3
      <4>2. Joined(ring[l].of, ring[l].slot, o[l] + Fine(ring[l]), m, i, x)
        BY <4>1 DEF Meets, x
      <4> QED
        BY <1>5, <1>6, <1>8, <3>1, <3>3, <4>1, <4>2
    <3> QED
      BY <1>5, <3>2, <3>3
  <2> QED
    BY <1>5, <1>8, <2>1, <2>2 DEF Chained, Fine, Unit, Joined, Whole
<1>10. Front(q)'
  <2>1. CASE ring # <<>>
    <3>1. 1 \in 1 .. l
      BY <1>5, <2>1
    <3>2. ring'[1] = ring[1] /\ q[1] = o[1]
      BY <1>5, <1>8, <3>1
    <3>3. CASE st.busy
      <4>1. /\ ring[1].slot = st.index /\ st.count <= ring[1].ticks
            /\ made[ring[1].of.id].of = ring[1].of /\ made[ring[1].of.id] # Unmade
            /\ made[ring[1].of.id].ticks = o[1] + (ring[1].ticks - st.count) * Unit(ring[1])
            /\ st.increment = [a \in Axes |-> ring[1].of.steps[a] * Unit(ring[1])]
            /\ Level(ring[1].of)
        BY <2>1, <3>3 DEF Front
      <4>2. PICK b : b = ring[1].of /\ b = ring'[1].of
        BY <3>2
      <4>3. \A a \in Axes :
              /\ st'.counter[a] <= Whole(b)
              /\ st'.counter[a] + made'[b.id].steps[a] * Whole(b)
                   = Whole(b) \div 2 + made'[b.id].ticks * b.steps[a]
        BY <4>1, <4>2 DEF Level
      <4>4. Level(ring[1].of)'
        BY <4>2, <4>3 DEF Level, Whole
      <4> QED
        BY <3>2, <3>3, <4>1, <4>4 DEF Front, Unit
    <3>4. CASE ~st.busy
      <4>1. Resumes(ring[1].of, ring[1].slot, o[1])
        BY <2>1, <3>4 DEF Front
      <4> QED
        BY <3>2, <3>4, <4>1 DEF Front, Resumes, Level, Whole
    <3> QED
      BY <3>3, <3>4
  <2>2. CASE ring = <<>>
    <3>1. l = 0 /\ ~st.busy
      BY <2>2 DEF IInv, TypeOK
    <3>2. ring'[1] = seg /\ q[1] = x
      BY <1>5, <1>8, <3>1
    <3>3. Resumes(m, i, x)
      BY <2>2 DEF Meets, x
    <3>4. Resumes(m, i, x)'
      BY <3>3 DEF Resumes, Level
    <3> QED
      BY <1>5, <1>6, <3>1, <3>2, <3>4 DEF Front, Resumes, Level
  <2> QED
    BY <2>1, <2>2
<1>11. Back(q)'
  <2>1. q[l + 1] + Fine(ring'[l + 1]) = x + n * Finest
    BY <1>3, <1>5, <1>8
  <2>2. CASE Unfinished'
    <3>1. Joined(m, i, x + n * Finest, m, i, Given(m, r - n))
      BY <1>2 DEF Joined
    <3> QED
      BY <1>5, <1>6, <2>1, <2>2, <3>1 DEF Back, Meets, Joined, Fine, Unit, Given, Whole
  <2>3. CASE ~Unfinished'
    <3>1. x + n * Finest = Whole(m)
      BY <1>1, <1>2, <2>3
    <3> QED
      BY <1>5, <1>6, <2>1, <2>3, <3>1 DEF Back, Fine, Unit, Whole
  <2> QED
    BY <2>2, <2>3
<1> QED
  BY <1>9, <1>10, <1>11 DEF Traced

LEMMA PrepPaths ==
  ASSUME IInv, Paths, Prep
  PROVE  Paths'
<1>1. PICK m, p : m = Motion(Prepping) /\ p = Loaded(prep, m)
  OBVIOUS
<1>2. /\ Sane(m) /\ p.index \in SlotIndex /\ p.remaining \in Nat /\ p.remaining <= m.events
      /\ ~Parking => p.remaining > 0
      /\ Unfinished => m = Now /\ p.index = prep.index /\ p.remaining = prep.remaining
      /\ ~Unfinished => p.index = NextIndex(prep.index) /\ p.remaining = m.events
      /\ Parking => m = system
      /\ ~Parking => blocks # <<>> /\ m = Head(blocks) /\ m = blocks[1] /\ 1 \in DOMAIN blocks
  BY <1>1, LoadedFacts
<1>3. /\ UNCHANGED <<mode, system, moves, parks, st, made>>
      /\ prep'.index = p.index /\ ~prep'.recalculate /\ (prep'.parking <=> Parking)
      /\ prep'.holdPartial => ~Parking /\ plBlock' = "program" /\ "endMotion" \in control'
      /\ "endMotion" \in control' => mode \in {"Hold", "Parking"}
      /\ Parking => plBlock' = "system"
  BY <1>1, PrepLeaves
<1>4. \/ /\ ring' = ring /\ "executeHold" \in control /\ prep'.remaining = p.remaining
         /\ plBlock' # "none" /\ blocks' = blocks
      \/ \E n \in 1 .. p.remaining, s \in Smoothings :
           /\ ring' = Append(ring, [slot |-> p.index, ticks |-> n * s, smoothing |-> s, of |-> m])
           /\ prep'.remaining = p.remaining - n
           /\ \/ plBlock' # "none" /\ blocks' = blocks /\ (p.remaining - n > 0 \/ Parking)
              \/ plBlock' = "none" /\ blocks' = Tail(blocks) /\ n = p.remaining /\ ~Parking
  BY <1>1, PrepLeaves
<1>5. PICK o : Chained(o) /\ Front(o) /\ Back(o)
  BY DEF Paths, Traced
<1>6. Meets(o, m, p.index, Given(m, p.remaining))
  BY <1>1, <1>5, LoadedMeets
<1>7. Parking' <=> Parking
  BY <1>3 DEF Parking
<1>8. Unfinished' <=> plBlock' # "none"
  BY <1>3 DEF Unfinished
<1>9. \/ plBlock' # "none" /\ blocks' = blocks
      \/ plBlock' = "none" /\ blocks' = Tail(blocks) /\ blocks # <<>>
  BY <1>2, <1>4
<1>10. prep'.remaining \in Nat /\ prep'.remaining <= m.events
       /\ (~Parking /\ Unfinished' => prep'.remaining > 0)
  <2>1. m.events \in Nat
    BY <1>2 DEF Sane, Block
  <2>2. PICK r \in Nat : r = p.remaining
    BY <1>2
  <2>3. CASE prep'.remaining = r
    BY <1>2, <2>1, <2>2, <2>3
  <2>4. ASSUME NEW n \in 1 .. r, prep'.remaining = r - n,
               plBlock' = "none" \/ r - n > 0 \/ Parking
        PROVE  prep'.remaining \in Nat /\ prep'.remaining <= m.events
               /\ (~Parking /\ Unfinished' => prep'.remaining > 0)
    <3>1. r - n \in Nat /\ r - n <= r
      OBVIOUS
    <3>2. r - n <= m.events
      BY <1>2, <2>1, <2>2, <3>1
    <3> QED
      BY <1>8, <2>4, <3>1, <3>2
  <2> QED
    BY <1>4, <2>2, <2>3, <2>4
<1>11. Unfinished' => Now' = m
  BY <1>2, <1>3, <1>7, <1>8, <1>9 DEF Now
<1>12. Planned'
  BY <1>3, <1>9, PlannedOn DEF Paths
<1>13. \A id : Passed(id) => Passed(id)'
  BY <1>7, <1>8, <1>9, PassedOn
<1>14. Flags'
  <2>1. plBlock' # "none" => ~prep'.recalculate
    BY <1>3
  <2>2. "endMotion" \in control' => mode' \in {"Hold", "Held", "Parking"} /\ mode' # "Held"
    BY <1>3
  <2>3. Unfinished' => prep'.remaining <= Now'.events
    BY <1>10, <1>11
  <2> QED
    BY <1>3, <1>7, <1>10, <2>1, <2>2, <2>3 DEF Flags
<1>15. ASSUME ring' = ring PROVE Cuts' /\ Ahead' /\ Fresh'
  <2>1. Cuts'
    BY <1>3, <1>7, <1>15 DEF Paths, Cuts
  <2>2. Ahead'
    BY <1>7, <1>13, <1>15 DEF Paths, Ahead, Passed
  <2>3. Fresh'
    BY <1>3, <1>7, <1>13, <1>15 DEF Paths, Fresh
  <2> QED
    BY <2>1, <2>2, <2>3
<1>16. CASE /\ ring' = ring /\ "executeHold" \in control /\ prep'.remaining = p.remaining
            /\ plBlock' # "none" /\ blocks' = blocks
  <2>1. Traced'
    <3>1. Chained(o)' /\ Front(o)'
      BY <1>3, <1>5, <1>16 DEF Chained, Front, Resumes, Level
    <3>2. Meets(o, m, p.index, Given(m, p.remaining))'
      BY <1>3, <1>6, <1>16 DEF Meets, Resumes, Level, Joined, Fine, Unit, Whole
    <3>3. Back(o)'
      BY <1>3, <1>8, <1>11, <1>16, <3>2 DEF Back, Meets, Resumes, Level, Joined, Given
    <3> QED
      BY <3>1, <3>3 DEF Traced
  <2>2. ParkCut'
    <3>1. Parking => Unfinished /\ (ring # <<>> \/ made[system.id] # Unmade)
      BY <1>16 DEF Paths, ParkCut
    <3> QED
      BY <1>3, <1>7, <1>8, <1>16, <3>1 DEF ParkCut
  <2> QED
    BY <1>12, <1>14, <1>15, <1>16, <2>1, <2>2 DEF Paths
<1>17. ASSUME NEW n \in 1 .. p.remaining, NEW s \in Smoothings,
              ring' = Append(ring, [slot |-> p.index, ticks |-> n * s, smoothing |-> s, of |-> m]),
              prep'.remaining = p.remaining - n,
              \/ plBlock' # "none" /\ blocks' = blocks /\ (p.remaining - n > 0 \/ Parking)
              \/ plBlock' = "none" /\ blocks' = Tail(blocks) /\ n = p.remaining /\ ~Parking
       PROVE  Paths'
  <2> DEFINE seg == [slot |-> p.index, ticks |-> n * s, smoothing |-> s, of |-> m]
             l == Len(ring)
  <2>1. seg \in Segment
    <3>1. n * s \in Nat \ {0}
      BY <1>2, SegmentsAssumption
    <3> QED
      BY <1>2, <3>1 DEF Segment, Sane
  <2>2. /\ ring \in Seq(Segment) /\ l \in Nat /\ DOMAIN ring = 1 .. l /\ DOMAIN ring' = 1 .. l + 1
        /\ Len(ring') = l + 1 /\ ring' # <<>> /\ ring'[l + 1].of = m
        /\ \A k \in 1 .. l : ring'[k] = ring[k]
    <3>1. ring \in Seq(Segment) /\ ring' = Append(ring, seg) /\ seg.of = m
      BY <1>17 DEF IInv, TypeOK
    <3> HIDE DEF seg
    <3> QED
      BY <2>1, <3>1
  <2>3. Traced'
    <3>1. PICK r \in Nat, i \in SlotIndex : r = p.remaining /\ i = p.index
      BY <1>2
    <3>2. IF Unfinished' THEN Now' = m ELSE n = r
      BY <1>8, <1>11, <1>17, <3>1
    <3>3. UNCHANGED <<st, made>> /\ prep'.index = i /\ prep'.remaining = r - n
          /\ ring' = Append(ring, [slot |-> i, ticks |-> n * s, smoothing |-> s, of |-> m])
          /\ Meets(o, m, i, Given(m, r)) /\ r <= m.events /\ n \in 1 .. r
      BY <1>2, <1>3, <1>6, <1>17, <3>1
    <3> QED
      BY <1>2, <1>5, <3>2, <3>3, CutTraced
  <2>4. ParkCut'
    BY <1>3, <1>7, <1>8, <2>2 DEF ParkCut
  <2>5. Cuts'
    <3>1. ASSUME NEW k \in 1 .. l + 1
          PROVE  Sane(ring'[k].of) /\ IF Parking THEN ring'[k].of = system ELSE ring'[k].of.id <= moves
      <4>1. CASE k \in 1 .. l
        BY <2>2, <4>1 DEF Paths, Cuts
      <4>2. CASE k = l + 1
        BY <1>2, <2>2, <4>2 DEF Paths, Planned
      <4> QED
        BY <2>2, <4>1, <4>2
    <3> QED
      BY <1>3, <1>7, <2>2, <3>1 DEF Cuts
  <2>6. ~Parking => Passed(m.id)'
    <3> HAVE ~Parking
    <3>1. m = blocks[1] /\ 1 \in DOMAIN blocks /\ DOMAIN blocks \subseteq Nat \ {0}
      BY <1>2 DEF IInv, TypeOK
    <3>2. ASSUME NEW i \in DOMAIN blocks, i # 1 PROVE m.id < blocks[i].id
      <4>1. 1 < i
        BY <3>1, <3>2
      <4> QED
        BY <3>1, <4>1 DEF Paths, Planned
    <3>3. CASE plBlock' # "none" /\ blocks' = blocks
      BY <1>7, <1>8, <3>1, <3>2, <3>3 DEF Passed
    <3>4. CASE blocks' = Tail(blocks)
      <4> SUFFICES ASSUME NEW i \in DOMAIN blocks' PROVE m.id < blocks'[i].id
        BY <1>3 DEF Passed
      <4>1. i + 1 \in DOMAIN blocks /\ blocks'[i] = blocks[i + 1] /\ i + 1 # 1
        BY <1>2, <3>4 DEF IInv, TypeOK
      <4> QED
        BY <3>2, <4>1
    <3> QED
      BY <1>9, <3>3, <3>4
  <2>7. Ahead'
    <3> SUFFICES ASSUME ~Parking, NEW k \in 1 .. l + 1 PROVE Passed(ring[k].of.id)'
      BY <1>7, <2>2 DEF Ahead
    <3>1. CASE k \in 1 .. l
      <4>1. PICK id : id = ring[k].of.id
        OBVIOUS
      <4>2. Passed(id)'
        BY <1>13, <2>2, <3>1, <4>1 DEF Paths, Ahead
      <4> QED
        BY <2>2, <3>1, <4>1, <4>2 DEF Passed
    <3>2. CASE k = l + 1
      BY <2>2, <2>6, <3>2 DEF Passed
    <3> QED
      BY <2>2, <3>1, <3>2
  <2>8. Fresh'
    <3> SUFFICES ASSUME NEW id \in Idents, made[id] # Unmade
                 PROVE  IF id <= MaxMoves
                        THEN id <= moves /\ Passed(id)' /\ (~Parking => id <= ring'[1].of.id)
                        ELSE id <= MaxMoves + parks
      BY <1>3, <1>7, <2>2 DEF Fresh
    <3>1. IF id <= MaxMoves
          THEN id <= moves /\ Passed(id) /\ (~Parking /\ ring # <<>> => id <= ring[1].of.id)
          ELSE id <= MaxMoves + parks
      BY DEF Paths, Fresh
    <3>2. ASSUME Passed(id), ~Parking, ring # <<>> => id <= ring[1].of.id PROVE id <= ring'[1].of.id
      <4>1. CASE ring # <<>>
        <5>1. ring'[1] = ring[1]
          BY <2>2, <4>1
        <5> QED
          BY <3>2, <4>1, <5>1
      <4>2. CASE ring = <<>>
        <5>1. ring'[1].of = m /\ m = blocks[1] /\ 1 \in DOMAIN blocks
          BY <1>2, <2>2, <3>2, <4>2
        <5>2. id \in Nat /\ m.id \in Nat
          BY <1>2, SegmentsAssumption DEF Sane, Block, Idents
        <5>3. id < m.id \/ id = m.id
          BY <3>2, <5>1 DEF Passed
        <5> QED
          BY <5>1, <5>2, <5>3
      <4> QED
        BY <4>1, <4>2
    <3> QED
      BY <1>13, <3>1, <3>2
  <2> QED
    BY <1>12, <1>14, <2>3, <2>4, <2>5, <2>7, <2>8 DEF Paths
<1> QED
  BY <1>4, <1>16, <1>17

-----------------------------------------------------------------------------
(* The interrupt.                                                            *)

(* The state with the segment that is traced, of block b in slot i, where c  *)
(* of t ticks are to come: the counters are set up, or as they were left.    *)
Traces(s, b, i, x, c, t, u) ==
    /\ s.index = i /\ s.count = c /\ slots[i] = b
    /\ s.increment = [a \in Axes |-> b.steps[a] * u]
    /\ s.counter \in [Axes -> Nat]
    /\ made[b.id].ticks = x + (t - c) * u
    /\ \A a \in Axes :
         /\ s.counter[a] <= Whole(b)
         /\ s.counter[a] + made[b.id].steps[a] * Whole(b)
              = Whole(b) \div 2 + made[b.id].ticks * b.steps[a]

LEMMA PulseTraces ==
  ASSUME IInv, Paths, ring # <<>>, NEW o, Chained(o), Front(o)
  PROVE  LET s == IF st.busy THEN st ELSE Fetched
             seg == ring[1]
         IN /\ s.count \in 1 .. seg.ticks
            /\ Traces(s, seg.of, seg.slot, o[1], s.count, seg.ticks, Unit(seg))
<1> DEFINE s == IF st.busy THEN st ELSE Fetched
           seg == ring[1]
           b == seg.of
<1>1. 1 \in DOMAIN ring /\ seg \in Segment /\ Head(ring) = seg
  BY DEF IInv, TypeOK
<1>2. slots[seg.slot] = b
  BY <1>1 DEF IInv, SlotIntact
<1>3. b \in Block /\ seg.ticks \in Nat \ {0} /\ seg.slot \in SlotIndex /\ seg.smoothing \in Smoothings
  BY <1>1 DEF Segment
<1>4. Unit(seg) \in Nat
  BY <1>3, FineCut DEF Unit
<1>5. CASE st.busy
  <2>1. /\ seg.slot = st.index /\ st.count <= seg.ticks
        /\ made[b.id].ticks = o[1] + (seg.ticks - st.count) * Unit(seg)
        /\ st.increment = [a \in Axes |-> b.steps[a] * Unit(seg)]
        /\ Level(b)
    BY <1>5 DEF Front
  <2>2. st.count \in Nat /\ st.count > 0 /\ st.counter \in [Axes -> Nat]
    BY <1>5 DEF IInv, TypeOK, StepperState
  <2>3. st.count \in 1 .. seg.ticks
    BY <1>3, <2>1, <2>2
  <2>4. Traces(st, b, seg.slot, o[1], st.count, seg.ticks, Unit(seg))
    BY <1>2, <2>1, <2>2 DEF Traces, Level
  <2> QED
    BY <1>5, <2>3, <2>4
<1>6. CASE ~st.busy
  <2> DEFINE f == Fetched
             w == Whole(b)
  <2>1. Resumes(b, seg.slot, o[1])
    BY <1>6 DEF Front
  <2>2. f.count = seg.ticks /\ f.index = seg.slot
        /\ f.increment = [a \in Axes |-> b.steps[a] * Unit(seg)]
    BY <1>1, <1>2 DEF Fetched, Unit
  <2>3. w \in Nat /\ w \div 2 \in Nat /\ w \div 2 <= w
    <3>1. w \in Nat
      BY <1>3, SegmentsAssumption DEF Whole, Block
    <3> HIDE DEF w
    <3> QED
      BY <3>1
  <2>4. (seg.ticks - seg.ticks) * Unit(seg) = 0
    BY <1>3, <1>4
  <2>5. CASE made[b.id] = Unmade
    <3>1. f.counter = [a \in Axes |-> w \div 2]
      BY <1>1, <1>2, <2>1, <2>5 DEF Fetched, Resumes, NewBlock, Whole
    <3>2. made[b.id].ticks = 0 /\ made[b.id].steps = [a \in Axes |-> 0] /\ o[1] = 0
      BY <2>1, <2>5 DEF Resumes, Unmade
    <3>3. \A a \in Axes : b.steps[a] \in Nat
      BY <1>3 DEF Block
    <3> HIDE DEF w, f
    <3>4. ASSUME NEW a \in Axes
          PROVE  f.counter[a] <= w /\ f.counter[a] + made[b.id].steps[a] * w
                   = w \div 2 + made[b.id].ticks * b.steps[a]
      <4>1. f.counter[a] = w \div 2 /\ made[b.id].steps[a] = 0
        BY <3>1, <3>2
      <4>2. 0 * w = 0 /\ 0 * b.steps[a] = 0
        BY <2>3, <3>3
      <4> QED
        BY <2>3, <3>2, <4>1, <4>2
    <3>5. f.counter \in [Axes -> Nat]
      BY <2>3, <3>1
    <3>6. made[b.id].ticks = o[1] + (seg.ticks - seg.ticks) * Unit(seg)
      BY <2>4, <3>2
    <3> QED
      BY <1>2, <1>3, <1>6, <2>2, <3>4, <3>5, <3>6 DEF Traces, f, w
  <2>6. CASE made[b.id] # Unmade
    <3>1. seg.slot = st.index /\ made[b.id].ticks = o[1] /\ Level(b)
      BY <2>1, <2>6 DEF Resumes
    <3>2. f.counter = st.counter /\ st.counter \in [Axes -> Nat]
      BY <1>1, <3>1 DEF Fetched, NewBlock, IInv, TypeOK, StepperState
    <3>3. o[1] \in Nat
      BY <1>1 DEF Chained, IInv, TypeOK
    <3>4. made[b.id].ticks = o[1] + (seg.ticks - seg.ticks) * Unit(seg)
      BY <2>4, <3>1, <3>3
    <3> HIDE DEF f, w
    <3> QED
      BY <1>2, <1>3, <1>6, <2>2, <3>1, <3>2, <3>4 DEF Traces, Level, f
  <2> QED
    BY <2>5, <2>6
<1> QED
  BY <1>5, <1>6

(* A tick: the block is further by the segment's unit and the axes that are  *)
(* due have stepped.                                                         *)
Ticked(b, i, x, c, t, u) ==
    /\ st'.busy = (c > 1) /\ st'.count = c - 1 /\ st'.index = i
    /\ st'.increment = [a \in Axes |-> b.steps[a] * u]
    /\ ring' = IF c > 1 THEN ring ELSE Tail(ring)
    /\ made'[b.id].of = b /\ made'[b.id] # Unmade
    /\ made'[b.id].ticks = x + (t - (c - 1)) * u
    /\ made'[b.id].ticks <= Whole(b)
    /\ \A id \in Idents : id # b.id => made'[id] = made[id]
    /\ Level(b)'

LEMMA TickMade ==
  ASSUME TypeOK, TypeOK', Pulse,
         NEW b, Sane(b), NEW u \in Nat \ {0}, u <= Finest, NEW i \in SlotIndex, NEW x \in Nat,
         NEW t \in Nat, NEW c \in 1 .. t, x + t * u <= Whole(b),
         Head(ring).of = b, Unit(Head(ring)) = u,
         Traces(IF st.busy THEN st ELSE Fetched, b, i, x, c, t, u)
  PROVE  Ticked(b, i, x, c, t, u)
<1> USE DEF Ticked
<1>1. PICK s : s = IF st.busy THEN st ELSE Fetched
  OBVIOUS
<1>2. st' = Advance(s) /\ ring' = (IF s.count > 1 THEN ring ELSE Tail(ring)) /\ Record(s, Head(ring))
  BY <1>1 DEF Pulse
<1>3. Traces(s, b, i, x, c, t, u)
  BY <1>1
<1>4. s.index = i /\ s.count = c /\ slots[i] = b /\ s.increment = [a \in Axes |-> b.steps[a] * u]
      /\ s.counter \in [Axes -> Nat] /\ made[b.id].ticks = x + (t - c) * u
  BY <1>3 DEF Traces
<1>5. b \in Block /\ b.id \in Idents /\ b.events \in Nat /\ Finest \in Nat /\ b.steps \in [Axes -> Nat]
  BY SegmentsAssumption DEF Sane, Block
<1>6. st'.busy = (c > 1) /\ st'.count = c - 1 /\ st'.index = i
      /\ st'.increment = [a \in Axes |-> b.steps[a] * u]
  BY <1>2, <1>4 DEF Advance
<1>7. ring' = IF c > 1 THEN ring ELSE Tail(ring)
  BY <1>2, <1>4
<1>8. PICK w \in Nat : w = Whole(b)
  BY <1>5 DEF Whole
<1>9. \A a \in Axes : Steps(s, a) <=> s.counter[a] + b.steps[a] * u > w
  BY <1>4, <1>8 DEF Steps, Whole
<1>10. PICK d \in Nat : d = made[b.id].ticks
  BY <1>5 DEF TypeOK, MadeState
<1>11. PICK z \in [Axes -> Nat] : z = made[b.id].steps
  BY <1>5 DEF TypeOK, MadeState
<1>12. /\ made'[b.id] = [of |-> b, ticks |-> d + u,
                         steps |-> [a \in Axes |-> z[a] + (IF Steps(s, a) THEN 1 ELSE 0)]]
       /\ \A id \in Idents : id # b.id => made'[id] = made[id]
  BY <1>2, <1>5, <1>10, <1>11 DEF Record, Unit, TypeOK
<1>13. d = x + (t - c) * u /\ c \in Nat \ {0} /\ c <= t
  BY <1>4, <1>10
<1>14. d + u = x + (t - (c - 1)) * u /\ d + u <= w
  <2>1. (t - c) * u \in Nat /\ (t - (c - 1)) * u = (t - c) * u + u /\ (t - c) * u + u <= t * u
    BY <1>13, TickOf
  <2>2. t * u \in Nat
    OBVIOUS
  <2> QED
    BY <1>8, <1>13, <2>1, <2>2
<1>15. d + u # 0
  BY <1>10
<1>16. st'.counter = [a \in Axes |-> s.counter[a] + b.steps[a] * u - (IF Steps(s, a) THEN w ELSE 0)]
  BY <1>2, <1>4, <1>8 DEF Advance, Whole
<1>17. ASSUME NEW a \in Axes
       PROVE  /\ st'.counter[a] <= w
              /\ st'.counter[a] + made'[b.id].steps[a] * w = w \div 2 + (d + u) * b.steps[a]
  <2>1. PICK k \in Nat, n \in Nat, p \in Nat : k = s.counter[a] /\ n = z[a] /\ p = b.steps[a]
    BY <1>4, <1>5, <1>11
  <2>2. k <= w /\ k + n * w = w \div 2 + d * p
    BY <1>3, <1>8, <1>10, <1>11, <2>1 DEF Traces
  <2>3. p * u <= w
    <3>1. p <= b.events
      BY <2>1 DEF Sane
    <3>2. p * u <= b.events * Finest
      BY <1>5, <3>1, Products
    <3> QED
      BY <1>8, <3>2 DEF Whole
  <2>4. LevelsOn(k, n, w, d, p, u)
    BY <2>2, <2>3, LevelOn
  <2>5. CASE Steps(s, a)
    <3>1. st'.counter[a] = k + p * u - w /\ made'[b.id].steps[a] = n + 1
      BY <1>12, <1>16, <2>1, <2>5
    <3> QED
      BY <1>9, <2>1, <2>4, <2>5, <3>1 DEF LevelsOn
  <2>6. CASE ~Steps(s, a)
    <3>1. st'.counter[a] = k + p * u - 0 /\ made'[b.id].steps[a] = n + 0
      BY <1>12, <1>16, <2>1, <2>6
    <3>2. st'.counter[a] = k + p * u /\ made'[b.id].steps[a] = n
      BY <3>1
    <3>3. p * u \in Nat
      OBVIOUS
    <3> QED
      BY <1>9, <2>1, <2>4, <2>6, <3>2, <3>3 DEF LevelsOn
  <2> QED
    BY <2>5, <2>6
<1>18. Level(b)'
  BY <1>8, <1>12, <1>17 DEF Level, Whole
<1>19. made'[b.id].of = b /\ made'[b.id] # Unmade
  BY <1>12, <1>15 DEF Unmade
<1> QED
  BY <1>6, <1>7, <1>8, <1>12, <1>14, <1>18, <1>19

(* What follows the segment that has been traced is begun, or has not been.  *)
LEMMA NextResumes ==
  ASSUME IInv, Paths, ring # <<>>, NEW b, b = ring[1].of, NEW i, NEW d,
         st'.index = i, made'[b.id].of = b, made'[b.id] # Unmade, made'[b.id].ticks = d, Level(b)',
         \A id \in Idents : id # b.id => made'[id] = made[id],
         NEW c, NEW j, NEW y, Joined(b, i, d, c, j, y),
         Sane(c), IF Parking THEN c = system ELSE c.id <= moves
  PROVE  Resumes(c, j, y)'
<1>1. CASE c = b
  BY <1>1 DEF Joined, Resumes
<1>2. CASE c # b
  <2>1. b.id < c.id /\ j # i /\ y = 0
    BY <1>2 DEF Joined
  <2>2. 1 \in DOMAIN ring
    BY DEF IInv, TypeOK
  <2>3. ~Parking /\ c.id <= moves
    BY <1>2, <2>2 DEF Paths, Cuts
  <2>4. b.id \in Nat /\ c.id \in Idents /\ c.id \in Nat /\ c.id <= MaxMoves
    <3>1. Sane(b)
      BY <2>2 DEF Paths, Cuts
    <3>2. b.id \in Idents /\ c.id \in Idents
      BY <3>1 DEF Sane, Block
    <3>3. Idents \subseteq Nat /\ MaxMoves \in Nat /\ moves \in 0 .. MaxMoves
      BY SegmentsAssumption DEF Idents, IInv, TypeOK
    <3>4. \A n \in Nat : n <= moves => n <= MaxMoves
      BY <3>3
    <3> QED
      BY <2>3, <3>2, <3>3, <3>4
  <2>5. made[c.id] = Unmade
    BY <2>1, <2>3, <2>4 DEF Paths, Fresh
  <2>6. made'[c.id] = Unmade
    BY <2>1, <2>4, <2>5
  <2> QED
    BY <2>1, <2>6 DEF Resumes
<1> QED
  BY <1>1, <1>2

(* The block in preparation is the parking move or one of the program's.     *)
LEMMA NowSane ==
  ASSUME IInv, Paths, Unfinished
  PROVE  Sane(Now) /\ IF Parking THEN Now = system ELSE Now.id <= moves
<1>1. CASE Parking
  BY <1>1 DEF Paths, Planned, Now
<1>2. CASE ~Parking
  <2>1. blocks # <<>> /\ Now = Head(blocks)
    BY <1>2, NowIs DEF Paths
  <2>2. 1 \in DOMAIN blocks /\ Now = blocks[1]
    BY <2>1 DEF IInv, TypeOK
  <2> QED
    BY <1>2, <2>2 DEF Paths, Planned
<1> QED
  BY <1>1, <1>2

LEMMA PulseTraced ==
  ASSUME IInv, Paths, ring # <<>>, NEW b, Sane(b), b = ring[1].of,
         NEW u \in Nat, u = Unit(ring[1]), NEW i, i = ring[1].slot,
         NEW t \in Nat, t = ring[1].ticks, NEW c \in 1 .. t,
         NEW o, Chained(o), Back(o),
         UNCHANGED <<mode, blocks, system, moves, parks, plBlock, prep>>,
         NEW x, x = o[1], Ticked(b, i, x, c, t, u)
  PROVE  Traced'
<1> DEFINE l == Len(ring)
<1>0. /\ st'.busy = (c > 1) /\ st'.count = c - 1 /\ st'.index = i
      /\ st'.increment = [a \in Axes |-> b.steps[a] * u]
      /\ ring' = IF c > 1 THEN ring ELSE Tail(ring)
      /\ made'[b.id].of = b /\ made'[b.id] # Unmade
      /\ made'[b.id].ticks = o[1] + (t - (c - 1)) * u
      /\ \A id \in Idents : id # b.id => made'[id] = made[id]
      /\ Level(b)'
  BY DEF Ticked
<1>1. /\ ring \in Seq(Segment) /\ l \in Nat \ {0} /\ 1 \in 1 .. l /\ DOMAIN ring = 1 .. l
      /\ o \in [1 .. l -> Nat]
  BY DEF IInv, TypeOK, Chained
<1>2. (Unfinished' <=> Unfinished) /\ Now' = Now /\ (Parking' <=> Parking)
  BY DEF Unfinished, Now, Parking
<1>3. CASE c > 1
  <2>1. ring' = ring /\ st'.busy
    BY <1>0, <1>3
  <2>2. Chained(o)'
    <3>1. \A k \in 1 .. l : o[k] + Fine(ring[k]) <= Whole(ring[k].of)
      BY DEF Chained
    <3>2. \A k, j \in 1 .. l : j = k + 1 =>
            Joined(ring[k].of, ring[k].slot, o[k] + Fine(ring[k]), ring[j].of, ring[j].slot, o[j])
      BY DEF Chained
    <3> QED
      BY <1>1, <2>1, <3>1, <3>2 DEF Chained, Fine, Unit, Joined, Whole
  <2>3. Front(o)'
    <3>1. c - 1 <= t
      OBVIOUS
    <3> QED
      BY <1>0, <2>1, <3>1 DEF Front, Unit
  <2>4. Back(o)'
    BY <1>2, <2>1 DEF Back, Meets, Joined, Fine, Unit, Given, Whole
  <2> QED
    BY <2>2, <2>3, <2>4 DEF Traced
<1>4. CASE ~(c > 1)
  <2>1. c = 1 /\ ring' = Tail(ring) /\ ~st'.busy
    <3>1. c = 1
      BY <1>4
    <3>2. ring' = Tail(ring)
      BY <1>0, <1>4
    <3>3. ~st'.busy
      BY <1>0, <1>4, Zenon
    <3> QED
      BY <3>1, <3>2, <3>3
  <2>2. /\ Len(ring') = l - 1 /\ DOMAIN ring' = 1 .. l - 1
        /\ \A k \in 1 .. l - 1 : k + 1 \in 1 .. l /\ ring'[k] = ring[k + 1]
        /\ ring' = <<>> <=> l = 1
    <3>1. /\ ring' = Tail(ring) /\ ring \in Seq(Segment) /\ Len(ring) = l /\ l \in Nat \ {0}
      BY <1>1, <2>1
    <3>2. /\ Len(ring') = l - 1 /\ DOMAIN ring' = 1 .. l - 1 /\ ring' \in Seq(Segment)
          /\ \A k \in 1 .. l - 1 : ring'[k] = ring[k + 1]
      BY <3>1
    <3> HIDE DEF l
    <3>3. \A k \in 1 .. l - 1 : k + 1 \in 1 .. l
      BY <3>1
    <3>4. ring' = <<>> <=> l = 1
      <4>1. ASSUME NEW q \in Seq(Segment) PROVE q = <<>> <=> Len(q) = 0
        OBVIOUS
      <4>2. ring' = <<>> <=> Len(ring') = 0
        BY <3>2, <4>1
      <4>3. l - 1 = 0 <=> l = 1
        BY <3>1
      <4> QED
        BY <3>2, <4>2, <4>3
    <3> QED
      BY <3>2, <3>3, <3>4
  <2>3. PICK d : d = o[1] + t * u
    OBVIOUS
  <2>4. made'[b.id].ticks = d /\ o[1] + Fine(ring[1]) = d
    <3>1. t - (c - 1) = t
      BY <2>1
    <3> QED
      BY <1>0, <2>3, <3>1 DEF Fine
  <2>5. ASSUME NEW e, NEW j, NEW y, Joined(b, i, d, e, j, y),
               Sane(e), IF Parking THEN e = system ELSE e.id <= moves
        PROVE  Resumes(e, j, y)'
    BY <1>0, <2>4, <2>5, NextResumes
  <2>6. PICK q \in [1 .. l - 1 -> Nat] : \A k \in 1 .. l - 1 : q[k] = o[k + 1]
    <3> DEFINE q == [k \in 1 .. l - 1 |-> o[k + 1]]
    <3>1. q \in [1 .. l - 1 -> Nat] /\ \A k \in 1 .. l - 1 : q[k] = o[k + 1]
      BY <1>1, <2>2
    <3> QED
      BY <3>1
  <2>7. Chained(q)'
    <3>1. \A k \in 1 .. l - 1 : q[k] + Fine(ring'[k]) <= Whole(ring'[k].of)
      BY <2>2, <2>6 DEF Chained
    <3>2. ASSUME NEW k \in 1 .. l - 1, NEW j \in 1 .. l - 1, j = k + 1
          PROVE  Joined(ring'[k].of, ring'[k].slot, q[k] + Fine(ring'[k]),
                        ring'[j].of, ring'[j].slot, q[j])
      <4>1. k + 1 \in 1 .. l /\ j + 1 \in 1 .. l /\ j + 1 = (k + 1) + 1
        BY <2>2, <3>2
      <4>2. Joined(ring[k + 1].of, ring[k + 1].slot, o[k + 1] + Fine(ring[k + 1]),
                   ring[j + 1].of, ring[j + 1].slot, o[j + 1])
        BY <4>1 DEF Chained
      <4> QED
        BY <2>2, <2>6, <4>2
    <3> QED
      BY <2>2, <2>6, <3>1, <3>2 DEF Chained, Fine, Unit, Joined, Whole
  <2>8. Front(q)'
    <3>1. CASE l = 1
      BY <2>2, <3>1 DEF Front
    <3>2. CASE l > 1
      <4>1. 1 \in 1 .. l - 1 /\ 2 \in 1 .. l /\ 2 = 1 + 1
        BY <1>1, <3>2
      <4>2. PICK e, j, y : e = ring[2].of /\ j = ring[2].slot /\ y = o[2]
        OBVIOUS
      <4>3. Joined(b, i, d, e, j, y)
        BY <1>1, <2>4, <4>1, <4>2 DEF Chained
      <4>4. Sane(e) /\ IF Parking THEN e = system ELSE e.id <= moves
        BY <1>1, <4>1, <4>2 DEF Paths, Cuts
      <4>5. Resumes(e, j, y)'
        BY <2>5, <4>3, <4>4
      <4>6. ring'[1] = ring[2] /\ q[1] = o[2]
        BY <2>2, <2>6, <4>1
      <4> QED
        BY <2>1, <4>2, <4>5, <4>6 DEF Front, Resumes, Level
    <3> QED
      BY <1>1, <3>1, <3>2
  <2>9. Back(q)'
    <3>1. CASE l = 1
      <4>1. CASE Unfinished
        <5>1. PICK e, j, y : e = Now /\ j = prep.index /\ y = Given(Now, prep.remaining)
          OBVIOUS
        <5>2. Joined(b, i, d, e, j, y)
          BY <2>4, <3>1, <4>1, <5>1 DEF Back, Meets
        <5>3. Sane(e) /\ IF Parking THEN e = system ELSE e.id <= moves
          BY <4>1, <5>1, NowSane
        <5>4. Resumes(e, j, y)'
          BY <2>5, <5>2, <5>3
        <5>5. Meets(q, e, j, y)'
          BY <2>2, <3>1, <5>4 DEF Meets
        <5>6. Now' = e /\ prep'.index = j /\ Given(Now, prep.remaining)' = y
          BY <1>2, <5>1 DEF Given
        <5> QED
          BY <1>2, <4>1, <5>5, <5>6 DEF Back, Meets, Resumes, Level
      <4>2. CASE ~Unfinished
        BY <1>0, <1>2, <2>2, <3>1, <4>2 DEF Back
      <4> QED
        BY <4>1, <4>2
    <3>2. CASE l > 1
      <4>1. /\ ring' # <<>> /\ Len(ring') = l - 1 /\ l - 1 \in 1 .. l - 1 /\ (l - 1) + 1 = l
            /\ ring # <<>>
        <5>1. l # 1 /\ l - 1 \in 1 .. l - 1 /\ (l - 1) + 1 = l
          BY <1>1, <3>2
        <5> QED
          BY <2>2, <5>1
      <4>2. ring'[l - 1] = ring[l] /\ q[l - 1] = o[l]
        BY <2>2, <2>6, <4>1
      <4>3. CASE Unfinished
        <5>1. PICK e, j, y : e = Now /\ j = prep.index /\ y = Given(Now, prep.remaining)
          OBVIOUS
        <5>2. Joined(ring[l].of, ring[l].slot, o[l] + Fine(ring[l]), e, j, y)
          BY <4>1, <4>3, <5>1 DEF Back, Meets
        <5>3. Now' = e /\ prep'.index = j /\ Given(Now, prep.remaining)' = y
          BY <1>2, <5>1 DEF Given
        <5>4. Meets(q, e, j, y)'
          BY <4>1, <4>2, <5>2 DEF Meets, Joined, Fine, Unit, Whole
        <5> QED
          BY <1>2, <4>3, <5>3, <5>4 DEF Back
      <4>4. CASE ~Unfinished
        BY <1>2, <4>1, <4>2, <4>4 DEF Back, Fine, Unit, Whole
      <4> QED
        BY <4>3, <4>4
    <3> QED
      BY <1>1, <3>1, <3>2
  <2> QED
    BY <2>7, <2>8, <2>9 DEF Traced
<1> QED
  BY <1>3, <1>4

LEMMA PulsePaths ==
  ASSUME IInv, TypeOK', Paths, PathExact, disturbed = {}, Finest >= 2, Pulse
  PROVE  Paths' /\ PathExact'
<1> USE DEF protocol, planner, preparation
<1>1. /\ UNCHANGED <<mode, control, blocks, system, moves, parks, plBlock, prep, waking, disturbed>>
      /\ ring # <<>>
  BY DEF Pulse
<1>2. PICK o : Chained(o) /\ Front(o) /\ Back(o)
  BY DEF Paths, Traced
<1>3. PICK seg : seg = ring[1]
  OBVIOUS
<1>4. /\ 1 \in DOMAIN ring /\ seg \in Segment /\ Head(ring) = seg /\ Len(ring) \in Nat \ {0}
      /\ DOMAIN ring = 1 .. Len(ring)
  BY <1>1, <1>3 DEF IInv, TypeOK
<1>5. PICK b : b = seg.of
  OBVIOUS
<1>6. PICK i \in SlotIndex, t \in Nat : i = seg.slot /\ t = seg.ticks
  BY <1>4 DEF Segment
<1>7. PICK u \in Nat \ {0} : u = Unit(seg) /\ u <= Finest
  BY <1>4, FineCut DEF Unit, Segment
<1>8. PICK s : s = IF st.busy THEN st ELSE Fetched
  OBVIOUS
<1>9. s.count \in 1 .. t /\ Traces(s, b, i, o[1], s.count, t, u)
  BY <1>1, <1>2, <1>3, <1>5, <1>6, <1>7, <1>8, PulseTraces
<1>10. PICK c \in 1 .. t : c = s.count
  BY <1>9
<1>11. Sane(b) /\ IF Parking THEN b = system ELSE b.id <= moves
  BY <1>3, <1>4, <1>5 DEF Paths, Cuts
<1>12. PICK x \in Nat : x = o[1]
  BY <1>2, <1>4 DEF Chained
<1>13. x + t * u <= Whole(b)
  BY <1>2, <1>3, <1>4, <1>5, <1>6, <1>7, <1>12 DEF Chained, Fine
<1>14. Traces(IF st.busy THEN st ELSE Fetched, b, i, x, c, t, u)
  BY <1>8, <1>9, <1>10, <1>12
<1>15. Ticked(b, i, x, c, t, u)
  <2>1. Head(ring).of = b /\ Unit(Head(ring)) = u
    BY <1>4, <1>5, <1>7
  <2>2. TypeOK
    BY DEF IInv
  <2> QED
    BY <1>7, <1>11, <1>13, <1>14, <2>1, <2>2, TickMade
<1>16. Traced'
  <2>1. b = ring[1].of /\ u = Unit(ring[1]) /\ i = ring[1].slot /\ t = ring[1].ticks /\ u \in Nat
    BY <1>3, <1>5, <1>6, <1>7
  <2> QED
    BY <1>1, <1>2, <1>11, <1>12, <1>15, <2>1, PulseTraced
<1> USE DEF Ticked
<1>17. (Parking' <=> Parking) /\ (Unfinished' <=> Unfinished) /\ Now' = Now
  BY <1>1 DEF Parking, Unfinished, Now
<1>18. Planned' /\ Flags'
  BY <1>1, <1>17 DEF Paths, Planned, Flags
<1>19. b.id \in Idents /\ b.id \in Nat /\ b.events \in Nat /\ b.steps \in [Axes -> Nat]
  BY <1>11, SegmentsAssumption DEF Sane, Block, Idents
<1>20. ParkCut'
  <2> SUFFICES ASSUME Parking
               PROVE  IF Unfinished THEN ring' # <<>> \/ made'[system.id] # Unmade
                      ELSE FALSE
    BY <1>1, <1>17 DEF ParkCut
  <2>1. Unfinished
    BY <1>1 DEF Paths, ParkCut
  <2>2. made'[system.id] # Unmade
    BY <1>11, <1>15
  <2> QED
    BY <2>1, <2>2
<1>21. \A id : Passed(id)' <=> Passed(id)
  BY <1>1, <1>17 DEF Passed
<1>22. \A k \in DOMAIN ring' : \E j \in DOMAIN ring : ring'[k] = ring[j]
  <2>1. CASE ring' = ring
    BY <2>1
  <2>2. CASE ring' = Tail(ring)
    <3> SUFFICES ASSUME NEW k \in DOMAIN ring' PROVE \E j \in DOMAIN ring : ring'[k] = ring[j]
      OBVIOUS
    <3>1. k + 1 \in DOMAIN ring /\ ring'[k] = ring[k + 1]
      BY <1>1, <2>2 DEF IInv, TypeOK
    <3> QED
      BY <3>1
  <2> QED
    BY <1>15, <2>1, <2>2
<1>23. Cuts'
  BY <1>1, <1>17, <1>22 DEF Paths, Cuts
<1>24. Ahead'
  <2> SUFFICES ASSUME ~Parking, NEW k \in DOMAIN ring' PROVE Passed(ring'[k].of.id)
    BY <1>1, <1>17 DEF Ahead, Passed
  <2> QED
    BY <1>22 DEF Paths, Ahead
<1>25. ~Parking /\ ring' # <<>> => b.id <= ring'[1].of.id
  <2> HAVE ~Parking /\ ring' # <<>>
  <2>1. CASE ring' = ring
    BY <1>3, <1>5, <1>19, <2>1
  <2>2. CASE ring' = Tail(ring)
    <3>1. 1 \in 1 .. Len(ring) /\ 2 \in 1 .. Len(ring) /\ 2 = 1 + 1 /\ ring'[1] = ring[2]
      BY <1>1, <1>4, <2>2 DEF IInv, TypeOK
    <3>2. ring[2].of = ring[1].of \/ ring[1].of.id < ring[2].of.id
      BY <1>2, <3>1 DEF Chained, Joined
    <3>3. ring[2].of.id \in Nat
      BY <1>4, <3>1, SegmentsAssumption DEF Paths, Cuts, Sane, Block, Idents
    <3> QED
      BY <1>3, <1>5, <1>19, <3>1, <3>2, <3>3
  <2> QED
    BY <1>15, <2>1, <2>2
<1>26. Fresh'
  <2> SUFFICES ASSUME NEW id \in Idents, made'[id] # Unmade
               PROVE  IF id <= MaxMoves
                      THEN /\ id <= moves /\ Passed(id)
                           /\ ~Parking /\ ring' # <<>> => id <= ring'[1].of.id
                      ELSE id <= MaxMoves + parks
    BY <1>1, <1>17, <1>21 DEF Fresh
  <2>1. id \in Nat /\ moves \in 0 .. MaxMoves /\ MaxMoves \in Nat /\ parks \in Nat
    BY SegmentsAssumption DEF Idents, IInv, TypeOK
  <2>2. CASE id = b.id
    <3>1. CASE Parking
      <4>1. id = MaxMoves + parks /\ parks > 0
        BY <1>11, <2>2, <3>1 DEF Paths, Planned
      <4> QED
        BY <2>1, <4>1
    <3>2. CASE ~Parking
      <4>1. Passed(id)
        BY <1>3, <1>4, <1>5, <2>2, <3>2 DEF Paths, Ahead
      <4>2. id <= moves /\ id <= MaxMoves
        BY <1>11, <2>1, <2>2, <3>2
      <4> QED
        BY <1>25, <2>2, <4>1, <4>2
    <3> QED
      BY <3>1, <3>2
  <2>3. CASE id # b.id
    <3>1. made[id] # Unmade
      BY <1>15, <2>3
    <3>2. IF id <= MaxMoves
          THEN id <= moves /\ Passed(id) /\ (~Parking => id <= b.id)
          ELSE id <= MaxMoves + parks
      BY <1>1, <1>3, <1>5, <3>1 DEF Paths, Fresh
    <3>3. ~Parking /\ ring' # <<>> => ring'[1].of.id \in Nat
      <4> HAVE ~Parking /\ ring' # <<>>
      <4>1. 1 \in DOMAIN ring'
        BY DEF TypeOK
      <4>2. Sane(ring'[1].of)
        BY <1>22, <4>1 DEF Paths, Cuts
      <4> QED
        BY <4>2, SegmentsAssumption DEF Sane, Block, Idents
    <3>4. ~Parking /\ ring' # <<>> /\ id <= b.id => id <= ring'[1].of.id
      BY <1>19, <1>25, <2>1, <3>3
    <3> QED
      BY <3>2, <3>4
  <2> QED
    BY <2>2, <2>3
<1>27. Paths'
  BY <1>16, <1>18, <1>20, <1>23, <1>24, <1>26 DEF Paths
<1>28. PathExact'
  <2> SUFFICES ASSUME NEW id \in Idents
               PROVE  /\ made'[id].ticks <= made'[id].of.events * Finest
                      /\ made'[id].ticks = made'[id].of.events * Finest =>
                           made'[id].steps = made'[id].of.steps
    BY DEF PathExact, StepsExact
  <2>1. CASE id # b.id
    <3>1. made'[id] = made[id]
      BY <1>15, <2>1
    <3> QED
      BY <3>1 DEF PathExact, StepsExact
  <2>2. CASE id = b.id
    <3>1. PICK w \in Nat : w = b.events * Finest /\ w >= 2
      <4>1. b.events * Finest \in Nat /\ b.events * Finest >= 2
        <5>1. PICK n \in Nat : b.events = n + 1
          <6>1. b.events - 1 \in Nat /\ b.events = (b.events - 1) + 1
            BY <1>11, <1>19 DEF Sane
          <6> QED
            BY <6>1
        <5>2. Finest \in Nat /\ n * Finest \in Nat /\ (n + 1) * Finest = n * Finest + Finest
          BY SegmentsAssumption
        <5> QED
          BY <5>1, <5>2
      <4> QED
        BY <4>1
    <3>2. made'[id].of = b /\ made'[id].ticks <= w
      BY <1>15, <2>2, <3>1 DEF Whole
    <3>3. ASSUME made'[id].ticks = w PROVE made'[id].steps = b.steps
      <4>1. made'[id].steps \in [Axes -> Nat] /\ st'.counter \in [Axes -> Nat]
        BY DEF TypeOK, MadeState, StepperState
      <4>2. ASSUME NEW a \in Axes PROVE made'[id].steps[a] = b.steps[a]
        <5>1. PICK k \in Nat, n \in Nat, p \in Nat :
                k = st'.counter[a] /\ n = made'[id].steps[a] /\ p = b.steps[a]
          BY <1>19, <4>1
        <5>2. k <= w /\ k + n * w = w \div 2 + w * p
          BY <1>15, <2>2, <3>1, <3>3, <5>1 DEF Level, Whole
        <5>3. n = p
          BY <3>1, <5>2, EvenSteps
        <5> QED
          BY <5>1, <5>3
      <4> QED
        BY <1>19, <4>1, <4>2
    <3> QED
      BY <3>1, <3>2, <3>3
  <2> QED
    BY <2>1, <2>2
<1> QED
  BY <1>27, <1>28

LEMMA PathStep ==
  ASSUME IInv, TypeOK', PathInv, Finest >= 2, [Next]_vars
  PROVE  PathInv'
<1> USE DEF protocol, planner, preparation
<1>1. PathExact /\ (disturbed = {} => Paths)
  BY DEF PathInv
<1>2. CASE UNCHANGED vars
  <2>1. UNCHANGED <<mode, control, blocks, system, moves, parks, plBlock, prep, ring, st, made>>
        /\ UNCHANGED <<waking, disturbed>>
    BY <1>2 DEF vars
  <2>2. PathExact'
    BY <1>1, <2>1, ExactAside
  <2>3. ASSUME Paths PROVE Paths'
    <3>1. (Parking' <=> Parking) /\ (Unfinished' <=> Unfinished) /\ Now' = Now
      BY <2>1 DEF Parking, Unfinished, Now
    <3>2. Planned' /\ Cuts' /\ Fresh' /\ Ahead' /\ Traced'
      BY <2>1, <2>3, <3>1, PathsAside
    <3>3. Flags' /\ ParkCut'
      BY <2>1, <2>3, <3>1 DEF Paths, Flags, ParkCut
    <3> QED
      BY <3>2, <3>3 DEF Paths
  <2> QED
    BY <1>1, <2>1, <2>2, <2>3 DEF PathInv
<1>3. CASE Flush
  BY <1>3, FlushPaths
<1>4. CASE Prep
  <2>1. UNCHANGED <<made, disturbed>>
    BY <1>4 DEF Prep
  <2>2. PathExact'
    BY <1>1, <2>1, ExactAside
  <2> QED
    BY <1>1, <1>4, <2>1, <2>2, PrepPaths DEF PathInv
<1>5. CASE Pulse
  <2>1. disturbed' = disturbed
    BY <1>5 DEF Pulse
  <2>2. CASE disturbed = {}
    BY <1>1, <1>5, <2>2, PulsePaths DEF PathInv
  <2>3. CASE disturbed # {}
    BY <2>1, <2>3 DEF PathInv, PathExact
  <2> QED
    BY <2>2, <2>3
<1>6. CASE WakeUp \/ RunDry \/ Replan \/ CycleStart \/ Hold \/ ReopenDoor
  <2>1. UNCHANGED <<made, disturbed>>
    BY <1>6 DEF WakeUp, RunDry, Replan, CycleStart, Hold, ReopenDoor
  <2>2. PathExact'
    BY <1>1, <2>1, ExactAside
  <2> QED
    BY <1>1, <1>6, <2>1, <2>2, AsidePaths DEF PathInv
<1>7. CASE CycleStop
  <2>1. UNCHANGED <<made, disturbed>>
    BY <1>7 DEF CycleStop
  <2>2. PathExact'
    BY <1>1, <2>1, ExactAside
  <2> QED
    BY <1>1, <1>7, <2>1, <2>2, CycleStopPaths DEF PathInv
<1>8. ASSUME NEW m \in Moves, BufferLine(m) PROVE PathInv'
  <2>1. UNCHANGED <<made, disturbed>>
    BY <1>8 DEF BufferLine
  <2>2. PathExact'
    BY <1>1, <2>1, ExactAside
  <2> QED
    BY <1>1, <1>8, <2>1, <2>2, BufferLinePaths DEF PathInv
<1>9. ASSUME NEW n \in ParkLengths, NEW back \in BOOLEAN, Moveto(n, back) PROVE PathInv'
  <2>1. made' = made /\ (disturbed' = {} => disturbed = {})
    BY <1>9 DEF Moveto
  <2>2. PathExact'
    BY <1>1, <2>1, ExactAside
  <2>3. ASSUME disturbed' = {} PROVE Paths'
    BY <1>1, <1>9, <2>1, <2>3, MovetoPaths
  <2> QED
    BY <2>2, <2>3 DEF PathInv
<1> QED
  BY <1>2, <1>3, <1>4, <1>5, <1>6, <1>7, <1>8, <1>9 DEF Next, Interrupt

\* However a block is cut into segments, smoothed, held, replanned and profiled anew, no tick of
\* it is traced twice, and one that is traced to its end has moved each axis by exactly the steps
\* that were planned, unless a parking move was made with a block half executed.  (maxAmassLevel
\* is 3: a step event may be divided.  Were it not, the counter of a block of a single step
\* would never pass its limit.)
THEOREM PathsExact ==
  ASSUME Finest >= 2
  PROVE  Spec => []PathExact
<1>1. Init => PathInv
  BY BeginPaths
<1>2. IInv /\ TypeOK' /\ PathInv /\ [Next]_vars => PathInv'
  BY PathStep
<1>3. IInv => TypeOK
  BY DEF IInv
<1>4. PathInv => PathExact
  BY DEF PathInv
<1> QED
  BY <1>1, <1>2, <1>3, <1>4, SpecKeepsIInv, PTL DEF Spec
=============================================================================
