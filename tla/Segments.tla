------------------------------ MODULE Segments ------------------------------
(***************************************************************************)
(* Step segments (Stepper.cpp), from the planner's blocks to the steps of  *)
(* the motors.  The protocol task prepares segments; a new block's         *)
(* Bresenham data go to the next slot of st_block_buffer, and a segment    *)
(* names the slot it is to be traced with.  The step interrupt takes the   *)
(* segments one tick at a time, and recognises a new block by its slot.    *)
(* Holds leave a block half prepared; parking moves run in between.        *)
(*                                                                         *)
(* A move is its steps per axis; directions, speeds and times are left     *)
(* out, so a segment may be of any length.  The protocol task keeps up:    *)
(* while a motion is prepared the interrupt finds a segment (the ring is   *)
(* sized for that, Stepper.cpp:388).                                       *)
(*                                                                         *)
(* Where an operator has a second version just above it, that version is a *)
(* mistake the properties are to catch: it stands for no code.             *)
(***************************************************************************)
EXTENDS Integers, Sequences

CONSTANTS
  Axes,        \* motor axes
  ParkAxis,    \* the axis that parks
  Slots,       \* entries of st_block_buffer: one less than the segments of the ring
  Smoothings,  \* AMASS: ticks a step event may be divided into, 2^level
  Finest,      \* the most of them, 2^maxAmassLevel
  Moves,       \* what the program may move: steps per axis
  ParkLengths, \* steps a parking move may have
  MaxMoves,    \* bound: moves of the program in a behaviour
  MaxParks     \* bound: parking moves in a behaviour

\* A block's event count is that of its longest axis, and a step event is divided evenly.
ASSUME SegmentsAssumption ==
  /\ ParkAxis \in Axes
  /\ Slots \in Nat /\ Slots >= 2
  /\ Finest \in Nat \ {0}
  /\ Smoothings \subseteq Nat \ {0}
  /\ \A s \in Smoothings : (Finest \div s) \in Nat \ {0} /\ s * (Finest \div s) = Finest
  /\ \A m \in Moves : /\ m.steps \in [Axes -> Nat]
                      /\ m.events \in Nat \ {0}
                      /\ \A a \in Axes : m.steps[a] <= m.events
  /\ ParkLengths \subseteq Nat \ {0}
  /\ {MaxMoves, MaxParks} \subseteq Nat

VARIABLES
  mode,        \* how the protocol uses the stepper
  control,     \* sys.step_control
  blocks,      \* the planner's blocks, oldest first
  system,      \* the motion in the planner's free slot
  plBlock,     \* pl_block: "none", or the block in preparation: "program", "system"
  prep,        \* st_prep_t
  slots,       \* st_block_buffer
  ring,        \* segment_buffer from tail to head
  st,          \* stepper_t
  awake, waking, \* the interrupt is enabled; it will be when the ring has been filled
  stopped,     \* cycleStop is in the event queue
  moves, parks, \* moves planned so far
  lifted,      \* parked, and not yet back where the work was left
  made,        \* history: by block, the block, ticks executed (of the finest) and steps made
  disturbed    \* history: parking found a block of the program half executed, "saved", its state
               \* being kept, or "unsaved"; or "leftover", the flags of an earlier parking

protocol == <<mode, control, stopped>>
planner == <<blocks, system, moves, parks, lifted>>
preparation == <<plBlock, prep, slots>>
vars == <<protocol, planner, preparation, ring, st, awake, waking, made, disturbed>>

SlotIndex == 0 .. Slots - 1
Idents == 0 .. MaxMoves + MaxParks
NoMove == [id |-> 0, events |-> 0, steps |-> [a \in Axes |-> 0]]
Unmade == [of |-> NoMove, ticks |-> 0, steps |-> [a \in Axes |-> 0]]
ParkMove(id, n) ==
  [id |-> id, events |-> n, steps |-> [a \in Axes |-> IF a = ParkAxis THEN n ELSE 0]]

----------------------------------------------------------------------------
(* Stepper state.                                                          *)

NoPrep == [index |-> 0, remaining |-> 0, recalculate |-> FALSE, holdPartial |-> FALSE,
           parking |-> FALSE, lastIndex |-> 0, lastRemaining |-> 0]
NoStep == [busy |-> FALSE, count |-> 0, index |-> 0,
           counter |-> [a \in Axes |-> 0], increment |-> [a \in Axes |-> 0]]

\* Mistaken: the last slot is never used.
NextIndexShort(i) == IF i + 2 >= Slots THEN 0 ELSE i + 1
\* next_block_index()
NextIndex(i) == IF i + 1 = Slots THEN 0 ELSE i + 1

\* update_plan_block_parameters(): the block in preparation is to be profiled anew.
Recomputed(p) == IF plBlock = "none" THEN p ELSE [p EXCEPT !.recalculate = TRUE]

\* Stepper::reset(), without the planner's reset that follows it.
StepperReset ==
  /\ prep' = NoPrep /\ st' = NoStep /\ plBlock' = "none"
  /\ ring' = <<>>
  /\ awake' = FALSE /\ waking' = FALSE

----------------------------------------------------------------------------
(* prep_buffer(), one round of its loop.                                   *)

Source == IF "executeSysMotion" \in control THEN "system"
          ELSE IF blocks # <<>> THEN "program" ELSE "none"
Prepping == IF plBlock = "none" THEN Source ELSE plBlock
Motion(source) == IF source = "system" THEN system ELSE Head(blocks)
Room == Len(ring) < Slots
CanPrep == /\ mode # "Idle"
           /\ "endMotion" \notin control
           /\ Room
           /\ Prepping # "none"

\* A new block's data: its slot and its step events.
Reloaded(p, m) == [p EXCEPT !.index = NextIndex(p.index), !.remaining = m.events]

\* With pl_block set the block goes on; otherwise it is profiled anew or loaded.
Loaded(p, m) ==
  IF plBlock # "none" THEN p
  ELSE IF ~p.recalculate THEN Reloaded(p, m)
  ELSE IF p.parking THEN [p EXCEPT !.recalculate = FALSE]
  ELSE [p EXCEPT !.recalculate = FALSE, !.holdPartial = FALSE]

IsReload == plBlock = "none" /\ ~prep.recalculate
Partial(p) == [p EXCEPT !.holdPartial = @ \/ ~p.parking]

\* The hold ends with less than a step to go: no segment.
Bail(p) ==
  /\ "executeHold" \in control
  /\ control' = control \cup {"endMotion"}
  /\ prep' = Partial(p)
  /\ plBlock' = Prepping
  /\ UNCHANGED <<blocks, ring>>

\* A segment of n events, each divided into s ticks; it may end the block, the forced
\* deceleration of a hold, or neither.
Cut(p, m) ==
  \E n \in 1 .. p.remaining, s \in Smoothings :
    /\ ring' = Append(ring, [slot |-> p.index, ticks |-> n * s, smoothing |-> s, of |-> m])
    /\ LET q == [p EXCEPT !.remaining = @ - n]
       IN IF q.remaining > 0
          THEN /\ UNCHANGED blocks
               /\ plBlock' = Prepping
               /\ \/ prep' = q /\ UNCHANGED control
                  \/ /\ "executeHold" \in control
                     /\ prep' = Partial(q)
                     /\ control' = control \cup {"endMotion"}
          ELSE /\ prep' = q
               /\ IF Prepping = "system"
                  THEN /\ control' = control \cup {"endMotion"}
                       /\ plBlock' = "system"
                       /\ UNCHANGED blocks
                  ELSE /\ plBlock' = "none"
                       /\ blocks' = Tail(blocks)
                       /\ UNCHANGED control

\* What is cut from a block that is believed to have no steps left is undefined (a negative
\* float becomes a uint16_t), and not modelled.
Prep ==
  /\ CanPrep
  /\ LET m == Motion(Prepping)
         p == Loaded(prep, m)
     IN /\ slots' = IF IsReload THEN [slots EXCEPT ![p.index] = m] ELSE slots
        /\ Bail(p) \/ Cut(p, m)
  /\ UNCHANGED <<mode, stopped, system, moves, parks, lifted, st, awake, waking, made, disturbed>>

\* wake_up(), when prep_buffer() has returned.
WakeUp ==
  /\ waking /\ ~CanPrep
  /\ awake' = TRUE /\ waking' = FALSE
  /\ UNCHANGED <<protocol, planner, preparation, ring, st, made, disturbed>>

----------------------------------------------------------------------------
(* pulse_func()                                                            *)

\* Mistaken: every segment sets the counters up.
NewBlockAlways(index) == TRUE
\* A slot other than the last one means a new block.
NewBlock(index) == index # st.index

\* The state with the next segment taken from the ring.
Fetched ==
  LET seg == Head(ring)
      m == slots[seg.slot]
  IN [busy |-> TRUE,
      count |-> seg.ticks,
      index |-> seg.slot,
      counter |-> IF NewBlock(seg.slot)
                  THEN [a \in Axes |-> (m.events * Finest) \div 2]
                  ELSE st.counter,
      increment |-> [a \in Axes |-> m.steps[a] * (Finest \div seg.smoothing)]]

Steps(s, a) == s.counter[a] + s.increment[a] > slots[s.index].events * Finest

Advance(s) ==
  [busy |-> s.count > 1, count |-> s.count - 1, index |-> s.index, increment |-> s.increment,
   counter |-> [a \in Axes |-> s.counter[a] + s.increment[a]
                 - (IF Steps(s, a) THEN slots[s.index].events * Finest ELSE 0)]]

\* History: one tick of a segment, and the steps it gives.
Record(s, seg) ==
  made' = [made EXCEPT ![seg.of.id] =
    [of |-> seg.of,
     ticks |-> @.ticks + Finest \div seg.smoothing,
     steps |-> [a \in Axes |-> @.steps[a] + (IF Steps(s, a) THEN 1 ELSE 0)]]]

Pulse ==
  /\ awake /\ ring # <<>>
  /\ LET s == IF st.busy THEN st ELSE Fetched
     IN /\ st' = Advance(s)
        /\ ring' = IF s.count > 1 THEN ring ELSE Tail(ring)
        /\ Record(s, Head(ring))
  /\ UNCHANGED <<protocol, planner, preparation, awake, waking, disturbed>>

\* Mistaken: the protocol is not told.
RunDrySilently ==
  /\ awake /\ ring = <<>> /\ ~CanPrep
  /\ awake' = FALSE
  /\ UNCHANGED <<protocol, planner, preparation, ring, st, waking, made, disturbed>>
RunDry ==
  /\ awake /\ ring = <<>> /\ ~CanPrep
  /\ awake' = FALSE
  /\ stopped' = TRUE
  /\ UNCHANGED <<mode, control, planner, preparation, ring, st, waking, made, disturbed>>

----------------------------------------------------------------------------
(* The protocol's uses of the stepper.  Events are handled in order: none  *)
(* overtakes a cycleStop.                                                  *)

BufferLine(m) ==
  /\ mode \in {"Idle", "Cycle"} /\ moves < MaxMoves
  /\ moves' = moves + 1
  /\ blocks' = Append(blocks, [id |-> moves + 1, events |-> m.events, steps |-> m.steps])
  /\ UNCHANGED <<protocol, system, parks, lifted, preparation, ring, st, awake, waking, made, disturbed>>

\* A new plan or an override: planner_recalculate(), plan_cycle_reinitialize()
Replan ==
  /\ plBlock # "none"
  /\ prep' = Recomputed(prep) /\ plBlock' = "none"
  /\ UNCHANGED <<protocol, planner, slots, ring, st, awake, waking, made, disturbed>>

\* protocol_do_initiate_cycle()
CycleStart ==
  /\ mode \in {"Idle", "Held"} /\ ~stopped /\ ~lifted
  /\ control' = {}
  /\ IF blocks # <<>> THEN mode' = "Cycle" /\ waking' = TRUE
     ELSE mode' = "Idle" /\ UNCHANGED waking
  /\ UNCHANGED <<stopped, planner, preparation, ring, st, awake, made, disturbed>>

\* A feed hold or a door: protocol_start_holding(), protocol_hold_complete()
Hold ==
  /\ ~stopped /\ ~waking
  /\ \/ /\ mode = "Cycle"
        /\ mode' = "Hold"
        /\ control' = {"executeHold"}
        /\ prep' = Recomputed(prep) /\ plBlock' = "none"
     \/ /\ mode = "Idle"
        /\ mode' = "Held"
        /\ UNCHANGED <<control, prep, plBlock>>
  /\ UNCHANGED <<stopped, planner, slots, ring, st, awake, waking, made, disturbed>>

\* What a parking move meets: a block of the program held half way, one begun or still in the
\* ring that no hold has stopped, the flags of a parking that is over.
Met == (IF prep.holdPartial /\ prep.recalculate THEN {"saved"} ELSE {})
       \cup (IF plBlock = "program" \/ ring # <<>> \/ (prep.recalculate /\ ~prep.holdPartial)
             THEN {"unsaved"} ELSE {})
       \cup (IF prep.parking /\ ~prep.recalculate THEN {"leftover"} ELSE {})

\* parking_setup_buffer()
ParkingSetup ==
  /\ prep' = [prep EXCEPT !.parking = TRUE, !.recalculate = FALSE,
                          !.lastIndex = IF prep.holdPartial THEN prep.index ELSE @,
                          !.lastRemaining = IF prep.holdPartial THEN prep.remaining ELSE @]
  /\ plBlock' = "none"

\* Parking::moveto(), away from the work or back to it.
Moveto(n, back) ==
  /\ mode = "Held" /\ ~stopped /\ parks < MaxParks /\ (back => lifted)
  /\ mode' = "Parking"
  /\ parks' = parks + 1 /\ lifted' = ~back
  /\ system' = ParkMove(MaxMoves + parks + 1, n)
  /\ control' = (control \ {"endMotion"}) \cup {"executeSysMotion"}
  /\ ParkingSetup
  /\ waking' = TRUE
  /\ disturbed' = disturbed \cup Met
  /\ UNCHANGED <<stopped, blocks, moves, slots, ring, st, awake, made>>

\* protocol_do_safety_door() while the spindle returns.
ReopenDoor ==
  /\ mode = "Parking" /\ "executeHold" \notin control /\ ~stopped /\ ~waking
  /\ control' = {"executeHold", "executeSysMotion"}
  /\ prep' = Recomputed(prep) /\ plBlock' = "none"
  /\ lifted' = TRUE
  /\ UNCHANGED <<mode, stopped, blocks, system, moves, parks, slots, ring, st, awake, waking, made, disturbed>>

\* parking_restore_buffer()
Restored(p) ==
  IF p.holdPartial
  THEN [p EXCEPT !.index = p.lastIndex, !.remaining = p.lastRemaining, !.recalculate = TRUE]
  ELSE [p EXCEPT !.recalculate = FALSE, !.parking = FALSE]

\* protocol_do_cycle_stop(), and what moveto() does when it sees its motion over.
CycleStop ==
  /\ stopped /\ stopped' = FALSE
  /\ IF mode = "Cycle"
     THEN mode' = "Idle" /\ UNCHANGED <<control, prep, plBlock>>
     ELSE /\ mode' = "Held"
          /\ control' = control \ {"executeHold", "executeSysMotion"}
          /\ prep' = IF mode = "Parking" THEN Restored(Recomputed(prep)) ELSE Recomputed(prep)
          /\ plBlock' = "none"
  /\ UNCHANGED <<planner, slots, ring, st, awake, waking, made, disturbed>>

\* A reset, a cancelled jog or motion, a fault followed by a reset: nothing planned is left.
Flush ==
  /\ mode # "Idle"
  /\ mode' = "Idle" /\ control' = {} /\ stopped' = FALSE
  /\ blocks' = <<>>
  /\ StepperReset
  /\ lifted' = FALSE
  /\ made' = [id \in Idents |-> Unmade] /\ disturbed' = {}
  /\ UNCHANGED <<system, moves, parks, slots>>

----------------------------------------------------------------------------
(* The specification.                                                      *)

Init ==
  /\ mode = "Idle" /\ control = {} /\ stopped = FALSE
  /\ blocks = <<>> /\ system = NoMove /\ moves = 0 /\ parks = 0 /\ lifted = FALSE
  /\ plBlock = "none" /\ prep = NoPrep /\ slots = [i \in SlotIndex |-> NoMove]
  /\ ring = <<>> /\ st = NoStep /\ awake = FALSE /\ waking = FALSE
  /\ made = [id \in Idents |-> Unmade] /\ disturbed = {}

Interrupt == Pulse \/ RunDry

Next ==
  \/ \E m \in Moves : BufferLine(m)
  \/ Prep \/ WakeUp \/ Interrupt \/ Replan
  \/ CycleStart \/ Hold \/ CycleStop \/ ReopenDoor \/ Flush
  \/ \E n \in ParkLengths, back \in BOOLEAN : Moveto(n, back)

Spec == Init /\ [][Next]_vars

\* The tasks and the interrupt run; what the user and the planner do is up to them.
FairSpec == /\ Spec
            /\ WF_vars(Prep) /\ WF_vars(WakeUp) /\ WF_vars(Interrupt) /\ WF_vars(CycleStop)

----------------------------------------------------------------------------
(* Properties.                                                             *)

Block == [id : Idents, events : Nat, steps : [Axes -> Nat]]
Segment == [slot : SlotIndex, ticks : Nat \ {0}, smoothing : Smoothings, of : Block]
PrepState == [index : SlotIndex, remaining : Nat, recalculate : BOOLEAN, holdPartial : BOOLEAN,
              parking : BOOLEAN, lastIndex : SlotIndex, lastRemaining : Nat]
StepperState == [busy : BOOLEAN, count : Nat, index : SlotIndex,
                 counter : [Axes -> Nat], increment : [Axes -> Nat]]
MadeState == [of : Block, ticks : Nat, steps : [Axes -> Nat]]

TypeOK ==
  /\ mode \in {"Idle", "Cycle", "Hold", "Held", "Parking"}
  /\ control \subseteq {"executeHold", "endMotion", "executeSysMotion"}
  /\ blocks \in Seq(Block) /\ system \in Block
  /\ moves \in 0 .. MaxMoves /\ parks \in 0 .. MaxParks
  /\ plBlock \in {"none", "program", "system"}
  /\ prep \in PrepState
  /\ slots \in [SlotIndex -> Block]
  /\ ring \in Seq(Segment) /\ Len(ring) <= Slots
  /\ st \in StepperState
  /\ st.busy => st.count > 0 /\ ring # <<>>
  /\ awake \in BOOLEAN /\ waking \in BOOLEAN /\ stopped \in BOOLEAN /\ lifted \in BOOLEAN
  /\ made \in [Idents -> MadeState]
  /\ disturbed \subseteq {"saved", "unsaved", "leftover"}

\* A block's data stay in their slot until its last segment has been traced: st_block_buffer
\* is never too short, whatever holds, parking and overrides do.
SlotIntact == \A k \in DOMAIN ring : slots[ring[k].slot] = ring[k].of

\* A block traced from its first tick to its last has moved each axis by exactly its steps.
StepsExact ==
  \A id \in Idents :
    made[id].ticks = made[id].of.events * Finest => made[id].steps = made[id].of.steps

\* However a block is cut into segments, smoothed, held and profiled anew, no tick of it is
\* traced twice and its steps are exact; a door that opens in the middle of it is excepted.
PathExact ==
  disturbed = {} =>
    StepsExact /\ \A id \in Idents : made[id].ticks <= made[id].of.events * Finest

\* Every motion ends, held or not, and its end is noticed: none waits for segments that are
\* not prepared or for an interrupt that is not running.
Moving == mode \in {"Cycle", "Hold", "Parking"}
MotionEnds == Moving ~> ~Moving \/ "leftover" \in disturbed
=============================================================================
