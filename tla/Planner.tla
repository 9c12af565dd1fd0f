------------------------------ MODULE Planner ------------------------------
(***************************************************************************)
(* The look-ahead motion planner (Planner.cpp): a ring of motion blocks    *)
(* with the junction speeds planner_recalculate() gives them, and the      *)
(* velocity profile Stepper::prep_buffer() rides through the block at the  *)
(* tail.  Both run in the protocol task, so each call is one step.         *)
(*                                                                         *)
(* Speeds are kept squared, as the code keeps them, and a distance d is    *)
(* the energy 2*a*d it is worth: over a distance d the squared speed can   *)
(* change by d at most.  One segment covers one unit of distance.          *)
(*                                                                         *)
(* Where an operator has a second version just above it, that version is a *)
(* mistake the properties are to catch: it stands for no code.             *)
(***************************************************************************)
EXTENDS Integers

CONSTANTS
  N,            \* config->_planner_blocks, slots of the ring
  Shapes,       \* moves: [length, junction, nominal : [Overrides -> squared speed]]
  Overrides,    \* values of the feed override
  NoOverride,   \* FeedOverride::Default
  FarSpeed      \* SOME_LARGE_VALUE

ASSUME PlannerAssumption ==
  /\ N \in Nat /\ N >= 2
  /\ FarSpeed \in Nat
  /\ NoOverride \in Overrides
  /\ Shapes \subseteq [length : Nat \ {0}, junction : Nat, nominal : [Overrides -> Nat \ {0}]]
  /\ Shapes # {}

VARIABLES
  blockBuffer,  \* block_buffer, plus the shape each block was made from
  tail,         \* block_buffer_tail
  head,         \* block_buffer_head
  nextHead,     \* next_buffer_head
  planned,      \* block_buffer_planned
  prevNominal,  \* pl.previous_nominal_speed
  override,     \* sys.f_override()
  plBlock,      \* Stepper's pl_block # NULL: the tail block is being prepped
  prep,         \* the planner's share of Stepper's prep
  control,      \* sys.step_control.{executeHold, endMotion}
  state,        \* the machine states in which these routines differ
  lowered       \* history: an override lowered a limit of the plan being run

ring == <<tail, head, nextHead, planned>>
vars == <<blockBuffer, tail, head, nextHead, planned, prevNominal, override,
          plBlock, prep, control, state, lowered>>

Slots == 0 .. N - 1
Running == [executeHold |-> FALSE, endMotion |-> FALSE]

Lower(a, b) == IF a < b THEN a ELSE b
Higher(a, b) == IF a < b THEN b ELSE a

----------------------------------------------------------------------------
(* The ring.                                                               *)

NextIndexLate(i) == IF i = N THEN 0 ELSE i + 1
NextIndex(i) == IF i + 1 = N THEN 0 ELSE i + 1

\* The ring slot k places after slot i, and how many places j is after i.
Ahead(i, k) == IF i + k >= N THEN i + k - N ELSE i + k
Distance(i, j) == IF j >= i THEN j - i ELSE j - i + N

EmptyBlock ==
  [shape |-> CHOOSE s \in Shapes : TRUE, junction |-> 0, left |-> 0, entry |-> 0, maxEntry |-> 0]

Count == Distance(tail, head)
Full == tail = nextHead
Slot(k) == Ahead(tail, k)
Queued(k) == blockBuffer[Slot(k)]

----------------------------------------------------------------------------
(* Planning.  The operators take the plan as arguments because one handler *)
(* may change it twice.                                                    *)

NominalSpeed(b, o) == b.shape.nominal[o]

MaxEntrySpeedAlone(b, o, prev) == Lower(b.junction, NominalSpeed(b, o))
MaxEntrySpeed(b, o, prev) ==
  Lower(b.junction, Lower(NominalSpeed(b, o), prev))

\* Stepper::update_plan_block_parameters(): the block being prepped gets the
\* speed it has reached, and prep_buffer() is told to look at it again.
UpdateTail(plan) ==
  IF ~plan.plBlock THEN plan
  ELSE [plan EXCEPT !.buffer[tail].entry = plan.prep.speed,
                    !.prep.recalculate = TRUE,
                    !.plBlock = FALSE]

\* The newest block must be able to stop within its own length.
LastEntry(b) == Lower(b.maxEntry, b.left)

\* The speed `from` at the start of a block of that length carries to its end.
AcceleratedFreely(from, left, limit) == limit
Accelerated(from, left, limit) == Lower(limit, from + left)

\* No later block can change an entry speed that full acceleration limits, or
\* that is at its maximum.
SettledEarly(fwd, rev, max) == fwd <= rev
Settled(fwd, rev, max) == fwd < rev \/ fwd = max

\* A plan that reaches the tail block replaces the profile it runs on.
NotifyStepper(plan, p) == IF p = 0 THEN UpdateTail(plan) ELSE plan

\* planner_recalculate() over the blocks tail .. h - 1.
Recalculate(plan, h) ==
  LET n    == Distance(tail, h)
      p    == Distance(tail, plan.planned)
      upd  == NotifyStepper(plan, p)
      b(k) == upd.buffer[Slot(k)]
      reverse[k \in p .. n - 1] ==
        IF k = p THEN b(k).entry
        ELSE IF k = n - 1 THEN LastEntry(b(k))
        ELSE IF b(k).entry = b(k).maxEntry THEN b(k).entry
        ELSE Lower(b(k).maxEntry, reverse[k + 1] + b(k).left)
      forward[k \in p .. n - 1] ==
        IF k = p \/ forward[k - 1] >= reverse[k] THEN reverse[k]
        ELSE Accelerated(forward[k - 1], b(k - 1).left, reverse[k])
      settled == {k \in p + 1 .. n - 1 : Settled(forward[k], reverse[k], b(k).maxEntry)}
      last == CHOOSE k \in settled \cup {p} : \A j \in settled : j <= k
  IN IF n = 0 \/ p = n - 1 THEN plan
     ELSE [upd EXCEPT
             !.buffer = [s \in Slots |->
                LET k == Distance(tail, s)
                IN IF p < k /\ k < n THEN [@[s] EXCEPT !.entry = forward[k]] ELSE @[s]],
             !.planned = Slot(last)]

\* plan_cycle_reinitialize()
Reinitialize(plan) == Recalculate([UpdateTail(plan) EXCEPT !.planned = tail], head)

Plan == [buffer |-> blockBuffer, planned |-> planned, plBlock |-> plBlock, prep |-> prep]

Adopt(plan) ==
  /\ blockBuffer' = plan.buffer
  /\ planned' = plan.planned
  /\ plBlock' = plan.plBlock
  /\ prep' = plan.prep

----------------------------------------------------------------------------
(* plan_buffer_line(), reached from mc_move_motors() when there is room.   *)
(* The protocol task runs lines while a hold still decelerates; only once  *)
(* the hold is complete does it sit in the suspend loop.                   *)

BufferLine(s) ==
  LET rest  == head = tail     \* starts from rest
      fresh == [shape |-> s, junction |-> IF rest THEN 0 ELSE s.junction,
                left |-> s.length, entry |-> 0, maxEntry |-> 0]
      b     == [fresh EXCEPT !.maxEntry = MaxEntrySpeed(fresh, override, prevNominal)]
  IN /\ ~Full
     /\ state \in {"Idle", "Cycle"} \/ control.executeHold
     /\ Adopt(Recalculate([Plan EXCEPT !.buffer[head] = b], nextHead))
     /\ prevNominal' = NominalSpeed(b, override)
     /\ head' = nextHead
     /\ nextHead' = NextIndex(nextHead)
     /\ lowered' = (lowered /\ ~rest)
     /\ UNCHANGED <<tail, override, control, state>>

\* protocol_do_feed_override(): plan_update_velocity_profile_parameters()
\* gives every queued block a new limit and replans from the tail.
FeedOverride(o) ==
  LET nominalBefore(k) == IF k = 0 THEN FarSpeed ELSE NominalSpeed(Queued(k - 1), o)
      limited == [s \in Slots |->
                   LET k == Distance(tail, s)
                   IN IF k < Count
                      THEN [blockBuffer[s] EXCEPT
                              !.maxEntry = MaxEntrySpeed(blockBuffer[s], o, nominalBefore(k))]
                      ELSE blockBuffer[s]]
  IN /\ o # override
     /\ override' = o
     /\ prevNominal' = nominalBefore(Count)
     /\ lowered' = (lowered \/ \E k \in 0 .. Count - 1 :
                      NominalSpeed(Queued(k), o) < NominalSpeed(Queued(k), override))
     /\ IF head = tail THEN UNCHANGED <<blockBuffer, planned, plBlock, prep>>
        ELSE Adopt(Reinitialize([Plan EXCEPT !.buffer = limited]))
     /\ UNCHANGED <<tail, head, nextHead, control, state>>

----------------------------------------------------------------------------
(* Stepper::prep_buffer(), one segment at a time.                          *)

\* plan_get_exec_block_exit_speed_sqr()
ExitSpeed == IF NextIndex(tail) = head THEN 0 ELSE blockBuffer[NextIndex(tail)].entry

\* plan_discard_current_block(): the planned pointer is pushed when the tail reaches it.
PlannedLeftBehind == planned
PlannedAfterDiscard == IF planned = tail THEN NextIndex(tail) ELSE planned

\* The block at the tail as prep_buffer() finds or loads it: its entry speed,
\* which a new block under a forced deceleration takes from the one before.
Loaded(b) ==
  LET forced == ~prep.recalculate /\ (control.executeHold \/ prep.decelOverride)
      entry  == IF forced THEN prep.exit ELSE b.entry
      speed  == IF prep.recalculate THEN prep.speed ELSE entry
  IN [entry |-> entry, speed |-> speed]

\* The velocity profile of a block just loaded, `left` from its end.
Profile(ld, left, nominal) ==
  LET e == ld.entry
      deceleration == IF control.executeHold THEN TRUE
                      ELSE IF e > nominal THEN left <= e - nominal
                      ELSE left <= e - ExitSpeed
      override_    == ~control.executeHold /\ e > nominal /\ deceleration
  IN [speed         |-> ld.speed,
      recalculate   |-> FALSE,
      deceleration  |-> deceleration,
      decelOverride |-> override_,
      complete      |-> IF control.executeHold /\ left >= e THEN left - e ELSE 0,
      exit          |-> IF control.executeHold \/ override_ THEN Higher(e - left, 0)
                        ELSE ExitSpeed]

\* The speed reached when `rem` of the block is left.
Ramp(speed, nominal, q, rem) ==
  IF rem = q.complete THEN q.exit
  ELSE IF q.deceleration \/ speed > nominal THEN speed - 1
  ELSE Lower(speed + 1, Lower(nominal, q.exit + rem))

Segment ==
  LET b    == Queued(0)
      ld   == IF plBlock THEN [entry |-> b.entry, speed |-> prep.speed] ELSE Loaded(b)
      nom  == NominalSpeed(b, override)
      q    == IF plBlock THEN prep ELSE Profile(ld, b.left, nom)
      rem  == b.left - 1
      stop == control.executeHold /\ b.left = q.complete   \* no step left to take
      done == ~stop /\ rem = 0
  IN /\ state \in {"Cycle", "Hold"}
     /\ ~control.endMotion
     /\ head # tail
     /\ prep' = [q EXCEPT !.speed = IF stop THEN @ ELSE Ramp(@, nom, q, rem)]
     /\ control' = [control EXCEPT
          !.endMotion = control.executeHold /\ (stop \/ (rem = q.complete /\ rem > 0))]
     /\ blockBuffer' = [blockBuffer EXCEPT ![tail] =
          IF done THEN EmptyBlock    \* what a free slot holds is never read
          ELSE [b EXCEPT !.entry = ld.entry, !.left = IF stop THEN @ ELSE rem]]
     /\ plBlock' = ~done
     /\ IF done THEN tail' = NextIndex(tail) /\ planned' = PlannedAfterDiscard
        ELSE UNCHANGED <<tail, planned>>
     /\ UNCHANGED <<head, nextHead, prevNominal, override, state, lowered>>

----------------------------------------------------------------------------
(* The parts of the realtime protocol that start, stop and hold a cycle.   *)

CycleStart ==
  /\ state = "Idle" \/ (state = "Hold" /\ ~control.executeHold)
  /\ head # tail
  /\ state' = "Cycle"
  /\ control' = Running
  /\ UNCHANGED <<blockBuffer, ring, prevNominal, override, plBlock, prep, lowered>>

\* protocol_do_feedhold() in a cycle: protocol_start_holding().
FeedHold ==
  /\ state = "Cycle"
  /\ state' = "Hold"
  /\ control' = [Running EXCEPT !.executeHold = TRUE]
  /\ Adopt(UpdateTail(Plan))
  /\ UNCHANGED <<tail, head, nextHead, prevNominal, override, lowered>>

\* protocol_do_cycle_stop(), once the stepper has run out of segments.
CycleStop ==
  \/ /\ state = "Cycle"
     /\ head = tail
     /\ state' = "Idle"
     /\ UNCHANGED <<blockBuffer, ring, prevNominal, override, plBlock, prep, control, lowered>>
  \/ /\ state = "Hold"
     /\ control.executeHold
     /\ control.endMotion \/ head = tail
     /\ control' = [control EXCEPT !.executeHold = FALSE]
     /\ Adopt(Reinitialize(Plan))
     /\ UNCHANGED <<tail, head, nextHead, prevNominal, override, state, lowered>>

\* A resume with nothing left to run goes back to Idle.
ResumeIdle ==
  /\ state = "Hold"
  /\ ~control.executeHold
  /\ head = tail
  /\ state' = "Idle"
  /\ control' = Running
  /\ UNCHANGED <<blockBuffer, ring, prevNominal, override, plBlock, prep, lowered>>

----------------------------------------------------------------------------

\* plan_reset() and Stepper::reset()
Init ==
  /\ blockBuffer = [s \in Slots |-> EmptyBlock]
  /\ tail = 0 /\ head = 0 /\ nextHead = 1 /\ planned = 0
  /\ prevNominal = 0
  /\ override = NoOverride
  /\ plBlock = FALSE
  /\ prep = [speed |-> 0, recalculate |-> FALSE, deceleration |-> FALSE,
             decelOverride |-> FALSE, complete |-> 0, exit |-> 0]
  /\ control = Running
  /\ state = "Idle"
  /\ lowered = FALSE

Next ==
  \/ \E s \in Shapes : BufferLine(s)
  \/ \E o \in Overrides : FeedOverride(o)
  \/ Segment
  \/ CycleStart
  \/ FeedHold
  \/ CycleStop
  \/ ResumeIdle

Spec == Init /\ [][Next]_vars

----------------------------------------------------------------------------
(* Properties.                                                             *)

Block == [shape : Shapes, junction : Nat, left : Nat, entry : Nat, maxEntry : Nat]

\* Every variable keeps its type: indices stay inside the ring.
TypeOK ==
  /\ blockBuffer \in [Slots -> Block]
  /\ tail \in Slots /\ head \in Slots /\ nextHead \in Slots /\ planned \in Slots
  /\ prevNominal \in Nat
  /\ override \in Overrides
  /\ plBlock \in BOOLEAN
  /\ prep \in [speed : Nat, recalculate : BOOLEAN, deceleration : BOOLEAN,
               decelOverride : BOOLEAN, complete : Nat, exit : Nat]
  /\ control \in [executeHold : BOOLEAN, endMotion : BOOLEAN]
  /\ state \in {"Idle", "Cycle", "Hold"}
  /\ lowered \in BOOLEAN

\* The block the plan starts at is queued: block_buffer_planned "can never be
\* less than block_buffer_tail" and never reaches the head of a ring that
\* holds blocks, whatever order blocks are added, discarded and replanned in;
\* and next_buffer_head stays one past the head, so that plan_check_full_buffer()
\* always leaves the head slot free for the block of a system motion.
PlannedInsideQueue ==
  /\ nextHead = NextIndex(head)
  /\ Distance(tail, planned) <= Count
  /\ head # tail => Distance(tail, planned) < Count
  /\ plBlock => head # tail

\* The fastest plan: the entry speed of the k-th block is capped by its own
\* limit, by braking for every later limit and for the stop at the end of the
\* queue, and by accelerating from every earlier limit and from the speed the
\* machine has now.
Length(i, j) ==
  LET sum[k \in i .. j] == IF k = j THEN 0 ELSE Queued(k).left + sum[k + 1] IN sum[i]

Cap(j) ==
  CASE j = 0 -> IF plBlock THEN prep.speed ELSE Queued(0).entry
    [] j = Count -> 0
    [] OTHER -> Queued(j).maxEntry

OptimalEntry(k) ==
  LET caps == {Cap(j) + Length(j, k) : j \in 0 .. k} \cup {Cap(j) + Length(k, j) : j \in k + 1 .. Count}
  IN CHOOSE c \in caps : \A d \in caps : c <= d

\* "the plan is optimal and no further speed improvements are possible": outside
\* a hold, every queued block has exactly the fastest feasible entry speed even
\* though planner_recalculate() stops at block_buffer_planned and never looks
\* at the blocks before it again.  An override that lowers limits breaks this.
PlanOptimal ==
  ~control.executeHold /\ ~lowered =>
    \A k \in 1 .. Count - 1 : Queued(k).entry = OptimalEntry(k)

\* The speed never rises faster than the acceleration allows; nor does it fall
\* faster, until an override lowers a limit of a plan that is being run.
AccelerationBounded ==
  [][/\ prep'.speed <= prep.speed + 1
     /\ lowered \/ prep'.speed >= prep.speed - 1]_vars

=============================================================================
