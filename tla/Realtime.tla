------------------------------ MODULE Realtime ------------------------------
(***************************************************************************)
(* The realtime protocol (Protocol.cpp), parking (Parking.cpp) and what    *)
(* they make the stepper do.  Three actors interleave:                     *)
(*   - the protocol task: it runs lines, drains the event queue, prepares  *)
(*     segments, and sits in the suspend loop while the machine is held;   *)
(*   - the step interrupt: it consumes segments and reports running dry;   *)
(*   - the others: the polling task and the pins, which queue events.      *)
(*                                                                         *)
(* A motion is a number of segments; speeds are Planner's business.        *)
(*                                                                         *)
(* Where an operator has a second version just above it, that version is a *)
(* mistake the properties are to catch: it stands for no code.             *)
(***************************************************************************)
EXTENDS Integers, Sequences

CONSTANTS
  Commands,    \* realtime commands and pin changes that may arrive
  Lines,       \* lines that may be run: "feed", "jog", "spindleOn", "unlock"
  Bounds,      \* bounds of a behaviour: the weight of its commands, but for the last one's,
               \* and its lines
  Weight,      \* bound: how much each command takes of that weight
  Blocks,      \* capacity of the planner
  Segments,    \* capacity of the segment buffer
  Length,      \* segments of a motion
  CanPark      \* values Parking::can_park() may have

ASSUME RealtimeAssumption ==
  /\ Commands \subseteq {"feedHold", "cycleStart", "motionCancel", "safetyDoor", "sleep",
                         "reset", "alarm", "fault", "doorOpens", "doorCloses"}
  /\ Lines \subseteq {"feed", "jog", "spindleOn", "unlock"}
  /\ Bounds \subseteq Nat \X Nat
  /\ Weight \in [Commands -> Nat \ {0}]
  /\ {Blocks, Segments, Length} \subseteq Nat \ {0}
  /\ CanPark \subseteq BOOLEAN

VARIABLES
  state, suspend, control, abort,  \* sys: state, suspend bits, step_control bits, abort
  doorRequested,  \* rtSafetyDoor
  pin, ajar,      \* the door switch, and its value as safety_door_ajar() has it
  events,         \* event_queue
  blocks,         \* planner queue of [jog, left]
  parkLeft,       \* segments left of the system motion in the planner's free slot
  plBlock,        \* Stepper's pl_block: "none", "program" or "system"
  segments,       \* prepared segments, each "program" or "system"
  awake,          \* the step interrupt is enabled
  spindle,        \* it turns
  modalSpindle,   \* gc_state.modal.spindle # Disable
  canPark,        \* Parking::can_park(), fixed by the configuration
  at,             \* where the protocol task is
  budget, lines,  \* what is left of the bounds
  came            \* history: the disturbances there have been

sys == <<state, suspend, control, abort>>
door == <<doorRequested, pin, ajar>>
stepper == <<blocks, parkLeft, plBlock, segments, awake>>
power == <<spindle, modalSpindle, canPark>>
vars == <<sys, door, events, stepper, power, at, budget, came, lines>>

\* What takes the machine's state away from the rest of it, and a line that goes on
\* after a reset.
Disturbances == {"reset", "alarm", "fault", "lateLine"}

Stopping == suspend \cap {"motionCancel", "jogCancel"} # {}

----------------------------------------------------------------------------
(* The event queue.  A handler's sends go to the end of it.                *)

Take(sent) == events' = Tail(events) \o sent
Phase(p) == at' = [at EXCEPT !.phase = p]

\* Stepper::reset(): whatever is prepared is thrown away.
StepperReset ==
  /\ segments' = <<>>
  /\ awake' = FALSE
  /\ plBlock' = "none"

\* protocol_hold_complete()
HoldComplete == {"holdComplete"}

\* protocol_start_holding(), protocol_cancel_jogging(): both do nothing once a
\* cancel is under way.
StartHolding ==
  IF Stopping THEN UNCHANGED <<control, plBlock>>
  ELSE control' = {"executeHold"} /\ plBlock' = "none"

\* What a command that stops the machine does to the motion, by state; `whileJogging`
\* are the bits a jog gets.
Halt(whileJogging) ==
  /\ suspend' = IF state = "Idle" THEN HoldComplete
                ELSE IF state = "Jog" /\ ~Stopping THEN suspend \cup whileJogging
                ELSE suspend
  /\ IF state \in {"Cycle", "Jog"} THEN StartHolding ELSE UNCHANGED <<control, plBlock>>

HaltUnchanged == UNCHANGED <<abort, blocks, parkLeft, segments, awake, power>>

----------------------------------------------------------------------------
(* Event handlers.                                                         *)

\* protocol_do_feedhold()
DoFeedHold ==
  /\ IF state \in {"Alarm", "SafetyDoor", "Sleep"} THEN UNCHANGED <<state, suspend, control, plBlock>>
     ELSE /\ Halt({"jogCancel"})
          /\ state' = IF state = "Jog" THEN state ELSE "Hold"
  /\ Take(<<>>)
  /\ HaltUnchanged
  /\ UNCHANGED <<door, at>>

\* protocol_do_motion_cancel()
DoMotionCancel ==
  /\ IF state = "Alarm" THEN UNCHANGED <<suspend, control, plBlock>>
     ELSE IF state = "Jog" THEN Halt({"jogCancel"})
     ELSE /\ suspend' = (IF state = "Idle" THEN HoldComplete ELSE suspend) \cup {"motionCancel"}
          /\ IF state = "Cycle" THEN StartHolding ELSE UNCHANGED <<control, plBlock>>
  /\ Take(<<>>)
  /\ HaltUnchanged
  /\ UNCHANGED <<state, door, at>>

\* protocol_do_sleep()
DoSleep ==
  /\ IF state = "Alarm"
     THEN suspend' = suspend \cup {"retractComplete", "holdComplete"} /\ UNCHANGED <<control, plBlock>>
     ELSE Halt({})
  /\ state' = "Sleep"
  /\ Take(<<>>)
  /\ HaltUnchanged
  /\ UNCHANGED <<door, at>>

\* protocol_do_initiate_cycle(): prep_buffer() and wake_up() follow, in PrepDone.
InitiateCycle ==
  /\ control' = {}
  /\ suspend' = {}
  /\ IF blocks # <<>> /\ "motionCancel" \notin suspend
     THEN /\ state' = IF blocks[1].jog THEN "Jog" ELSE "Cycle"
          /\ at' = [at EXCEPT !.phase = "prep", !.then = "events"]
     ELSE /\ state' = "Idle"
          /\ UNCHANGED at

\* When a hold may be left: it is complete, or there is nothing to hold.
HoldResumesEarly == "holdComplete" \in suspend \/ blocks = <<>>
HoldResumes == "holdComplete" \in suspend \/ (blocks = <<>> /\ "executeHold" \notin control)

\* protocol_do_cycle_start()
DoCycleStart ==
  /\ IF state = "Idle" \/ (state = "Hold" /\ HoldResumes) THEN InitiateCycle
     ELSE /\ suspend' = IF state = "SafetyDoor" /\ "safetyDoorAjar" \notin suspend
                           /\ "retractComplete" \in suspend
                        THEN suspend \cup {"initiateRestore"} ELSE suspend
          /\ UNCHANGED <<state, control, at>>
  /\ Take(<<>>)
  /\ UNCHANGED <<abort, door, stepper, power>>

\* A jog cancel throws away what is prepared and what is planned.
FlushSegments == StepperReset /\ control' = {} /\ UNCHANGED blocks
Flush == StepperReset /\ control' = {} /\ blocks' = <<>>

\* The motion that was held, or the system motion, is over.
MotionStopped == control \ {"executeHold", "executeSysMotion"}

\* protocol_do_cycle_stop()
DoCycleStop ==
  /\ \/ /\ state \in {"Hold", "SafetyDoor", "Sleep"}
        /\ "jogCancel" \notin suspend
        /\ suspend' = IF "executeHold" \in control THEN suspend \cup HoldComplete ELSE suspend
        /\ control' = MotionStopped
        /\ plBlock' = "none"     \* plan_cycle_reinitialize()
        /\ UNCHANGED <<state, blocks, segments, awake>>
     \/ /\ state \in {"Alarm", "Critical"} \/ (state \in {"Hold", "SafetyDoor", "Sleep"} /\ "jogCancel" \in suspend)
        /\ UNCHANGED <<state, suspend, control, plBlock, blocks, segments, awake>>
     \/ /\ state \in {"Idle", "Cycle", "Jog"}
        /\ IF "jogCancel" \in suspend THEN Flush
           ELSE UNCHANGED <<control, plBlock, blocks, segments, awake>>
        /\ IF "safetyDoorAjar" \in suspend    \* the door opened during the jog
           THEN /\ suspend' = (suspend \ {"jogCancel"}) \cup HoldComplete
                /\ state' = "SafetyDoor"
           ELSE suspend' = {} /\ state' = "Idle"
  /\ Take(<<>>)
  /\ UNCHANGED <<abort, door, parkLeft, power, at>>

\* protocol_do_alarm()
DoAlarm(s) ==
  /\ state' = s
  /\ Take(<<>>)
  /\ UNCHANGED <<suspend, control, abort, door, stepper, power, at>>

\* protocol_do_fault_pin(), protocol_do_limit() on a hard limit: mc_critical()
DoFault ==
  LET moving == \/ state \in {"Cycle", "Jog"}
                \/ state = "Hold" /\ "holdComplete" \notin suspend
                \/ control \cap {"executeHold", "executeSysMotion"} # {}
      stopped == state \in {"Cycle", "Jog", "Idle", "Hold", "SafetyDoor"}
  IN /\ Take(IF stopped THEN <<"critical">> ELSE <<>>)
     /\ IF stopped /\ moving THEN StepperReset ELSE UNCHANGED <<segments, awake, plBlock>>
     /\ UNCHANGED <<sys, door, blocks, parkLeft, power, at>>

\* protocol_do_rt_reset() and protocol_do_late_reset()
DoReset ==
  /\ state' \in
       IF state \in {"Cycle", "Jog", "Sleep", "Alarm"} \/ control \cap {"executeHold", "executeSysMotion"} # {}
       THEN {"Alarm"}
       ELSE IF state = "Critical" THEN {"Alarm", "Idle"}    \* some axes may be unhomed
       ELSE {"Idle"}
  /\ abort' = TRUE
  /\ spindle' = FALSE
  /\ Take(<<"restart">>)
  /\ UNCHANGED <<suspend, control, door, stepper, modalSpindle, canPark, at>>

\* protocol_do_soft_restart()
DoRestart ==
  /\ StepperReset
  /\ suspend' = {} /\ control' = {}
  /\ blocks' = <<>>
  /\ doorRequested' = FALSE
  /\ spindle' = FALSE /\ modalSpindle' = FALSE
  /\ Take(<<>>)
  /\ UNCHANGED <<state, abort, pin, ajar, parkLeft, canPark, at>>

\* protocol_do_pin_active(), protocol_do_pin_inactive() on the door switch
DoDoorPin(open) ==
  /\ ajar' = open
  /\ Take(IF open THEN <<"safetyDoor">> ELSE <<>>)
  /\ UNCHANGED <<sys, doorRequested, pin, stepper, power, at>>

\* request_safety_door()
RequestSafetyDoor ==
  /\ doorRequested' = TRUE
  /\ Take(<<>>)
  /\ UNCHANGED <<sys, pin, ajar, stepper, power, at>>

\* protocol_handle_events()
HandleEvent ==
  /\ at.phase = "events"
  /\ events # <<>>
  /\ \/ Head(events) = "feedHold"     /\ DoFeedHold
     \/ Head(events) = "motionCancel" /\ DoMotionCancel
     \/ Head(events) = "sleep"        /\ DoSleep
     \/ Head(events) = "cycleStart"   /\ DoCycleStart
     \/ Head(events) = "cycleStop"    /\ DoCycleStop
     \/ Head(events) = "alarm"        /\ DoAlarm("Alarm")
     \/ Head(events) = "critical"     /\ DoAlarm("Critical")
     \/ Head(events) = "fault"        /\ DoFault
     \/ Head(events) = "reset"        /\ DoReset
     \/ Head(events) = "restart"      /\ DoRestart
     \/ Head(events) = "doorOpens"    /\ DoDoorPin(TRUE)
     \/ Head(events) = "doorCloses"   /\ DoDoorPin(FALSE)
     \/ Head(events) = "safetyDoor"   /\ RequestSafetyDoor
  /\ UNCHANGED <<budget, came, lines>>

----------------------------------------------------------------------------
(* protocol_exec_rt_system(): the safety door, the events, the segments.   *)

\* A door opened while the machine is being restored: it must park again.
RestartedRetracted(moving) ==
  (suspend \ ({"initiateRestore"} \cup IF moving THEN HoldComplete ELSE {}))
    \cup {"restartRetract"}
Restarted(moving) ==
  (suspend \ ({"retractComplete", "initiateRestore"} \cup IF moving THEN HoldComplete ELSE {}))
    \cup {"restartRetract"}

\* protocol_do_safety_door()
DoSafetyDoor ==
  LET restoring == state = "SafetyDoor" /\ "jogCancel" \notin suspend /\ "initiateRestore" \in suspend
      parking == restoring /\ "executeSysMotion" \in control
  IN IF state \in {"Alarm", "Sleep"}
     THEN /\ doorRequested' = FALSE
          /\ UNCHANGED <<state, suspend, control, plBlock>>
     ELSE LET halted == IF state = "Idle" THEN HoldComplete
                        ELSE IF state = "Jog" /\ ~Stopping THEN suspend \cup {"jogCancel"}
                        ELSE IF restoring THEN Restarted(parking)
                        ELSE suspend
          IN /\ suspend' = halted \cup {"safetyDoorAjar"}
             /\ IF state \in {"Cycle", "Jog"} THEN StartHolding
                ELSE IF parking
                THEN control' = {"executeHold", "executeSysMotion"} /\ plBlock' = "none"
                ELSE UNCHANGED <<control, plBlock>>
             /\ IF "jogCancel" \in halted THEN UNCHANGED <<state, doorRequested>>
                ELSE state' = "SafetyDoor" /\ doorRequested' = FALSE

CheckDoor ==
  /\ at.phase = "door"
  /\ IF doorRequested THEN DoSafetyDoor ELSE UNCHANGED <<state, suspend, control, plBlock, doorRequested>>
  /\ Phase("events")
  /\ UNCHANGED <<abort, pin, ajar, events, blocks, parkLeft, segments, awake, power, budget, came, lines>>

EventsHandled ==
  /\ at.phase = "events"
  /\ events = <<>>
  /\ at' = [at EXCEPT !.phase = IF state \in {"Cycle", "Hold", "SafetyDoor", "Jog"} THEN "prep" ELSE "out",
                      !.then = "out"]
  /\ UNCHANGED <<sys, door, events, stepper, power, budget, came, lines>>

\* The block Stepper::prep_buffer() works on: the one it has, or the one it will query.
Prepping ==
  IF plBlock # "none" THEN plBlock
  ELSE IF "executeSysMotion" \in control THEN "system"
  ELSE IF blocks # <<>> THEN "program" ELSE "none"

SegmentRoom == Len(segments) < Segments
CanPrep == "endMotion" \notin control /\ SegmentRoom /\ Prepping # "none"

\* The end of a system motion ends the motion; any other block is discarded.
EndsMotion == "executeSysMotion" \in control

\* One round of prep_buffer()'s loop.  A forced deceleration ends after a segment
\* of the block, or before the first.
PrepSegment ==
  LET left == IF Prepping = "system" THEN parkLeft ELSE blocks[1].left
      holding == "executeHold" \in control
  IN /\ at.phase = "prep"
     /\ CanPrep
     /\ \/ /\ holding
           /\ control' = control \cup {"endMotion"}
           /\ plBlock' = Prepping
           /\ UNCHANGED <<blocks, parkLeft, segments>>
        \/ /\ segments' = Append(segments, Prepping)
           /\ parkLeft' = IF Prepping = "system" /\ left > 0 THEN left - 1 ELSE parkLeft
           /\ \/ /\ left > 1
                 /\ plBlock' = Prepping
                 /\ control' \in {control} \cup IF holding THEN {control \cup {"endMotion"}} ELSE {}
                 /\ blocks' = IF Prepping = "system" THEN blocks
                              ELSE [blocks EXCEPT ![1].left = left - 1]
              \/ /\ left <= 1
                 /\ IF EndsMotion THEN control' = control \cup {"endMotion"} /\ plBlock' = Prepping /\ UNCHANGED blocks
                    ELSE /\ plBlock' = "none"     \* plan_discard_current_block()
                         /\ blocks' = IF blocks = <<>> THEN blocks ELSE Tail(blocks)
                         /\ UNCHANGED control
     /\ UNCHANGED <<state, suspend, abort, door, events, awake, power, at, budget, came, lines>>

\* The loop ends; a motion that is being started, or a parking move, wakes the
\* stepper up.
WakesForCycle == at.then = "events"
WakesForParking == at.then = "door"
Wakes == at.then # "out"

PrepDone ==
  /\ at.phase = "prep"
  /\ ~CanPrep
  /\ awake' = (awake \/ Wakes)
  /\ at' = [at EXCEPT !.phase = at.then, !.then = "out"]
  /\ UNCHANGED <<sys, door, events, blocks, parkLeft, plBlock, segments, power, budget, came, lines>>

----------------------------------------------------------------------------
(* protocol_exec_rt_suspend() and parking.                                 *)

Suspended == at.loop /\ at.park = "none" /\ at.phase = "out"

\* The loop ends with the suspension, or with a reset.
LeaveSuspend ==
  /\ Suspended
  /\ suspend = {} \/ abort
  /\ at' = [at EXCEPT !.loop = FALSE, !.phase = "back"]
  /\ UNCHANGED <<sys, door, events, stepper, power, budget, came, lines>>

\* Parking::moveto() up to its loop: nothing at all after a reset.
MovesAnyway == FALSE
MoveBlocked == abort
MoveTo(leg, restart) ==
  IF MoveBlocked
  THEN /\ at' = [at EXCEPT !.park = leg]
       /\ UNCHANGED <<control, parkLeft, plBlock>>
  ELSE /\ control' = (control \cup {"executeSysMotion"}) \ {"endMotion"}
       /\ parkLeft' = Length
       /\ plBlock' = "none"     \* parking_setup_buffer()
       /\ at' = [at EXCEPT !.park = leg, !.restart = restart, !.phase = "prep", !.then = "door"]

AtRest == "holdComplete" \in suspend /\ state \in {"SafetyDoor", "Sleep"}
LoopAgain == at' = [at EXCEPT !.park = "none", !.phase = "door", !.restart = FALSE]
Retracted == suspend' = (suspend \cup {"retractComplete"}) \ {"restartRetract"}

\* Parking::park(): first the slow pull-out.
Park ==
  /\ Suspended /\ suspend # {} /\ ~abort
  /\ AtRest /\ "retractComplete" \notin suspend
  /\ IF canPark THEN MoveTo("pullout", FALSE) /\ UNCHANGED <<suspend, spindle>>
     ELSE /\ spindle' = FALSE
          /\ Retracted
          /\ LoopAgain
          /\ UNCHANGED <<control, parkLeft, plBlock>>
  /\ UNCHANGED <<state, abort, door, events, blocks, segments, awake, modalSpindle, canPark, budget, came, lines>>

\* Sleep after retracting: nothing but a reset leaves it.
FallAsleep ==
  /\ Suspended /\ suspend # {} /\ ~abort
  /\ AtRest /\ "retractComplete" \in suspend /\ state = "Sleep"
  /\ spindle' = FALSE
  /\ awake' = FALSE
  /\ at' = [at EXCEPT !.park = "asleep", !.phase = "door"]
  /\ UNCHANGED <<sys, door, events, blocks, parkLeft, plBlock, segments, modalSpindle, canPark, budget, came, lines>>

\* The value of restartRetract that unpark() is given: by value, when it is called.
RestartFlag(bits) == "restartRetract" \in bits

\* At the door: a closed switch is noted; a requested restore begins.
AtDoor ==
  LET noted == IF ajar THEN suspend ELSE suspend \ {"safetyDoorAjar"}
      restart == RestartFlag(noted)
  IN /\ Suspended /\ suspend # {} /\ ~abort
     /\ AtRest /\ "retractComplete" \in suspend /\ state = "SafetyDoor"
     /\ suspend' = noted
     /\ IF "initiateRestore" \notin noted
        THEN LoopAgain /\ UNCHANGED <<control, parkLeft, plBlock>>
        ELSE IF canPark THEN MoveTo("return", restart)
        ELSE /\ at' = [at EXCEPT !.park = "return", !.restart = restart]
             /\ UNCHANGED <<control, parkLeft, plBlock>>
     /\ UNCHANGED <<state, abort, door, events, blocks, segments, awake, power, budget, came, lines>>

\* Nothing to do yet: the hold is not complete, or it is an ordinary one.
WaitSuspended ==
  /\ Suspended /\ suspend # {} /\ ~abort
  /\ ~AtRest
  /\ LoopAgain
  /\ UNCHANGED <<sys, door, events, stepper, power, budget, came, lines>>

\* moveto()'s loop: until the cycle stop ends the system motion, or a reset.
Moving == at.park \in {"pullout", "retract", "return", "plunge"} /\ at.phase = "out"
MotionOver == abort \/ "executeSysMotion" \notin control

ParkingMoves ==
  /\ \/ Moving /\ ~MotionOver
     \/ at.park = "asleep" /\ at.phase = "out" /\ ~abort
  /\ Phase("door")
  /\ UNCHANGED <<sys, door, events, stepper, power, budget, came, lines>>

WakeUp ==
  /\ at.park = "asleep" /\ at.phase = "out" /\ abort
  /\ at' = [at EXCEPT !.park = "none", !.loop = FALSE, !.phase = "back"]
  /\ UNCHANGED <<sys, door, events, stepper, power, budget, came, lines>>

\* park() after the pull-out: stop the spindle, retract.
PulledOut ==
  /\ Moving /\ MotionOver /\ at.park = "pullout"
  /\ spindle' = FALSE
  /\ MoveTo("retract", FALSE)
  /\ UNCHANGED <<state, suspend, abort, door, events, blocks, segments, awake, modalSpindle, canPark, budget, came, lines>>

Parked ==
  /\ Moving /\ MotionOver /\ at.park = "retract"
  /\ Retracted
  /\ plBlock' = IF abort THEN plBlock ELSE "none"     \* parking_restore_buffer()
  /\ LoopAgain
  /\ UNCHANGED <<state, control, abort, door, events, blocks, parkLeft, segments, awake, power, budget, came, lines>>

\* The suspend loop after unpark(): back to the program, unless the door has
\* been opened again.
MayResumeAjar == state = "SafetyDoor"
MayResume == state = "SafetyDoor" /\ suspend \cap {"restartRetract", "safetyDoorAjar"} = {}

NothingSent == events
CycleStartSent == Append(events, "cycleStart")

Resume ==
  IF MayResume
  THEN state' = "Idle" /\ events' = CycleStartSent
  ELSE UNCHANGED <<state, events>>

\* unpark() after the return to the pull-out position: restart the spindle, plunge.
Returned ==
  /\ Moving /\ MotionOver /\ at.park = "return"
  /\ spindle' = (spindle \/ (modalSpindle /\ ~at.restart))
  /\ IF canPark /\ ~at.restart
     THEN MoveTo("plunge", FALSE) /\ UNCHANGED <<state, events>>
     ELSE /\ plBlock' = IF abort \/ ~canPark THEN plBlock ELSE "none"
          /\ Resume
          /\ LoopAgain
          /\ UNCHANGED <<control, parkLeft>>
  /\ UNCHANGED <<suspend, abort, door, blocks, segments, awake, modalSpindle, canPark, budget, came, lines>>

Plunged ==
  /\ Moving /\ MotionOver /\ at.park = "plunge"
  /\ plBlock' = IF abort THEN plBlock ELSE "none"
  /\ Resume
  /\ LoopAgain
  /\ UNCHANGED <<suspend, control, abort, door, blocks, parkLeft, segments, awake, power, budget, came, lines>>

----------------------------------------------------------------------------
(* protocol_main_loop() and protocol_buffer_synchronize().                 *)

\* protocol_execute_realtime() goes into the suspend loop.
EnterSuspend ==
  /\ ~at.loop /\ at.phase = "out"
  /\ suspend # {}
  /\ at' = [at EXCEPT !.loop = TRUE]
  /\ UNCHANGED <<sys, door, events, stepper, power, budget, came, lines>>

\* protocol_execute_realtime() has returned to its caller.
Returns == ~at.loop /\ (at.phase = "back" \/ (at.phase = "out" /\ suspend = {}))

\* protocol_auto_cycle_start(), given the blocks there are.
AutoCycleStart(queue, s) ==
  events' = IF queue # <<>> /\ s \notin {"Cycle", "Hold"} THEN Append(events, "cycleStart") ELSE events

\* plan_check_full_buffer(): mc_move_motors() waits for room.
Room == Len(blocks) < Blocks

\* What a line plans.
Motion(jog) == [jog |-> jog, left |-> Length]

\* One pass of the main loop, which runs a line or none.
MainLoop ==
  /\ at.base \in {"main", "aborted"} /\ Returns
  /\ \/ UNCHANGED <<state, blocks, lines>> /\ at' = [at EXCEPT !.base = "main", !.phase = "door"]
     \/ /\ lines > 0 /\ lines' = lines - 1
        /\ \/ /\ "feed" \in Lines /\ state \notin {"Alarm", "Jog"}
              /\ Room
              /\ blocks' = Append(blocks, Motion(FALSE))
              /\ at' = [at EXCEPT !.base = "main", !.phase = "door"]
              /\ UNCHANGED state
           \/ /\ "jog" \in Lines /\ state \in {"Idle", "Jog"}
              /\ Room
              /\ blocks' = Append(blocks, Motion(TRUE))
              /\ at' = [at EXCEPT !.base = "main", !.phase = "door"]
              /\ UNCHANGED state
           \/ /\ "unlock" \in Lines /\ state = "Alarm" /\ ~ajar     \* $X
              /\ state' = "Idle"
              /\ at' = [at EXCEPT !.base = "main", !.phase = "door"]
              /\ UNCHANGED blocks
           \/ /\ "spindleOn" \in Lines /\ state \notin {"Alarm", "Jog"}     \* M3: synchronizes first
              /\ at' = [at EXCEPT !.base = "sync", !.phase = "door"]
              /\ UNCHANGED <<state, blocks>>
  /\ AutoCycleStart(blocks', state')
  /\ abort' = FALSE
  /\ UNCHANGED <<suspend, control, door, parkLeft, plBlock, segments, awake, power, budget, came>>

\* protocol_buffer_synchronize() waits on.
SyncAgain ==
  /\ at.base = "sync" /\ Returns
  /\ ~abort /\ (blocks # <<>> \/ state = "Cycle")
  /\ AutoCycleStart(blocks, state)
  /\ Phase("door")
  /\ UNCHANGED <<sys, door, stepper, power, budget, came, lines>>

\* It returns, and the line goes on with its M3 and its move, if it has one, also when a reset has
\* ended the wait: only setState() looks at abort.  The planner is empty, so the move does not wait for
\* room.  The main loop's pass ends as any does; "aborted" is what is left of one that was interrupted.
SyncDone ==
  /\ at.base = "sync" /\ Returns
  /\ abort \/ (blocks = <<>> /\ state # "Cycle")
  /\ spindle' = (spindle \/ ~abort)
  /\ modalSpindle' = TRUE
  /\ blocks' \in {blocks, Append(blocks, Motion(FALSE))}
  /\ AutoCycleStart(blocks', state)
  /\ at' = [at EXCEPT !.base = IF abort THEN "aborted" ELSE "main", !.phase = "door"]
  /\ came' = IF abort THEN came \cup {"lateLine"} ELSE came
  /\ UNCHANGED <<sys, door, parkLeft, plBlock, segments, awake, canPark, budget, lines>>

----------------------------------------------------------------------------
(* The step interrupt and the senders of events.                           *)

\* Running dry is reported by an event, queued behind the others.
NotReported == events
Reported == Append(events, "cycleStop")

\* Stepper::pulse_func() executes a segment, or finds none and shuts down.
StepSegment ==
  /\ awake /\ segments # <<>>
  /\ segments' = Tail(segments)
  /\ UNCHANGED <<sys, door, events, blocks, parkLeft, plBlock, awake, power, at, budget, came, lines>>

StepperStops ==
  /\ awake /\ segments = <<>>
  /\ awake' = FALSE
  /\ events' = Reported
  /\ UNCHANGED <<sys, door, blocks, parkLeft, plBlock, segments, power, at, budget, came, lines>>

\* A command from a channel, a pin or another task.  Only a jog in progress may be cancelled.
Command(c) ==
  /\ budget > 0
  /\ budget' = IF Weight[c] < budget THEN budget - Weight[c] ELSE 0
  /\ came' = came \cup ({c} \cap Disturbances)
  /\ c = "motionCancel" => state = "Jog"
  /\ c = "doorOpens" => ~pin
  /\ c = "doorCloses" => pin
  /\ pin' = IF c \in {"doorOpens", "doorCloses"} THEN c = "doorOpens" ELSE pin
  /\ events' = Append(events, c)
  /\ UNCHANGED <<sys, doorRequested, ajar, stepper, power, at, lines>>

----------------------------------------------------------------------------

Init ==
  /\ state = "Idle" /\ suspend = {} /\ control = {} /\ abort = FALSE
  /\ doorRequested = FALSE /\ pin = FALSE /\ ajar = FALSE
  /\ events = <<>>
  /\ blocks = <<>> /\ parkLeft = 0 /\ plBlock = "none"
  /\ segments = <<>> /\ awake = FALSE
  /\ spindle = FALSE /\ modalSpindle = FALSE
  /\ canPark \in CanPark
  /\ at = [base |-> "main", loop |-> FALSE, park |-> "none", restart |-> FALSE,
           phase |-> "out", then |-> "out"]
  /\ \E b \in Bounds : budget = b[1] /\ lines = b[2]
  /\ came = {}

RtSystem == CheckDoor \/ HandleEvent \/ EventsHandled \/ PrepSegment \/ PrepDone
Suspend ==
  \/ LeaveSuspend \/ Park \/ FallAsleep \/ AtDoor \/ WaitSuspended
  \/ ParkingMoves \/ WakeUp \/ PulledOut \/ Parked \/ Returned \/ Plunged
ProtocolTask == RtSystem \/ Suspend \/ EnterSuspend \/ MainLoop \/ SyncAgain \/ SyncDone
StepInterrupt == StepSegment \/ StepperStops

Next == ProtocolTask \/ StepInterrupt \/ \E c \in Commands : Command(c)

Spec == Init /\ [][Next]_vars

\* Both the protocol task and the step interrupt are always scheduled again.
FairSpec == Spec /\ WF_vars(ProtocolTask) /\ WF_vars(StepInterrupt)

----------------------------------------------------------------------------
(* Properties.                                                             *)

Pending(e) == \E i \in 1 .. Len(events) : events[i] = e

Untouched(ds) == came \cap ds = {}

\* Whatever order commands and the end of a motion are handled in, a machine in
\* Cycle or Jog is moving, or the cycle stop that ends the state is on its way:
\* no hold, resume, cancel, sleep, alarm or door leaves it waiting for a stepper
\* that is not running (protocol_do_cycle_start, protocol_do_cycle_stop).
EngineAlive ==
  Untouched({"reset", "fault"}) /\ state \in {"Cycle", "Jog"} /\ at.phase # "prep"
    => awake \/ Pending("cycleStop")

\* protocol_do_cycle_start() on a hold: a hold that still decelerates is "not
\* released early", and one with nothing to decelerate is not "an inescapable
\* dead end for ~".  So a Hold in which no stepper runs and no cycle stop is
\* pending is one that a cycle start leaves, as long as no reset or fault came.
HoldEscapable ==
  Untouched({"reset", "fault"}) /\ state = "Hold" /\ at.phase = "out" /\ ~awake /\ ~Pending("cycleStop")
    => HoldResumes

\* A hold is complete only when the machine is at rest: from then on the spindle
\* may be stopped and the tool retracted, and only parking moves the machine
\* (protocol_exec_rt_suspend), as long as nothing disturbs it.
RestedWhenComplete ==
  Untouched(Disturbances) /\ "holdComplete" \in suspend /\ "executeSysMotion" \notin control => ~awake

\* "the switch must be deactivated before the machine can be used": the program
\* runs while the door is ajar only until the pending door request is handled,
\* or while the door has already told the jog to stop.  A reset forgets the door.
DoorBlocksUse ==
  Untouched({"reset", "fault"}) /\ state \in {"Cycle", "Jog"} /\ ajar
    => doorRequested \/ Pending("safetyDoor") \/ "safetyDoorAjar" \in suspend

\* Once the machine is retracted behind an open door the spindle is off, however
\* often the door was opened again while the spindle was being restored (unpark).
SpindleOffAtDoor ==
  /\ Untouched({"reset", "fault"})
  /\ state = "SafetyDoor" /\ "retractComplete" \in suspend /\ "initiateRestore" \notin suspend
  => ~spindle

\* After a reset and its restart nothing is left to run and nothing runs until
\* the main loop goes on: parking, which may be in any of its moves when the
\* reset comes, neither moves the machine again nor restarts the spindle.  But a
\* line whose wait the reset has ended goes on (protocol_buffer_synchronize), and
\* then its own move, and nothing else, is planned and may run, with the spindle off.
OneMotionLeft ==
  /\ \A i \in 1 .. Len(segments) : segments[i] = "program"
  /\ \/ blocks = <<>> /\ Len(segments) <= Length
     \/ Len(blocks) = 1 /\ Len(segments) + blocks[1].left <= Length
ResetStopsEverything ==
  abort /\ ~Pending("restart") =>
    /\ ~spindle
    /\ IF at.base = "aborted" THEN OneMotionLeft
       ELSE segments = <<>> /\ blocks = <<>> /\ ~awake

\* A jog cancel ends with the planner and the segment buffer empty: no part of a
\* cancelled jog is run later, not even when the door opens during the jog
\* (protocol_do_cycle_stop).  Not so after a fault: a feed hold takes the machine
\* out of Critical.  And a line that goes on after a reset leaves a move of its own.
JogCancelFlushes ==
  [][ came' \cap {"fault", "lateLine"} = {} /\ "jogCancel" \in suspend /\ "jogCancel" \notin suspend'
        => blocks' = <<>> /\ segments' = <<>>]_vars

\* A machine at the door is eventually retracted and its spindle off, or a reset or a
\* fault comes: a door that opens after that may wait for a hold that nothing completes.
DoorParks ==
  state = "SafetyDoor"
    ~> state # "SafetyDoor" \/ "retractComplete" \in suspend \/ ~Untouched({"reset", "fault"})

\* A restore that was started ends: with the program resumed, or given up
\* because the door was opened again, or asleep, or stopped by an alarm or a fault.
RestoreCompletes ==
  "initiateRestore" \in suspend
    ~> "initiateRestore" \notin suspend \/ state = "Sleep" \/ ~Untouched({"alarm", "fault"})

=============================================================================
