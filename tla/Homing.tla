------------------------------- MODULE Homing -------------------------------
(***************************************************************************)
(* Homing (Machine/Homing.cpp, with the homing moves of                    *)
(* Kinematics/Cartesian.cpp, the switches of Machine/LimitPin.cpp and the  *)
(* protocol's handlers for them).  $H runs cycles; a cycle takes a set of  *)
(* axes through its phases, each phase one motion, ended by the switches   *)
(* or by the end of its steps.  The protocol task handles events; the      *)
(* polling task watches the pins and sends the events; the step interrupt  *)
(* moves the carriages.                                                    *)
(*                                                                         *)
(* A motor has one switch, at position 0, closed at or below it; an        *)
(* approach moves down.  The axes of a motion step in any order: their     *)
(* speeds are left out.  Limits are not hard limits.  Assumed of time:     *)
(* an armed pin is polled between its opening and its closing again, a     *)
(* carriage makes at most Overrun steps between its closing an armed       *)
(* switch and the handling of the event, an axis whose motors have all     *)
(* stopped none before its limit event is handled, a dwell is long enough  *)
(* for every armed pin to be polled, as is the time before a line is       *)
(* taken, a homing motion outlasts a dwell and the events queued with its  *)
(* start, segments left prepared by a failure run out before the next line *)
(* is taken, and nobody sends a cycle start.  The planner's and the        *)
(* parser's copies of the position are left out.                           *)
(*                                                                         *)
(* Where an operator has a second version just above it, that version is a *)
(* mistake the properties are to catch: it stands for no code.             *)
(***************************************************************************)
EXTENDS Integers, FiniteSets, SequencesExt

CONSTANTS
  Axes, Motors,
  AxisOf,      \* the axis of a motor
  Pulloff,     \* pulloff_mm of a motor, in steps
  SeekTravel,  \* by axis: max_travel_mm * seek_scaler, in steps
  FeedMargin,  \* what feed_scaler adds to the pull-off in a slow approach
  HomingRuns,  \* _homing_runs
  Requests,    \* what $H may ask: sequences of cycles, each a set of axes
  Starts,      \* where the carriages may be at start-up
  Overrun,     \* bound, by axis: steps made beyond a closing switch before the event is handled
  MaxHomings,  \* bound: $H commands in a behaviour
  Commands,    \* realtime commands sent: "reset", "door", "sleep"
  MaxCommands  \* bound: of them in a behaviour

MotorsOf(axes) == {m \in Motors : AxisOf[m] \in axes}
CommonPulloff(a) == Min({Pulloff[m] : m \in MotorsOf({a})})

ASSUME HomingAssumption ==
  /\ AxisOf \in [Motors -> Axes]
  /\ IsFiniteSet(Motors)
  /\ \A a \in Axes : MotorsOf({a}) # {}
  /\ \A l, m, n \in Motors : AxisOf[l] = AxisOf[m] /\ AxisOf[m] = AxisOf[n] => l = m \/ l = n \/ m = n
  /\ Pulloff \in [Motors -> Nat] /\ SeekTravel \in [Axes -> Nat]
  /\ {FeedMargin, MaxHomings, MaxCommands} \subseteq Nat
  /\ HomingRuns \in Nat \ {0}
  /\ Overrun \in [Axes -> Nat]
  /\ \A m \in Motors : FeedMargin > Overrun[AxisOf[m]] /\ Pulloff[m] > Overrun[AxisOf[m]]
  /\ Requests \subseteq Seq((SUBSET Axes) \ {{}}) /\ <<>> \notin Requests
  /\ Starts \subseteq [Motors -> Nat]
  /\ Commands \subseteq {"reset", "door", "sleep"}

VARIABLES
  state,       \* sys.state
  task,        \* the protocol task: "loop", in cycleStop's "dwell", in a "settle" delay
  queue,       \* event_queue
  door,        \* rtSafetyDoor
  abort,       \* sys.abort
  suspended,   \* sys.suspend().value is not zero
  phase, runs, remaining, cycleAxes, phaseAxes, phaseMotors, unhomed,
               \* Homing's _phase, _runs, _remainingCycles, ...
  mask,        \* posLimitMask | negLimitMask
  armed,       \* pins whose changes are watched: gpios_interest
  seen,        \* pins last seen active: gpios_current
  limited, blocked, \* motors that do not step
  pos,         \* where the carriages are
  plan,        \* the system motion in the planner's free slot, steps by axis
  left,        \* steps still to make
  moving,      \* the interrupt is enabled
  sysMotion,   \* step_control.executeSysMotion
  homings, given \* $H and realtime commands so far

protocol == <<state, task, door, abort, suspended>>
cycle == <<phase, runs, remaining, cycleAxes, phaseAxes, phaseMotors, unhomed>>
pins == <<mask, armed, seen>>
motion == <<plan, left, moving, sysMotion>>
engine == <<limited, blocked, pos>>
counts == <<homings, given>>
vars == <<protocol, queue, cycle, pins, engine, motion, counts>>

None == 0
PrePulloff == 1
FastApproach == 2
Pulloff0 == 3
SlowApproach == 4
Pulloff1 == 5
Pulloff2 == 6
CycleDone == 7

\* An event, and the motor or the cause it is about.
Event(kind) == [kind |-> kind, of |-> ""]
Alarm(cause) == [kind |-> "alarm", of |-> cause]
Still == [a \in Axes |-> 0]
Active(m) == pos[m] <= 0
Approaching == phase \in {FastApproach, SlowApproach}
HasLeft == \E a \in Axes : left[a] # 0

----------------------------------------------------------------------------
(* Homing moves.                                                           *)

Extra(a) == Max({Pulloff[m] : m \in MotorsOf({a})}) - CommonPulloff(a)
NeedsPulloff2(axes) == \E a \in axes : Extra(a) # 0

\* Pull-offs go up, approaches down; before the first approach only axes on a switch move.
Travel(ph, a) ==
  CASE ph = PrePulloff -> IF mask \cap MotorsOf({a}) # {} THEN CommonPulloff(a) ELSE 0
    [] ph = FastApproach -> -SeekTravel[a]
    [] ph = SlowApproach -> -(CommonPulloff(a) + FeedMargin)
    [] ph \in {Pulloff0, Pulloff1} -> CommonPulloff(a)
    [] ph = Pulloff2 -> Extra(a)

ReleasedAll(axes, motors) == MotorsOf(axes)
Released(axes, motors) == motors \cap MotorsOf(axes)

BlockingNone(ph, axes) == {}
\* The last pull-off moves only the motor that has to go further.
Blocking(ph, axes) ==
  IF ph = Pulloff2 THEN {m \in MotorsOf(axes) : Extra(AxisOf[m]) # 0 /\ Pulloff[m] = CommonPulloff(AxisOf[m])}
  ELSE {}

HomingMoveUnsent(axes, motors, ph, q) ==
  /\ limited' = limited \ Released(axes, motors)
  /\ plan' = [a \in Axes |-> IF a \in axes THEN Travel(ph, a) ELSE 0]
  /\ queue' = IF motors = MotorsOf(axes) THEN Append(q, Event("cycleStart")) ELSE q
\* A motion for the phase is planned and its cycle start sent behind the events in q.
HomingMove(axes, motors, ph, q) ==
  /\ limited' = limited \ Released(axes, motors)
  /\ plan' = [a \in Axes |-> IF a \in axes THEN Travel(ph, a) ELSE 0]
  /\ queue' = Append(q, Event("cycleStart"))

StopMotion == moving' = FALSE /\ left' = Still

----------------------------------------------------------------------------
(* Phases and cycles.                                                      *)

\* The phase after this one, and the runs left once it is entered.
Following ==
  LET n == phase + 1 IN
  IF n = SlowApproach /\ runs = 1 THEN [phase |-> Pulloff2, runs |-> runs]
  ELSE IF n # Pulloff2 THEN [phase |-> n, runs |-> runs]
  ELSE [phase |-> IF runs - 1 > 1 THEN SlowApproach ELSE Pulloff2, runs |-> runs - 1]

EndsCycle(ph) == ph = CycleDone \/ (ph = Pulloff2 /\ ~NeedsPulloff2(cycleAxes))

FirstPhase(motors) == IF mask \cap motors = {} THEN FastApproach ELSE PrePulloff

RunPhase(axes, ph, q) ==
  /\ phase' = ph
  /\ phaseAxes' = axes /\ phaseMotors' = MotorsOf(axes)
  /\ HomingMove(axes, MotorsOf(axes), ph, q)

BeginCycle(axes, rest, q) ==
  /\ remaining' = rest /\ cycleAxes' = axes /\ runs' = HomingRuns
  /\ RunPhase(axes, FirstPhase(MotorsOf(axes)), q)

\* The axes of the cycle take their homed position; then the next cycle, or the end.
EndCycle(ph) ==
  /\ unhomed' = unhomed \ cycleAxes
  /\ sysMotion' = FALSE
  /\ IF state # "Alarm" /\ remaining # <<>>
     THEN /\ BeginCycle(Head(remaining), Tail(remaining), queue)
          /\ blocked' = blocked \ MotorsOf(cycleAxes \cup cycleAxes')
          /\ UNCHANGED <<state, left, moving>>
     ELSE LET done == state # "Alarm" /\ ~abort IN
          /\ remaining' = <<>> /\ phase' = ph /\ runs' = Following.runs
          /\ blocked' = blocked \ MotorsOf(cycleAxes)
          /\ state' = IF ~done THEN state ELSE IF unhomed' = {} THEN "Idle" ELSE "Alarm"
          /\ moving' = (moving /\ ~done)
          /\ UNCHANGED <<cycleAxes, phaseAxes, phaseMotors, limited, plan, left, queue>>

NextPhase ==
  LET f == Following IN
  IF EndsCycle(f.phase) THEN EndCycle(f.phase)
  ELSE /\ RunPhase(cycleAxes, f.phase, queue)
       /\ runs' = f.runs
       /\ blocked' = blocked \cup Blocking(f.phase, cycleAxes)
       /\ UNCHANGED <<state, remaining, cycleAxes, unhomed, left, moving, sysMotion>>

Fail(cause, q) ==
  /\ StopMotion
  /\ queue' = Append(q, Alarm(cause))
  /\ blocked' = blocked \ MotorsOf(cycleAxes)

----------------------------------------------------------------------------
(* The event loop.                                                         *)

\* Every armed pin has been polled since it last changed.
Polled == \A m \in armed : Active(m) <=> m \in seen

Handling == task \in {"loop", "dwell"} /\ queue # <<>>
Takes(kind) == Handling /\ Head(queue).kind = kind
Rest == Tail(queue)

\* A closing switch stops its motor at once; the pin is not watched until it is rearmed.
PinActive ==
  /\ Takes("pinActive")
  /\ LET m == Head(queue).of IN
     /\ mask' = mask \cup {m}
     /\ armed' = IF Approaching THEN armed \ {m} ELSE armed
     /\ limited' = IF Approaching THEN limited \cup {m} ELSE limited
     /\ queue' = Append(Rest, [kind |-> "limit", of |-> m])
  /\ UNCHANGED <<protocol, cycle, seen, blocked, pos, motion, counts>>

PinInactive ==
  /\ Takes("pinInactive")
  /\ mask' = mask \ {Head(queue).of}
  /\ limited' = limited \ {Head(queue).of}
  /\ queue' = Rest
  /\ UNCHANGED <<protocol, cycle, armed, seen, blocked, pos, motion, counts>>

\* The motors on their switches drop out; when an axis does, the rest is planned anew.
StillMotors == phaseMotors \ mask
StillAxes == {AxisOf[m] : m \in StillMotors}

LimitReached ==
  /\ Takes("limit")
  /\ IF state # "Homing" \/ ~Approaching
     THEN /\ queue' = Rest
          /\ UNCHANGED <<task, cycle, limited, motion>>
     ELSE /\ phaseMotors' = StillMotors /\ phaseAxes' = StillAxes
          /\ IF StillAxes = phaseAxes
             THEN queue' = Rest /\ UNCHANGED <<task, limited, motion>>
             ELSE /\ StopMotion
                  /\ IF StillAxes # {}
                     THEN HomingMove(StillAxes, StillMotors, phase, Rest) /\ UNCHANGED task
                     ELSE task' = "settle" /\ queue' = Rest /\ UNCHANGED <<limited, plan>>
                  /\ UNCHANGED sysMotion
          /\ UNCHANGED <<phase, runs, remaining, cycleAxes, unhomed>>
  /\ UNCHANGED <<state, door, abort, suspended, pins, blocked, pos, counts>>

CycleStart ==
  /\ Takes("cycleStart")
  /\ queue' = Rest
  /\ sysMotion' = (state = "Homing" \/ (state # "Idle" /\ sysMotion))
  /\ suspended' = (suspended /\ state \notin {"Homing", "Idle"})
  /\ IF state = "Homing" THEN moving' = TRUE /\ left' = IF moving THEN left ELSE plan
     ELSE UNCHANGED <<moving, left>>
  /\ UNCHANGED <<state, task, door, abort, cycle, pins, engine, plan, counts>>

\* Pins are watched again, and one found open reports it.
Rearmed ==
  LET again == phaseMotors \ armed IN
  IF phase \in {Pulloff0, Pulloff1, Pulloff2}
  THEN [armed |-> armed \cup again, opened |-> {m \in again : ~Active(m)}]
  ELSE [armed |-> armed, opened |-> {}]

\* The motion of a phase has run to its end.
CycleStop ==
  /\ Takes("cycleStop")
  /\ \/ /\ state = "Homing" /\ Approaching
        /\ Fail("approach", Rest)
        /\ UNCHANGED <<task, suspended, armed, sysMotion>>
     \/ /\ state = "Homing" /\ ~Approaching
        /\ task' = "dwell"
        /\ armed' = Rearmed.armed
        /\ queue' = Rest \o SetToSeq([kind : {"pinInactive"}, of : Rearmed.opened])
        /\ UNCHANGED <<suspended, blocked, left, moving, sysMotion>>
     \/ /\ state \in {"SafetyDoor", "Sleep", "Idle", "Alarm"}
        /\ queue' = Rest
        /\ sysMotion' = (sysMotion /\ state \in {"Idle", "Alarm"})
        /\ suspended' = (suspended /\ state # "Idle")
        /\ UNCHANGED <<task, armed, blocked, left, moving>>
  /\ UNCHANGED <<state, door, abort, cycle, mask, seen, limited, pos, plan, counts>>

\* The dwell is over: every armed pin has been polled and the events have been handled.
DwellEnd ==
  /\ task = "dwell" /\ queue = <<>>
  /\ abort \/ (~suspended /\ ~door /\ Polled)
  /\ IF mask \cap phaseMotors # {}
     THEN /\ Fail("pulloff", queue)
          /\ task' = "loop" /\ UNCHANGED phaseMotors
     ELSE /\ StopMotion
          /\ phaseMotors' = {}
          /\ task' = "settle" /\ UNCHANGED <<queue, blocked>>
  /\ UNCHANGED <<state, door, abort, suspended, phase, runs, remaining, cycleAxes, phaseAxes, unhomed,
                 pins, limited, pos, plan, sysMotion, counts>>

\* No events are handled in the settling delay.
Settled ==
  /\ task = "settle" /\ task' = "loop"
  /\ NextPhase
  /\ UNCHANGED <<door, abort, suspended, pins, pos, counts>>

----------------------------------------------------------------------------
(* Alarms and realtime commands.                                           *)

AlarmEvent ==
  /\ Takes("alarm")
  /\ state' = "Alarm" /\ queue' = Rest
  /\ UNCHANGED <<task, door, abort, suspended, cycle, pins, engine, motion, counts>>

Reset ==
  /\ Takes("reset")
  /\ abort' = TRUE
  /\ \/ /\ state = "Homing"
        /\ moving' = FALSE /\ left' = Still
        /\ queue' = Append(Append(Rest, Alarm("reset")), Event("restart"))
        /\ blocked' = blocked \ MotorsOf(cycleAxes)
        /\ UNCHANGED state
     \/ /\ state # "Homing"
        /\ state' = IF sysMotion \/ state \in {"Sleep", "Alarm"} THEN "Alarm" ELSE "Idle"
        /\ moving' = (moving /\ ~sysMotion)
        /\ queue' = Append(Rest, Event("restart"))
        /\ UNCHANGED <<left, blocked>>
  /\ UNCHANGED <<task, door, suspended, cycle, pins, limited, pos, plan, sysMotion, counts>>

Restart ==
  /\ Takes("restart")
  /\ queue' = Rest
  /\ door' = FALSE /\ suspended' = FALSE
  /\ StopMotion /\ sysMotion' = FALSE
  /\ UNCHANGED <<state, task, abort, cycle, pins, engine, plan, counts>>

\* Sleeping in a hold of its own unless the machine was homing, or holds already.
Sleep ==
  /\ Takes("sleep")
  /\ queue' = Rest
  /\ state' = "Sleep"
  /\ suspended' = (suspended \/ state \in {"Alarm", "Idle"})
  /\ UNCHANGED <<task, door, abort, cycle, pins, engine, motion, counts>>

SafetyDoor ==
  /\ task \in {"loop", "dwell"} /\ door
  /\ door' = FALSE
  /\ \/ /\ state \in {"Alarm", "Sleep"}
        /\ UNCHANGED <<state, suspended, queue, blocked, left, moving>>
     \/ /\ state = "Homing"
        /\ Fail("door", queue)
        /\ state' = "SafetyDoor" /\ suspended' = TRUE
     \/ /\ state \in {"Idle", "SafetyDoor"}
        /\ state' = "SafetyDoor" /\ suspended' = TRUE
        /\ UNCHANGED <<queue, blocked, left, moving>>
  /\ UNCHANGED <<task, abort, cycle, pins, limited, pos, plan, sysMotion, counts>>

----------------------------------------------------------------------------
(* Lines, pins and steps.                                                  *)

\* The event loop runs until the queue is empty: only what others sent since may be there.
Drained == \A i \in DOMAIN queue : queue[i].kind \in {"pinActive", "pinInactive", "cycleStop", "reset", "sleep"}

\* home() has returned and the main loop takes the next line; its end clears the abort.
\* The task that reads a line has polled the pins before.
AcceptsLine ==
  task = "loop" /\ state \in {"Idle", "Alarm"} /\ ~suspended /\ ~abort /\ ~moving /\ Drained /\ Polled

LineEnds ==
  /\ task = "loop" /\ state # "Homing" /\ abort /\ Drained
  /\ abort' = FALSE
  /\ UNCHANGED <<state, task, door, suspended, queue, cycle, pins, engine, motion, counts>>

Home ==
  /\ AcceptsLine /\ homings < MaxHomings
  /\ homings' = homings + 1
  /\ state' = "Homing"
  /\ \E cycles \in Requests :
       /\ BeginCycle(Head(cycles), Tail(cycles), queue)
       /\ blocked' = blocked \ MotorsOf(Head(cycles))
  /\ UNCHANGED <<task, door, abort, suspended, unhomed, pins, pos, left, moving, sysMotion, given>>

\* $X
Unlock ==
  /\ AcceptsLine /\ state = "Alarm"
  /\ state' = "Idle" /\ unhomed' = {}
  /\ UNCHANGED <<task, door, abort, suspended, queue, phase, runs, remaining, cycleAxes, phaseAxes,
                 phaseMotors, pins, engine, motion, counts>>

Poll(m) ==
  /\ m \in armed /\ Active(m) # (m \in seen)
  /\ seen' = IF Active(m) THEN seen \cup {m} ELSE seen \ {m}
  /\ queue' = Append(queue, [kind |-> IF Active(m) THEN "pinActive" ELSE "pinInactive", of |-> m])
  /\ UNCHANGED <<protocol, cycle, mask, armed, engine, motion, counts>>

Command(c) ==
  /\ given < MaxCommands /\ given' = given + 1
  /\ c = "reset" \/ state = "Homing"
  /\ IF c = "door" THEN door' = TRUE /\ UNCHANGED queue
     ELSE queue' = Append(queue, Event(c)) /\ UNCHANGED door
  /\ UNCHANGED <<state, task, abort, suspended, cycle, pins, engine, motion, homings>>

\* A step of one axis, by those of its motors that are neither limited nor blocked.
Free(a) == MotorsOf({a}) \ (limited \cup blocked)
InTime(a) ==
  \/ left[a] > 0
  \/ /\ Free(a) = {} => "limit" \notin {queue[i].kind : i \in DOMAIN queue}
     /\ \A m \in Free(a) \cap armed :
          \/ Active(m) /\ m \in mask
          \/ pos[m] > -Overrun[a] /\ (m \in seen => Active(m))

Tick(a) ==
  /\ moving /\ left[a] # 0 /\ InTime(a)
  /\ LET d == IF left[a] > 0 THEN 1 ELSE -1 IN
     /\ left' = [left EXCEPT ![a] = @ - d]
     /\ pos' = [m \in Motors |-> IF m \in Free(a) THEN pos[m] + d ELSE pos[m]]
  /\ UNCHANGED <<protocol, queue, cycle, pins, limited, blocked, plan, moving, sysMotion, counts>>

\* All steps are made, neither in a dwell nor before another start; or no more are prepared.
RunDry ==
  /\ moving
  /\ \/ ~HasLeft /\ task # "dwell" /\ Event("cycleStart") \notin Range(queue)
     \/ state \in {"Idle", "Alarm", "Sleep"}
  /\ moving' = FALSE
  /\ queue' = Append(queue, Event("cycleStop"))
  /\ UNCHANGED <<protocol, cycle, pins, engine, plan, left, sysMotion, counts>>

----------------------------------------------------------------------------
Init ==
  /\ pos \in Starts
  /\ state = "Alarm" /\ task = "loop" /\ queue = <<>>
  /\ door = FALSE /\ abort = FALSE /\ suspended = FALSE
  /\ phase = None /\ runs = 0 /\ remaining = <<>>
  /\ cycleAxes = {} /\ phaseAxes = {} /\ phaseMotors = {} /\ unhomed = Axes
  /\ mask = {m \in Motors : Active(m)} /\ seen = mask /\ armed = Motors
  /\ limited = {} /\ blocked = {}
  /\ plan = Still /\ left = Still /\ moving = FALSE /\ sysMotion = FALSE
  /\ homings = 0 /\ given = 0

Handle == PinActive \/ PinInactive \/ LimitReached \/ CycleStart \/ CycleStop
          \/ AlarmEvent \/ Reset \/ Restart \/ Sleep
Protocol == Handle \/ DwellEnd \/ Settled \/ SafetyDoor \/ LineEnds
Interrupt == RunDry \/ \E a \in Axes : Tick(a)

Next ==
  \/ Protocol
  \/ Interrupt
  \/ Home \/ Unlock
  \/ \E m \in Motors : Poll(m)
  \/ \E c \in Commands : Command(c)

Spec == Init /\ [][Next]_vars

\* The protocol and polling tasks are scheduled and the timer runs; no command need come.
FairSpec ==
  /\ Spec
  /\ WF_vars(Protocol) /\ WF_vars(Interrupt)
  /\ \A m \in Motors : WF_vars(Poll(m))

----------------------------------------------------------------------------
(* Properties.                                                             *)

\* When the last phase of a cycle is over and its axes are about to take their homed position,
\* every motor of them stands at its own pull-off from its switch: the two motors of an axis are
\* square whatever the order in which switches closed, motions were planned anew and events came
\* (Homing.cpp:283-311).
HomedAtSwitch ==
  (task = "settle" /\ ~Approaching /\ EndsCycle(Following.phase)) =>
    \A m \in MotorsOf(cycleAxes) : pos[m] \in Pulloff[m] - Overrun[AxisOf[m]] .. Pulloff[m]

\* No carriage is driven past its switch, in any phase, after any failure (LimitPin.cpp:54-64).
NeverPastSwitch == \A m \in Motors : pos[m] >= -Overrun[AxisOf[m]]

\* Homing ends, in Idle or in an alarm: no lost event leaves it waiting for a motion that will
\* not start or a switch nobody watches (ProcessSettings.cpp:472-474).
HomingEnds == (state = "Homing") ~> (state # "Homing")

=============================================================================
