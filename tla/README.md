# TLA+ models of FluidNC

FluidNC is CNC firmware: it takes G-code from several channels, plans motion in
a look-ahead ring, turns the plan into step segments and has a timer interrupt
execute them, while holds, cancels, an opened safety door, faults and resets
may come at any time. This directory holds TLA+ specifications of its motion
core (planner, step segments, realtime protocol, parking, homing), of what lies
above it (execution of a line of G-code, flow control, the way lines reach it)
and of two protocols it speaks (pendants over ESP-NOW, xmodem); TLC
configurations that check them on small instances; and proofs checked by TLAPS.
Paths below are relative to `FluidNC/src/` of the repository.

    tlc -config MCPlanner.cfg MCPlanner          # and so for every .cfg
    tlapm PlannerProofs.tla                      # and so for every ...Proofs.tla

## The system

Three kinds of actors run it:

- the **protocol task** (`protocol_main_loop()`, Protocol.cpp) executes lines,
  drains the event queue, prepares segments, and sits in the suspend loop while
  the machine is held or parked. Almost all state changes happen here, inside
  `protocol_exec_rt_system()`, which every wait of the task calls;
- the **step interrupt** (`Stepper::pulse_func()`, Stepper.cpp) consumes the
  segment ring and posts `cycleStop` when it runs dry;
- the **polling task**, pins, web server and other tasks read characters, hand
  lines over and post events.

| Component | State | Operations | What makes it correct |
|---|---|---|---|
| Planner (Planner.cpp) | ring of blocks, tail, head, planned pointer, previous speed | add a line, discard, recalculate, override, reinitialize | pointers stay in the ring; the incremental plan is the optimal one; no jump of speed; rest at the end |
| Segment preparation (Stepper.cpp) | block in preparation, profile, segment ring | prep_buffer, reset, wake_up, parking save and restore, the interrupt | no overrun; a block is discarded exactly when finished; a slot is not reused while it is executed |
| Realtime protocol (Protocol.cpp) | machine state, suspend bits, step control bits, event queue, door request | one handler per event, door check, suspend loop, synchronize | never stuck, never moving when at rest is promised, nothing of a cancelled motion runs later |
| Parking (Parking.cpp) | system motion in the planner's free slot | park, unpark, moveto | spindle off and retracted behind an open door; resets end it; the program's plan survives |
| Channels, AllChannels (Channel.cpp, Serial.cpp) | registry, reference counts, closing flag, kill queue, zombies | register, poll, take and release references, kill, reap | nothing is deleted while referenced; everything killed is reaped |
| Jobs (Job.cpp) | stack of sources, leader | nest, unnest, abort | a leader stays valid; an aborted job runs no further line |
| Line hand-off (Protocol.cpp, ProcessSettings.cpp) | one-deep command queue, active channel | poll, defer, execute, acknowledge | every line executed once, in order, acknowledged once |
| Homing (Machine/Homing.cpp, Kinematics/Cartesian.cpp, Machine/LimitPin.cpp) | cycles, phase, axes in the phase, armed pins, blocked motors | start, limit reached, motion end, dwell, fail | motors stop at their switches and end at their pull-offs; homing ends |
| G-code (GCode.cpp, MotionControl.cpp, Jog.cpp) | modes and position of the parser, the planner's position, outputs | execute a line, wait for the machine, probe, jog | each move is made with what was asked for it; the parser's beliefs are true |
| Flow control (Flowcontrol.cpp) | stack of open blocks, places in files | one per o-word | a program runs as the blocks it is written in |
| ESP-NOW channel (esp32/ESPNow) | slots, sessions, replay window, receive queue, ring, lease | receive, process, read, flush, change the roster | nothing done twice, a stop is not overtaken, nobody is taken for another |
| xmodem (xmodem.cpp, FileCommands.cpp) | packet number, retries, packet held back | send, receive, keep or remove the file | what is written is the file so far, what is kept the whole file |
| Parameters and expressions, kinematics, motors, VFD spindles, buses, settings, configuration, reports, web, storage | mostly device state | drivers, parsing, I/O | see PROJECT.json |

Components interact through: the event queue (many senders, the protocol task
receives); `sys` (state, suspend and step control bits, written by the protocol
task and read by the others); the segment ring (protocol task to interrupt); the
one-deep line queue (polling to protocol task); the channel registry under its
mutexes; limit pins, polled by one task and handled by another; the pendant
channel's queue and ring, between the radio's task and the other two; and direct
calls inside the protocol task. The hard behaviour is where
an event is posted in one state and handled in another, where `prep_buffer()`
and the interrupt run at different speeds, and where a wait deep inside parking
handles events that change what its callers are about to do.

## Modules

### Planner

`Planner.tla` is the ring of Planner.cpp and the part of `Stepper::prep_buffer()`
that rides the plan. Both run in the protocol task, so a call is a step.

| TLA+ | Code |
|---|---|
| `blockBuffer`, `tail`, `head`, `nextHead`, `planned` | `block_buffer` and its indices |
| `BufferLine` | `plan_buffer_line()` with `plan_compute_profile_parameters()` |
| `Recalculate` | `planner_recalculate()`: reverse pass, forward pass, the moved planned pointer |
| `FeedOverride` | `plan_update_velocity_profile_parameters()`, `plan_cycle_reinitialize()` |
| `Segment` | one round of `prep_buffer()`: load, profile, ramp, discard at the end |
| `CycleStart`, `FeedHold`, `CycleStop`, `ResumeIdle` | the protocol's part in starting, holding and ending a cycle |

Speeds are kept squared, as in the code, and a distance is the energy `2*a*d` it
is worth, so the recurrences `v1^2 = v0^2 + 2*a*d` become sums of naturals. A
segment covers one unit. `lowered` is a history variable: an override has
lowered a limit of the plan that is running. In the code's own words an override
may leave a plan that is not optimal, and the properties that do not hold after
one say so with `lowered`.

### Realtime

`Realtime.tla` is the realtime protocol with parking and the stepper as they
appear to it. The program counter of the protocol task is `at`: `base` (main
loop or a synchronize), `loop` (in the suspend loop), `park` (the parking move
it waits in), `phase` (door check, events, segment preparation, out of
`protocol_exec_rt_system()`), and `then`, where preparation returns to.
Interleaving is at the points where the code can be interrupted: between two
events, two segments, and the pieces of the suspend loop. A line whose synchronize
a reset ends goes on (GCode.cpp:1865, MotionControl.cpp:88): it may put its move
into the planner that the restart has emptied, and `base` is "aborted" until the main
loop's pass is over. `came` is a history variable, the disturbances there have been:
resets, alarms, faults, and such late lines.

| TLA+ | Code |
|---|---|
| `HandleEvent` and `Do...` | `protocol_handle_events()` and the handlers |
| `CheckDoor`, `DoSafetyDoor`, `EventsHandled` | `protocol_exec_rt_system()`, `protocol_do_safety_door()` |
| `PrepSegment`, `PrepDone` | `prep_buffer()` a segment at a time; `wake_up()` |
| `Park` ... `Plunged` | suspend loop, `Parking::park()`, `unpark()`, `moveto()` |
| `MainLoop`, `SyncAgain`, `SyncDone` | `protocol_main_loop()`, `protocol_buffer_synchronize()`, and the line that waits in it |
| `StepSegment`, `StepperStops` | `pulse_func()` |
| `Command` | `execute_realtime_command()`, pin events |

A motion is `Length` segments and has no speed: a deceleration under a hold may
end after any segment, which covers every speed and distance it could have.

Left out of it: the states Homing, CheckMode, ConfigAlarm and Starting; soft
limits; the spindle stop override; coolant; the jog cancel of a line in flight
(`mc_cancel_jog()`); single block; laser mode; parking moves of no length; the
limit of fifty events; the spindle's `off_on_alarm`; the idle timer of the
motors; the second alarm `$X` may raise. `pulse_func()` posting `cycleStop` and
clearing `awake` is one step, as nothing reads the one without the other between
them. Whether parking is configured is chosen once. Homing has a module of its
own, and coolant, the jog cancel of a line in flight and laser mode are `Gcode`'s.

### Lines

`Lines.tla` is everything between a byte that has arrived and a line that has
been executed. It composes three parts of the code, since what goes wrong in one
is done by the others: the channel registry with its reference counts and its
reaper, the job stack, and the one-deep queue between the two tasks.

| TLA+ | Code |
|---|---|
| `PollChannels`, `PollJob`, `PollAbort`, `PollFeed`, `PollOffer`, `PollEof`, `PollFailed`, `PollInput`, `PollClient` | `poll_once()` of the polling task, cut where it unlocks, reads or writes what the other task uses |
| `Receive`, `DropLine`, `Execute...`, `WaitOver`, `Ack`, `HandleEvent`, `EndPass` | a pass of `protocol_main_loop()`, with `execute_line()` and the event handlers that touch lines |
| `Bury`, `Unreferenced`, `Killed` | `AllChannels::poll()` up to reading, `reap_channels()`, `kill()` |
| `PopTo`, `Nest`, `LeaderChannel`, `LeaderLost` | Job.cpp |
| `refs`, `mail` | `_processing_refs`, and `_queued_log_refs` as the set of channels with messages queued |
| `cmd` | `cmd_queue`, one deep |
| `Connect`, `Send`, `Disconnect`, `Fault` | senders, the web server's task, pins |

A channel is its address: a client or a file that has been deleted may be
created again at the same one, as an allocator does, so a pointer kept too long
may be to another object. A line is its kind: G-code that is right or wrong, a
report, a `$SD/Run`, an unlock. What a file contains is chosen line by line.

`Interpreter.tla` is what the job stack promises, and knows no channels, tasks,
references or queues: files are a stack of calls, a line is taken from the
innermost only, a call is made before the caller goes on, a file returns when
its last line has been taken, and nothing runs after an abort. `Lines`
implements it (`RunsAsCalls`): the stack is the job stack, the lines still to be
taken are those left in the file and the one on its way through the polling
task's buffer and the queue, and a call is pending while a `$SD/Run` is
executed. This holds for one sender that waits for each answer, and without
resets: with a second line on the way (`Window` 2) a line of a client can be
executed inside a job, and after a reset the job is still on the stack until the
polling task gets round to it.

Left out of it: macros, among them those after a reset or an unlock; single
block; channels paused for xmodem or passthrough; the refusal of G-code in the
states ConfigAlarm and Jog; saving and restoring the modal state
around a job; Telnet's retry of a kill that found the queue full; the limit of
the message queue; empty lines. The polling task looks for unreferenced channels
and deletes them in one step, and `try_acquire_...()` is one step: each is an
atomic counter and a flag, and the order in which they are read is not modelled.

### Segments

`Segments.tla` is Stepper.cpp between the planner's blocks and the motors'
steps: the protocol task writes a block's Bresenham data into a slot of
`st_block_buffer` and segments into the ring; the interrupt takes the segments a
tick at a time.

| TLA+ | Code |
|---|---|
| `Prep` with `Loaded`, `Reloaded`, `Partial`, `Bail`, `Cut` | `prep_buffer()`, a segment at a time |
| `slots`, `prep`, `ring`, `st` | `st_block_buffer`, `st_prep_t`, `segment_buffer`, `stepper_t` |
| `Pulse` with `Fetched`, `NewBlock`, `Steps`, `Advance`; `RunDry` | `pulse_func()` |
| `BufferLine`, `Replan`, `CycleStart`, `Hold`, `CycleStop`, `Flush` | what planner and protocol do to them |
| `ParkingSetup`, `Moveto`, `ReopenDoor`, `Restored` | parking in the middle of a block |

A segment may be of any length, which covers every speed, and is divided evenly
by AMASS. `made` is a history variable, what each block has been traced to, and
`disturbed` another: how a parking met a block of the program half executed.

### Homing

`Homing.tla` is `$H`: the cycles and phases of Homing.cpp, the moves Cartesian
makes for each phase and plans anew when an axis is home, the limit pins of
LimitPin.cpp, armed and disarmed, and the motors `Stepping::step()` does not
step because they are blocked or at their limit.

| TLA+ | Code |
|---|---|
| `Home`, `NextPhase`, `RunPhase`, `EndCycle`, `Fail` | `run_cycles()`, `nextPhase()`, `runPhase()`, `done()`, `fail()` |
| `LimitReached`, `CycleStop`, `DwellEnd`, `Settled` | `limitReached()` and `cycleStop()`, cut at the dwell in which events wait |
| `PinActive`, `PinInactive`, `Poll`, `Rearmed` | `LimitPin::trigger()`, `poll_gpios()`, `rearmLimits()` |
| `Travel`, `HomingMove`, `Released`, `StillMotors`, `StillAxes` | Cartesian's `axesVector()`, `homing_move()`, `releaseMotors()`, `limitReached()` |
| `AlarmEvent`, `Reset`, `Restart`, `Sleep`, `SafetyDoor` | the protocol's handlers, in the state Homing |

A motor has one switch, an axis at most two motors (MAX_MOTORS_PER_AXIS), and
hard limits are off. What is assumed of time is said
at the head of the module: an armed pin is polled between its opening and its
closing again; a carriage makes at most `Overrun` steps from the closing of its
switch to the handling of the event, and an axis whose motors have all stopped
none before its limit event is handled (`InTime`); a dwell is long enough for the
pins to be polled (`Polled`), as is the time before a line is taken, which
`pollChannels()` reads after `poll_gpios()`; a dwell is shorter than a homing
motion; segments left by a failure run out before the next line; nobody sends a
cycle start while homing. The planner's and the parser's copies of the position
are left out.

### Gcode

`Gcode.tla` is step 4 of `gc_execute_line()`, in its order, with
`mc_move_motors()`, `mc_probe_cycle()` and jogging under it. The parser runs
ahead of the machine: `gc` and `planned` are what parser and planner believe,
`queue` what is planned, `machine` what the outputs and axes are.

| TLA+ | Code |
|---|---|
| `SetSpeed`, `LineSpeed`, `SetSpindle`, `SetCoolant`, `SetOutput` | words carried out before the motion, after a synchronize where there is one |
| `Refuse`, `WaitForRoom`, `Bail`, `Plan`, `StartProbe`, `Contact`, `ProbeEnds` | `limit_error()`, `mc_move_motors()`, `mc_probe_cycle()` |
| `Continue`, `Pause`, `ProgramEnd`, `EndLine` | program flow, M0, M2 and M30 |
| `FeedHold`, `CycleStart`, `JogCancel`, `Unlock`, `AutoStart`, `CycleStop` | events, handled only where the line waits (`Polling`) or between lines |
| `Reset`, `Restart`, `StartBehind` | `protocol_do_rt_reset()`, the restart it queues, and a cycle start that was queued between the two |
| `RunBlock`, `EngineStops` | the stepper, a block at a time, with the laser's power |

`want` follows what the lines taken so far ask for, word by word, and is what a
move is compared with when it is made. A machine is a mill or a laser.

A reset turns the outputs off and queues the restart, which clears planner,
parser and engine, behind what is queued already. An automatic cycle start may be:
then the blocks that are left run until the restart, which stops them and keeps
the state Cycle or Jog. Until the next reset the machine is then "stranded", with
nothing to run and no event to end the cycle; or its segments have run out
before, their `cycleStop` comes after the restart, and all that is left is the
power that the segments gave a spindle that is off ("powered"). Neither the
restart's `spindle->stop()` takes it away nor that of another reset in the same turn of
the loop, as `setState()` does nothing in an abort. `restart` says which. `PositionKnown`, `CutsAsAsked` and
`ParserKnowsMachine` say nothing of the time between reset and restart, and the
last nothing of what such a cycle leaves behind; `LinesEnd` ends in a machine that
is stranded, too.

`Careful`
says that the operator keeps to `PaysAttention`: no jog with a laser on or behind
a program's blocks, no line in Critical, no probe with a laser, no pause in a line
whose move is out of the limits, and with a laser no output that does not exist
in a line that leaves the spindle on, no line for a machine left powered. Each clause stands for a behaviour told
below. `MidLineReset` lets a reset be handled in a synchronize.

Left out: arcs, G28 and G30, tool changes, offsets, dwells, M64 to M67, check
mode, the spindle stop override, `probe.hard_stop`, tool setters, hard limits,
`off_on_alarm`. A block is made in one step. A reset of a machine in Critical ends
in Alarm or Idle, homed or not. Commands other than another reset that come between
a reset and its restart, or while the machine is stranded, are left to `Realtime`.

### Flow

`Flow.tla` is `flowcontrol()`, with the parts of the job stack it uses: an entry
of `context` says which block is open and whether its lines are skipped, and a
loop goes round by setting the file's position back. Every o-word operation is
an action (`If` ... `RaiseError`); `Work` is any other line and `Call` a file or
macro called from one; `EndOfFile`, `Alarm`, `Abort`, `Reset` and `Unlock` are
what else changes the context. A condition has any value, at any line.

`Blocks.tla` is what it promises, and knows no stack, no skipping and no file
positions: it reads the nesting off the program's text, and a line leads to the
line that the blocks around it say. `Flow` implements it (`RunsAsBlocks`): the
line `Blocks` is at is the next line `Flow` will not skip, and the rounds left
are those of the counted loops that are entered. A program is followed up to the
first of two places at which the code leaves its blocks, if it comes to one:
`strayed` notes a `continue` in the last round of its loop and a `while` directly in
a `do`. `Leftovers` excludes a third behaviour told below. No other line of a nested
program is refused (`RefusedOnlyAstray`); that none is, is found false
(`WellFormedAccepted`).

### EspNow

`EspNow.tla` is the server's end of the pendants' protocol, with the radio and
the pendants as its environment. The Wi-Fi task puts packets in a queue
(`OnRecv`), the polling task takes them (`ProcessPacket` finds the slot and lets
go of the lock; `HandleHello`, `HandleKeepalive`, `HandleData`, `HandleRealtime`
use it) and reads the ring (`ReadLoad`, `ReadStore`), the protocol task flushes
(`FlushLoad`, `FlushStore`, `FlushFrags`) and removes a pendant
(`RemoveRuntimePeer`). `Noted`, `Accepts`, `TooOld`, `Rejects` are the replay
window of ESPNowCrypto.cpp; `Barrier` is `motion_barrier_counter`; `MayClaim` the
control lease.

The radio loses, reorders and repeats packets; a pendant restarts with a count
of 0; a nonce is never given twice; an answer carries the tag of its pendant's
run, so that another run of it does not take it. `acted` is a history: what reached the
channel, and whose slot it was taken from. Assumed: `OnRecv()`'s three calls to
the queue are one step; messages are jogs of two packets, the ring holds
messages instead of bytes, and the numbers of messages do not wrap at 256.

`StopsHold` excepts one case, which the code has: a hold leaves the packets
gathered in a slot (only a jog cancel frees them), and so does a hello that starts
a new session (ESPNowChannel.cpp:1580). A jog of which one half came before a
hold is then completed by a half that the restarted pendant sends with the same
number (both runs count their messages from 0). With `hold` in `Sent` and one
restart TLC finds it in 26 steps when the exception is left out.

`StopsHold` is about what is taken into the ring, not about what is read from it. A
jog that is in the ring when a hold is taken stays there, as in the code, and is
read and run after the hold: only a jog cancel flushes the ring
(ESPNowChannel.cpp:1778, 1790). So the property covers the queue, the slots and the
air, where a stop overtakes messages, and not the ring, where it does not.
Nor does `AtMostOnce` see the ring read twice (line 1177, below).

### XModem

`XModem.tla` is both ends of xmodem.cpp and the file commands that start them,
over a line that loses or spoils what is sent, or delays an answer past the
other's time-out. `Tx...` are the cases of `xmodemTransmit()`'s switches,
`Rx...` those of `xmodemReceive()`, each with the retries, the counters and the
flushing of its input; `Kept` is what `xmodem_receive()` leaves in the file
system. The instance is scaled down: 4 packet numbers for 256, 3 tries for 16, 2
for the 10 of the end, two bytes in a packet for 1024; `MAXRETRANS` is the code's.

The line may lose or spoil a message, or the first byte of a packet. Any other
fault in a packet makes its check fail. What is left of a packet that has lost its
start, the "rest", is read byte by byte as control characters (lines 197-240):
`RxOther`, `RxCancel`, `RxEnd` and `RxReject` each take a byte of it, with its
answer and its retry, and so does a part of a packet that `flushinput()` leaves,
which stops at a byte that is 0. What the bytes of a rest are is left open, so
that any of them may be an EOT, a CAN, the start of a packet or no character the
receiver knows; that a byte of a rest begins a packet which passes its check is
left out, and so are further faults in a rest. `strays` counts the answers to such
bytes, `hits` the faults by their cause.

### Mistaken variants

Some operators have a second version just above them (`NextIndexLate`,
`NothingSent`, `MayFeedEarly`, ...), in `Lines` with a comment that starts
"Mistaken". Each is a plausible mistake - an off-by-one, a dropped
guard, a missing reset - and PROJECT.json pairs it with the property that finds
it when it takes the operator's place.

## Runs

| Run | Instance | Shows |
|---|---|---|
| `MCPlanner.cfg` | 4 slots, 5 kinds of move, override 50 or 100 % | types, `PlannedInsideQueue`, `PlanOptimal`, `AccelerationBounded` |
| `MCRealtime.cfg` | up to 4 commands of all kinds and 1 line, or 2 and 2 lines; room for 1 segment, with and without parking, fairness | `ResetStopsEverything`, `EngineAlive`, `HoldEscapable`, `RestedWhenComplete`, `DoorBlocksUse`, `SpindleOffAtDoor`, `JogCancelFlushes`; liveness `DoorParks`, `RestoreCompletes` |
| `MCSegments.cfg` | 3 slots, 2 axes, 2 smoothings, 2 moves, 2 parking moves, fairness | `SlotIntact`, `PathExact`; liveness `MotionEnds` |
| `MCHoming.cfg` | a gantry axis with two motors and another axis, `$H` twice, one of reset, door, sleep, fairness | `HomedAtSwitch`, `NeverPastSwitch`; liveness `HomingEnds` |
| `MCGcode.cfg` | 19 lines in any order, 2 places and one out of reach, 2 blocks of room, a mill or a laser, fairness | `PositionKnown`, `ParserKnowsMachine`, `CutsAsAsked`; liveness `LinesEnd` |
| `MCGcodeReset.cfg` | the same, with resets in the middle of a line | violates `ResetDiscards` |
| `MCLines.cfg` | 1 client, 2 files, `$SD/Run` only, 2 lines unanswered, resets | types, `RefsHeld`, `HeldChannelsLive` |
| `MCLinesJob.cfg` | 1 client that waits for answers, 2 files, all kinds of line, fairness | `JobOwnsMachine`, `RunsAsCalls`; liveness `Reaped`, `JobEnds` |
| `MCFlow.cfg` | every nested program of up to 7 lines, 3 deep, calls of a file and a macro | `RefusedOnlyAstray`, `RunsAsBlocks` |
| `MCFlowRefused.cfg` | the same up to 5 lines, 2 deep | violates `WellFormedAccepted` |
| `MCEspNow.cfg` | 2 pendants, queue and ring of 2, window of 3 counts, one disturbance | `AtMostOnce`, `StopsHold`, `TakenFromOwner`, `MessagesWhole` |
| `MCXModem.cfg` | 3 files of up to 5 packets, room for them or not, 2 faults of the line, fairness | `InOrder`, `KeptWhole`, `LateLosesNothing`; liveness `Recovers` |

The properties worth a second look:

- `PlanOptimal`: the planner never looks again at blocks before
  `block_buffer_planned`, and stops its reverse pass early. That the result is
  still the fastest feasible plan is compared with a definition that knows
  nothing of either: the least over all caps of limit plus distance.
- `AccelerationBounded`: replanning in the middle of the tail block, a hold and
  an override never make the commanded speed jump.
- `EngineAlive`, `HoldEscapable`: a state that waits for the stepper has a
  running stepper, or its cycle stop in the queue.
- `RestedWhenComplete`: `holdComplete` is trusted by parking; it must mean rest.
- `JogCancelFlushes`: every way a cancel of a jog can end - its stop, a door in
  it, sleep, an alarm - must throw the rest of the jog away.
- `SlotIntact`: nothing in the code looks whether a slot is free; the ring's
  length alone keeps it so, over holds and parking moves.
- `PathExact`: however a block is cut, held, smoothed and profiled anew, no tick
  is traced twice and every axis makes its steps. A block that a door interrupts
  is excepted (see below).
- `HomedAtSwitch`: the two motors of an axis end square, whatever the order in
  which switches close, motions are planned anew and events come.
- `CutsAsAsked`: the parser is ahead of the machine, and the only thing that
  keeps a move from being made with a later line's spindle, coolant or power is
  a synchronize in the right places.
- `RunsAsBlocks`: seven lines are enough for a block in a block in a block, an
  `elseif` chain with an `else`, and a `break` or `continue` out of an inner one.
- `StopsHold`: a stop is put before what is queued; what it has overtaken must
  not be taken into the ring after it, though packets may be reordered before that.
- `InOrder`: with late answers, and with packets read byte by byte, sender and
  receiver get out of step; the packet numbers must still tell the blocks apart.
- `KeptWhole`, `LateLosesNothing`, `Recovers`: the received file is whole or
  removed, and faults do not defeat a transfer. Each has exceptions, because the
  code does not do better: `KeptWhole` an answer that was late or was one to a byte
  of a packet without its start; `Recovers` the same, a lost end and a lost answer
  to the highest number. That late answers alone lose nothing is
  `LateLosesNothing`. What happens in the exceptions is described below.
- `RefsHeld`: references are handed from the polling task to the queue, from the
  queue to the line in execution, and let go on five different paths; the count
  must equal the number of holders in every state between.
- `HeldChannelsLive`: no pointer of either task, of the job stack, of the
  registry or of a message is to a deleted channel, whatever disconnects when.

### Bounds

`Bounds` bounds the commands and lines of a behaviour of `Realtime`. A command takes
its `Weight` of the first, the last one whatever it weighs: a hold 2, a resume or a
door 1, a reset, an alarm, a fault, a cancel or a sleep 3. So four commands reach an
opened door, a closed door, a resume, and in the middle of the restore the door again
or a reset; three a hold, a resume or a door, and a stop; two lines a stop of any
kind and another, with one motion behind the other or a jog behind a program. Motions
of two segments end at a block's end and in its middle; with one segment of room the
stepper runs dry between any two, and a motion leaves a block in the planner when it
is held or cancelled, without which `JogCancelFlushes` would be idle. Four slots in the planner's ring give three blocks: one before,
at and after the planned pointer, and every index wraps. A fourth block adds no
new case to the passes, which relate neighbours only. Moves of one and three
units, with speeds up to 4, make both blocks that can and cannot stop within
their length.

In `Segments`, three slots are wrapped around by two moves and two parking moves,
`TwoMoves` are one whose axes step at different ticks and one of a single event,
and each can be cut at every tick. `SlotsKept` and `PathsExact` hold for any
number of them.

In `Homing`, the pull-offs of the gantry's motors differ, so that there is a
second pull-off phase; the carriages start with one motor on its switch and an
axis too far away to reach its own, and either cycle order fails or succeeds;
the second `$H` begins from wherever the first one ended. `Overrun` is 0: a step
made late adds to every distance and decides nothing.

In `Gcode`, room for two blocks lets a line wait for room with moves before and
behind it. A position is 0 or 1, 2 is beyond the limits; a probe may touch
anywhere or not at all. The lines have one word or two; `want` makes every word
last, so that any state of modes is reached by some sequence of them.

In `Lines`, one client that may disconnect and come back at any time holds every
role a channel has (sender, leader, output, zombie), and two files are enough for
a file to call another, which is the least at which popping is not emptying. A
third file repeats the second. `KillDepth` 2 lets the kill queue be full, when a
killed channel is leaked, with a client and a file or with two files in it.
`Window` 2 is a line executed while another is read, the least in which a sender
does not wait. The references do not depend on what a line does except when it
nests a file, so `MCLines.cfg` has that kind alone and spends the states on
disconnections and resets. A file has one line or none (`FileLines`), which is
enough for its end to be seen before or after its last line is executed.

In `Flow` the count of a `repeat` is at most 2 and labels are the depth, so a
label is used again by blocks that follow one another. In `EspNow`, five packets
and one disturbance reach a message with a packet lost and sent again, a stop
between its packets, a window of three counts overtaken, and a slot shifted while
a packet waits in the queue. In `XModem`, five packets wrap the four numbers, which
are one more than two late answers can confuse (as `InOrder` asks), and
two faults reach the last of the three tries.

### Fairness

`Realtime`: weak fairness of the protocol task and of the step interrupt. The
task is an endless loop, or an endless wait that calls
`protocol_execute_realtime()`; the interrupt's timer runs while `awake`. Nothing
is assumed of commands: a resume or a closed door need never come.

`Lines`: weak fairness of the two tasks, endless loops with a delay that run on
different cores. That a line's wait ends (`WaitOver`) is part of it: that a held
machine does not end its wait is another module's concern. Nothing is assumed of
clients.

`Segments`: weak fairness of preparation, wake-up, interrupt and the handling of
the cycle stop, for the same reasons as in `Realtime`; a hold need not be
released. `Homing`: weak fairness of the protocol task, the interrupt and the
polling of each motor's pin. `XModem`: weak fairness of the two ends, each a loop
around a read with a time-out.

`Gcode`: strong fairness of the line's steps, of the start of a cycle and of the
stepper, which a hold or a jog cancel may disable any number of times and for a
finite time only; weak fairness of the engine's stop and the event it sends. The
operator must resume what is held or paused and reset what is critical:
`LinesEnd` says that nothing else is needed, but for a machine that a restart has
stranded: a line that synchronizes then waits until somebody resets again.

`Planner`, `Flow` and `EspNow` state safety only and assume none.

## What disagrees with the repository's own words

`ResetDiscards` (MotionControl.cpp:90). Protocol.cpp:502 explains that a reset
must not let the interrupted line go on, which would "run the very line the reset
was meant to discard", and does so for the single-block pause. A reset that is
handled while the line waits in `protocol_buffer_synchronize()`, as before a
spindle word, ends that wait and nothing else: the line goes on, its move is put
into the planner that the restart has emptied, and the main loop starts it.
`MCGcodeReset.cfg` shows it. The spindle, coolant and output words of such a line
are carried out as well. In `Realtime` the same line is what
`ResetStopsEverything` excepts.

`WellFormedAccepted` (Flowcontrol.cpp:306, 191). The o-words are "LinuxCNC-style
flowcontrol: if/else/endif, while, repeat, do"
(`examples/gcode_conditionals_test.nc:2`). A `continue` in the last round of a `repeat`
or `while` drops the block without leaving its body: the lines after it are run
once more, and the end of the loop is a syntax error. The file's own tests
(line 583) continue in a round that is not the last. A `while` ... `endwhile`
directly inside a `do` is taken for the end of the `do`, does not loop, and its
`endwhile` is a syntax error too. LinuxCNC accepts both. `MCFlowRefused.cfg` finds
the first; `strayed` names both.

The following were met while modelling. They are behaviours of the code, in the
modules where one is named, and the properties above make room for them.

Motion and protocol:

- Planner.cpp:158: the reverse pass leaves a block at its maximum entry speed
  alone; after an override lowers maxima, that speed can be more than the block
  can brake from, against guideline 1.b (Planner.cpp:89). Here `lowered`.
- Protocol.cpp:577: a reset queued before an automatic cycle start: the cycle
  starts between the reset and its restart, which then empties the planner and
  stops the stepper but leaves the state Cycle. A feed hold in it never
  completes, the "inescapable dead end" of Protocol.cpp:995-1005, and a line that
  synchronizes never ends, with nothing held and nothing critical. Here `stranded`,
  in `Gcode` `restart = "stranded"`.
- Spindles/PWMSpindle.cpp:53: the spindle is not stopped by the restart's
  `spindle->stop()`, as the abort is still on; the power that the segments of such
  a cycle have set stays. In `Gcode` `restart = "powered"`.
- Protocol.cpp:823: a feed hold leaves Critical, although Control.cpp:85 calls it
  an alarm "that only a soft reset can clear". M0 does the same. When the fault
  came while a jog was being cancelled, a cycle start then resumes the jog, and
  when it came in a parking move, `prep_buffer()` goes on with the block of a move
  that is over.
- Protocol.cpp:1410: a reset forgets the door, and an alarm in a hold leaves it
  complete. So, by `came`, most properties of `MCRealtime.cfg` say what is so until
  the first reset or fault (`RestedWhenComplete` also alarm, `JogCancelFlushes` fault
  or late line only, `RestoreCompletes` alarm or fault), while the behaviours they are
  checked on have all of them.
- Protocol.cpp:567: a synchronize returns during a hold that still decelerates,
  once the planner is empty.
- Protocol.cpp:1275: `unpark()` gets `restartRetract` by value and cannot see a
  door re-opened during its move, and turns the spindle on (Parking.cpp:149).
- Stepper.cpp:217: the interrupt recognises a block by its slot alone. A block
  resumed after a parking move has its counters set up anew in the middle of it,
  and a second parking move in the first one's slot does not, so an axis may make
  a step too many or too few, against Protocol.cpp:1065-1066.
- Stepper.cpp:345, 401-406: the parking flags outlive a block that was resumed;
  the next parking saves and restores the finished block's slot, and the next
  block is prepared with no steps left.
- Protocol.cpp:1163: a door opened in Idle with blocks planned lets the parking
  move's wake-up execute segments of the program; a `cycleStop` queued between
  the event loop and `prep_buffer()` may strand segments ("leftover").

Homing:

- Machine/Homing.cpp:93: a switch that closes in an approach is disarmed, and
  only the stop of a pull-off arms it again. After a homing that failed or was
  reset in between, the next `$H` fails its pull-off with every switch open; a
  stale phase disarms a limit on a later jog.
- Machine/Homing.cpp:253: `fail()` and then `$X` leave the parser's and the
  planner's positions as before homing, although the motors have moved.
- A reset in a settling dwell lets the next motion start until the restart; one
  in the last dwell sets the position after `gc_sync_position()`. A cycle stop of
  an approach that ends as its switch closes is handled in the next phase: with
  `homing_runs` 1 that is the pull-off, which it cuts short. The
  homing button's event (Protocol.cpp:604) looks at no state. A `~` at the end of
  a homing move makes a segment without steps. A door opened while homing leaves
  suspend bits that only a reset clears.

Lines of G-code:

- With a laser on by M3: a jog in G0 mode is made at full power and leaves it on;
  a probe refused by a probe that is tripped, and a G1 that goes nowhere, leave
  the power different from what the parser believes (GCode.cpp:1714 has a TODO).
- G-code is not refused in Critical, and is executed. `$J` is accepted behind
  blocks of a program that have not been started: the state is Jog, and a
  synchronize in a later line returns early.
- After a reset in a synchronize, the parser's spindle and coolant may be on with
  the outputs off, and `setDigital()` is applied after `all_off()`.
- Errors in step 4 (an output that does not exist, a negative tool) come after
  the words before them have been carried out. The T word is stored before M61 is
  checked. M52 shares a modal group with the parking override. M2 in check mode
  selects G54 without loading it. `limit_error()`'s feed hold cannot be reached.
- Spindles/Spindle.h:144: after `off_on_alarm` and `$X` the parser believes the
  spindle on.

Jobs and flow control:

- ProcessSettings.cpp:1371: the polling task asks whether a job runs while a
  `$SD/Run` has been taken from the queue and not nested; the client's next line
  is executed in the middle of the job, although the comment two lines above says
  the two cannot race (`Window` 2).
- Protocol.cpp:469: the line in execution reports to the leader but holds no
  reference to it; an abort by the polling task may delete it (Job.cpp:107).
- Flowcontrol.cpp: a `break` with an unknown label empties the stack and then looks
  at its top. An `endwhile` sets the position back and not the line number. Loops
  in macros do not go round (the macro of the instance has none).
- ProcessSettings.cpp:1347: an alarm in a skipped region ends the job and leaves
  the block open and the lines skipped: `$X` answers ok and does nothing, and
  later lines pass silently until a reset (`Leftovers`).

Pendants and files:

- esp32/ESPNow/ESPNowChannel.cpp:1177: `flushRx()` and `read()` both store the
  ring's tail without a lock; a read in progress brings discarded messages back.
  A flush in the middle of a push leaves half a line. A renewed session keeps the
  reassembly buffer, so that packets of two sessions may be mixed (the exception
  in `StopsHold`). The packet
  pushed out of a full queue may be a stop (line 1300), and several stops are
  taken in the reverse of their order. `removeRuntimePeer()` does not shift the
  active index.
- xmodem.cpp:355: an answer that comes after its time-out is taken for that of
  the packet sent again, and every later one for the packet after its own; if a
  packet is lost or spoilt besides, a file may be kept with it missing. A NAK for
  a packet that came short races the sender's time-out of one second, and is such
  an answer when it loses. When the answer
  to the end of the file is lost, the sender may report success for a file the
  receiver removes. When the answer to the last number before the wrap is lost,
  the packet sent again is not recognised (line 254) until the sender gives up.
- xmodem.cpp:201: a packet of which the first byte is lost or spoilt is read byte
  by byte as control characters. Each costs one of 16 retries and an answer, so
  that one such fault may end the transfer. The number of packet 4 is EOT: the
  receiver acknowledges it and keeps the truncated file, against
  FileCommands.cpp:629 ("Don't leave a truncated, incomplete file behind"), while
  the sender takes the acknowledgement for that of its packet and may in the end
  report success. `flushinput()` stops at a byte 0 (line 116) and may leave a part
  of a packet to be read in this way.

## Proofs

`PlannerProofs.tla`, for every ring size, set of moves and set of overrides that
satisfy `PlannerAssumption`:

- `RingTypeCorrect`: indices stay in the ring and the flags keep their types;
- `PlannedStaysInQueue`: `Spec => []PlannedInsideQueue`. The invariant is
  inductive together with the types, provided the ring arithmetic is known: the
  lemmas on `NextIndex`, `Ahead` and `Distance` say that advancing the tail
  shortens and advancing the head lengthens every distance by one, and a lemma on
  `Recalculate` says that the planned pointer it leaves is between the one it got
  and the last block. The case that matters is `Segment` discarding the block
  the planned pointer is at.
- `TypesCorrect`, `PlanIsOptimal`, `AccelerationKept`: `Spec => []TypeOK`,
  `Spec => []PlanOptimal` and `Spec => AccelerationBounded`. The three need one
  inductive invariant, `PInv`, since a speed is a natural only because nothing
  brakes below zero, and a plan stays optimal only because the profile reaches
  the speeds planned. Its parts:
  - `PlanKept` is about the plan as three sequences, the speeds `e` at the
    blocks' starts, what is left `l` of each and the limits `m`. Every speed is
    within its limit (`Below`), can be reached from the one before (`Climbs`) and
    braked from into the one after (`Brakes`), and is either at its limit or
    reached at full acceleration, or else leads into the next by full braking
    (`Tight`). The blocks up to `block_buffer_planned` owe theirs to limits and
    acceleration alone (`Reached`), so that nothing behind them can raise them:
    this is what entitles `planner_recalculate()` to leave them out;
  - `Stoppable`: no speed is higher than what is left of the queue allows to stop
    from, also while a hold or a lowered limit breaks the rest;
  - `Riding`: the profile of `prep_buffer()` leads from its speed to that planned
    for the next block, or to rest in a hold, or to the lower speed of an
    override; with no block in hand it is the speed the next block starts at.

  `ReplanKeeps` is the heart: both passes, over any plan that is `Replannable`
  from the planned pointer on, leave a plan that is kept, settled as far as
  the pointer is moved. `TightIsFastest` is what makes a kept plan
  optimal: from any block one gets along neighbours at full acceleration, always
  backwards or always forwards, to a limit or an end. `OptimalEntry` is the least
  of such bounds, hence equal. The passes are recursive functions, whose values
  are known only once some function is shown to satisfy their equations
  (`Recursion`, `BackExists`, `OnExists`).

`SegmentsProofs.tla`, for all numbers of slots, axes, smoothings, moves and
parking moves that satisfy `SegmentsAssumption`:

- `SegmentsTypes`: `Spec => []TypeOK`, the ring's bound and the interrupt's hold
  on its segment among it (a part of the induction; no run checks it);
- `SlotsKept`: `Spec => []SlotIntact`. That a slot is not written while a segment
  refers to it is not inductive; it follows from `Behind`: the k-th segment from
  the end of the ring refers to a slot at most k - 1 (one more with a held
  block's slot kept, `Slack`) behind the one in preparation, so that with one
  segment fewer in the ring than slots the next slot is free. A new slot is
  begun only with a new block, and a block that is prepared anew must find its
  own data (`OwnData`), over a parking move too; for that, one must know that a
  parking move is over only when the ring is empty (`EngineInv`). The invariant
  is proved action by action; `Initially`, `Inductive` and `SpecKeepsIInv` are
  its three parts.
- `PathsExact`: `Spec => []PathExact`, under `Finest >= 2`, by `PathInv` beside
  the invariant above. The segments in the ring divide what is prepared without
  gap or overlap: each begins where the one before it ends (`Chained`, `Joined`),
  the first where the interrupt is (`Front`, `Resumes`), and preparation goes on
  where the last one ends (`Back`), also when a block is prepared anew after a
  hold or taken up again after parking. Within a segment the counters and the
  steps made satisfy Bresenham's equation (`Level`), which a change of smoothing
  between two segments of a block must keep, and blocks not begun are untouched
  (`Fresh`, `Ahead`). As in `PathExact`, nothing is said of a path that a parking
  move disturbed (`Flags`, `ParkCut`; see the hazards). The assumption is
  needed: were step events never divided, `Finest = 1`, the counters would start
  at half a single event, a block of one event would make no step, and TLC finds
  the theorem false. The code's `maxAmassLevel` of 3 makes it 8.

`RealtimeProofs.tla`, for all sets of commands and lines and all bounds:

- `NothingRunsAfterReset`: `Spec => []ResetStopsEverything`. `ResetInv` says that
  from the restart on nothing is prepared or planned, the stepper and the spindle are
  off, and the only segments that could still be prepared are those of a pass that
  is on its way out; with a line that goes on, that what is planned, prepared and
  queued is together no more than its one motion (`OwnMotion`);
- `CancelledJogsGo`: `Spec => JogCancelFlushes`, an action property. The cancel may
  still be noted in Alarm, Sleep and Idle (`CancelNoted`), so one must know that when
  it is noted in Idle the jog is gone (`CancelStale`), which needs that a restart is
  handled before the events are left (`RestartFirst`) and that nothing parks outside
  the suspend loop (`Placed`, an invariant of its own, with no condition);
- `DoorStopsUse`, `SpindleStaysOff`, `EngineStaysAlive`, `HoldsEscapable`:
  `Spec => []DoorBlocksUse`, `[]SpindleOffAtDoor`, `[]EngineAlive` and
  `[]HoldEscapable`. None is inductive. Their invariants hold until the first reset or
  fault, which no step undoes (`CameStays`). `DoorSeen` follows an open door from
  its pin over the queue to the suspend bits, `AjarAt` and `RetractedAt` say in
  which states the bits may be left, `RestoreOnly` that with a restore not asked
  for the spindle's return move is not under way; `MotionAlive` excepts the
  moment between a start and its wake-up, `HoldHolds` says that a hold is complete
  or decelerates, `HoldAtRest` that one whose stepper is off is complete;
- `RestsWhenComplete`: `Spec => []RestedWhenComplete`, until the first alarm too (an
  alarm leaves a motion running). The stepper reports once and
  is not woken before its report is handled (`ReportedOnce`), what starts a
  motion finds the machine at rest (`StartsFromRest`, `IdleRests`, `HoldRests`),
  and a system motion is one of parking's (`ParkMotion`).

Every one of these invariants held in TLC's runs before it was proved.

`LinesProofs.tla`, for all sets of clients, files, kinds of line and faults, and
all bounds that satisfy `LinesAssumption`:

- `ReferencesCounted`: `Spec => []RefsHeld`. By itself it is not inductive: a
  reference is handed on, so the place it is handed to must be known to be free.
  The invariant `Counts` adds that the protocol task holds no channel while it
  receives or ends its pass, that the queue is empty when a line is offered to
  it from the job, and that there is no leader without a job. It needs nothing
  about which channels exist;
- `TypesKept`, `NoDanglingChannel`: `Spec => []TypeOK` and `[]HeldChannelsLive`,
  from `HeldInv`, which builds on `Counts`: a channel is deleted when nothing is
  counted, so the counts must be known before anything is said of pointers.
  `Reaping` adds what the reaper may take for granted: what it is about to
  delete is neither registered nor in a job, and no file is in a job twice. What deregistering leaves
  of the registry is a recursive function of it, and that it keeps no dead channel
  is proved by induction over the registry. The library's induction theorems cannot be used here (they take
  an operator), so `Least`, `Induction` and `Recursion` state the same for sets
  of naturals;
- `JobHasMachine`: `Spec => []JobOwnsMachine`, assuming that there are no resets
  and `OneAtATime`: one sender, with one line under way. Both are needed: a second
  line of the client that starts a job can be received behind the first, and after
  a reset the job's flags are read late. (The code's clients send one line at a
  time or not, as they like.) The polling task decides whose turn it is in one
  step and acts in others, and `OwnInv` says why what it saw still holds: only a
  line of the innermost file can nest one, one such line is in flight at most
  (`OwnLines`), and while it is, the file is not read (`JobRead`, `NotInFlight`). A job
  that is aborted may leave a line behind, which is dropped, as its file is
  closing, or refused, as the machine is in alarm (`Aborted`, `Orphans`);
- `FilesRunAsCalls`: `Spec => RunsAsCalls` under the same assumptions: the
  refinement of `Interpreter`. A lemma for each of Interpreter's actions (`StepOf`,
  `CallOf`, ...) says which change of the mapped state is that action; `PollingCalls`,
  `ProtocolCalls` and `OutsideCalls` then map every step to one of them or to
  none. `CallInv` adds what the mapping needs: no file on the stack is closing,
  and one found at its end is still at its end when it is unnested.

`GcodeProofs.tla`, for every set of lines and places, any room in the planner,
and a mill or a laser, that satisfy `LinesAssumption`; for operators who are
`Careful` and without `MidLineReset`, that is, without the behaviours listed above
but with the cycles that start between a reset and its restart:

- `MovesAsAsked`: `Spec => CutsAsAsked`, an action property;
- `PositionAlwaysKnown`, `MachineAlwaysKnown`: `Spec => []PositionKnown` and
  `[]ParserKnowsMachine`. The three share one invariant, `Kept`: `Inv`, and between
  a reset and its restart `Halted`, which is what the restart needs to make `Inv`
  true again (the outputs are off, and the line in progress has only to end).
  `AsAsked` says
  that every planned move would be made now as it was asked for, which is so
  only if no output changes while a move is planned; that a line which changes one
  has waited is in `Promised` (what is wanted, what the parser notes and what
  the outputs are may differ only by the words of the line not yet carried out)
  and in `OneKind` and `LineKind` (a jog is not planned behind a program's moves, nor
  the other way round, or a synchronize could return early). `Located` and
  `PowerLeft` say the same of the end of the queue: where the machine will be and
  with what power, but for a probe on its way and a laser in M4 that the stop
  turns off.

`HomingProofs.tla`, for all axes, motors, distances, requests, commands and
starting places that satisfy `HomingAssumption`:

- `SwitchesHold`: `Spec => []NeverPastSwitch`. By itself it is not inductive: that
  a carriage stops needs that its switch is watched, or has been seen, when it is
  met. `NeverInv` says that a pin not watched has been seen closed, with no
  report of it on the way (`Watched`); that in an approach such a motor stands
  still on its switch (`Closed`), and a motor that steps was not limited by
  a stale report (`Noticed`, `Late`, on the order of reports and starts in the
  event queue); and that a phase that is no approach ends with every switch of the
  cycle open (`Opened`), so that the approach after it starts with all pins armed.
  The last dwell polls every pin and handles the reports (`Quiet`); an abort
  leaves an alarm in the queue (`Interrupted`), so that a cycle broken off starts
  no phase;
- `HomedWhereMeant`: `Spec => []HomedAtSwitch`, for two homing runs or more (the
  default is two, the setting's range one to five). `HomedInv`, on top of `NeverInv`:
  the slow approach starts no higher than the pull-off (`SlowLow`) and goes down
  further (`SlowLeft`), so it cannot run dry and has sent no `cycleStop`
  (`SlowQueue`) when the last switch closes; from there every pull-off leads each
  motor to within `Overrun` below its target (`UnderWay`), the second one with the
  motors blocked that have arrived (`BlockedLast`); and when a `cycleStop` is
  first in the queue, without an alarm before it, the steps were all made
  (`Arrived`). With one run the pull-off follows the fast approach, which may run
  dry: then the theorem is false, as noted above.

What a step does to the event queue is stated by predicates of the queue (`Queued`,
`Has`, `Behind`, `Unled`), with a lemma for taking and for adding an event; the
actions' proofs use these and no index.

`XModemProofs.tla`, for all files, sizes of packets, numbers of tries and faults
that satisfy `XModemAssumption`:

- `BlocksInOrder`: `Spec => []InOrder`, with no condition on the constants; `InOrder`
  itself holds as long as `Extra`, the number of answers that no packet waits for,
  is at least two less than that of packet numbers. Sender and receiver each stand at a block of the file,
  the receiver at most one ahead; the packets between them hold blocks in order;
  and there is one message on the way, with one more for each answer that came
  too late or was one to a byte of a rest, which also bounds how far the sender is
  ahead (`Matching`). So the
  blocks that a packet on its way may hold are fewer than the numbers, and a
  number that fits is that of the block that fits. The code's 256
  numbers allow 254 such answers in one transfer;
- `KeptIsWhole`: `Spec => []KeptWhole`, with no condition on the constants. As long
  as no answer was late and none was to a byte of a rest, the end is sent once the
  receiver has everything.

`LateLosesNothing` and `Recovers` are only model-checked.

`EspNowProofs.tla`, for all pendants, rosters and bounds that satisfy
`EspNowAssumption`, all widths of the window and all orders in which the radio
loses, repeats and delivers:

- `NothingTwice`: `Spec => []AtMostOnce`. A count is spent in a slot if it has
  been seen or is too old for the window. Spent counts stay spent as long as the
  slot keeps its nonce, although the window forgets them; a new nonce was never
  given before; so every packet that is in a slot or in something taken
  (`OnceInv`) is spent in the one slot that has its nonce.
- `TakenOnlyFromOwner`: `Spec => []TakenFromOwner`. A packet may wait in the
  queue while its slot goes to another pendant. But a nonce is in one slot only,
  only its owner is told it, and only who was told it sends with it: whoever
  holds a nonce, on the air, in an answer or in a slot, is the same pendant
  (`OwnInv`).
- `NothingAfterStop`: `Spec => []StopsHold`, and `MessagesAsSent`:
  `Spec => []MessagesWhole`. A packet is of a session, which is of one run of one
  pendant (`OneRun`), and its number is its message's, whose packets' counts are
  in a row (`OneSend`, `OneMessage`, `OneCount`). So what is gathered in a slot
  for one session and number is of one message. A stop taken leaves a barrier in
  its slot, and what is taken there later has a higher count, however many
  packets were queued in front of it (`BarsBefore`).
- All rest on `EspNowInvariant` and on one lemma, `NextStep`: every step of
  every actor leaves the slots as one of two predicates says, `Quiet` (slots keep
  their sessions or get new nonces, what was gathered is kept or dropped) or
  `Busy` (a packet is accepted, which spends its count). The code draws nonces at
  random and seals packets with the pairing's key; that no nonce is drawn twice
  and that no packet is forged is assumed by the model.

Only model-checked: `RunsAsBlocks` and `RefusedOnlyAstray`, whose mappings
fold over programs, so that a proof would be an induction over their structure;
and every liveness property, `HomingEnds`,
`DoorParks` and `RestoreCompletes` among them, as fairness and ENABLED
are beyond the prover.

## Plan

Done: `Planner`, `Realtime`, `Lines` over `Interpreter`, `Segments`, `Homing`,
`EspNow`, `XModem`, `Flow` over `Blocks`, `Gcode`, and the proofs above.

To come, in this order:

1. The VFD spindle's command task (Spindles/VFD/VFDProtocol.cpp): retries that
   are exhausted raise no alarm, a disable empties the queue of a start behind
   it, a full queue of ten drops a stop that is not sent again, and `setState()`
   notes the state before the drive has acknowledged it.
2. In `Lines`: macros run from events, single block, what a reset discards.
3. In `Homing` and `Gcode`: hard limits, `probe.hard_stop`, tool changes.

## Not modelled

Kinematics but for Cartesian's homing moves (floating-point geometry, out of
TLC's reach), motor and bus drivers, pin extenders, parsers of the configuration,
settings, expressions and parameters (sequential and pure), reports, web server,
file systems, and the board support under `FluidNC/esp32`, `rp2040`, `posix`,
`wasm` and `win32`, much of it third-party. These make up most of the
repository's lines and little of the behaviour that is hard to test.
