------------------------------- MODULE Gcode -------------------------------
(* One line of G-code from the parser to the machine (GCode.cpp, step 4), with the motion control *)
(* under it.  The parser runs ahead of the machine: it keeps its own modes and position, plans    *)
(* blocks that are executed later, and waits for the machine only where a word must not take      *)
(* effect early.  Events (resets, holds, a cycle's end) are handled only while it waits.          *)
(*                                                                                                *)
(* A line is [jog, mode, to, spindle, speed, coolant, out, flow], "keep" and None being the words *)
(* it has not got.  Left out: arcs, G28/G30, tool changes, offsets, dwells, M64 and M65, check    *)
(* mode, what a spindle-stop override does in a hold, and the commands but for another reset that *)
(* come between a reset and its restart, or while the machine is stranded: Realtime has them.     *)
EXTENDS Integers, Sequences, TLC

CONSTANTS
    Lines,          \* the lines a sender may send
    Places,         \* the positions inside the soft limits, an interval
    Room,           \* the blocks the planner's buffer holds
    Careful,        \* whether the operator keeps to the rules of PaysAttention
    MidLineReset    \* a reset may be handled while a line synchronizes

None == -1

\* A jog has no mode words, and what constrain_jog() leaves of it is inside the limits.
ASSUME LinesAssumption ==
    /\ Lines \subseteq
          [jog : BOOLEAN, mode : {"seek", "feed", "probe", "keep"}, to : Nat \cup {None},
           spindle : {"off", "cw", "ccw", "keep"}, speed : Nat \cup {None},
           coolant : {"off", "on", "keep"}, out : {"on", "off", "bad", "none"},
           flow : {"none", "pause", "end"}]
    /\ \A line \in Lines : line.jog => line.to \in Places /\ line.mode = "keep"
ASSUME RoomAssumption == Room \in Nat \ {0}
ASSUME PlacesAssumption == 0 \in Places /\ Places \subseteq Nat
ASSUME SwitchesAssumption == Careful \in BOOLEAN /\ MidLineReset \in BOOLEAN

VARIABLES
    laser,      \* spindle->isRateAdjusted()
    gc,         \* gc_state
    planned,    \* pl.position
    queue,      \* the planner's blocks
    machine,    \* what the outputs and the axes really are
    state,      \* sys.state()
    awake,      \* whether the step engine runs
    phase,      \* how far the line has got, "idle" between lines
    block,      \* gc_block
    abort,      \* sys.abort()
    restart,    \* what a reset has left to do: see Restart
    cancelling, \* suspend.bit.jogCancel
    inflight,   \* mc_pl_data_inflight
    probing,
    want        \* what the lines taken so far ask for: see Wanted

vars == <<laser, gc, planned, queue, machine, state, awake, phase, block, abort, restart, cancelling,
          inflight, probing, want>>
lineVars == <<phase, block, inflight, probing, want>>
engineVars == <<queue, planned, awake>>

Modes == [spindle |-> "off", speed |-> 0, coolant |-> "off", mode |-> "seek", out |-> "off"]
Initial(pos) ==
    [spindle |-> "off", speed |-> 0, coolant |-> "off", mode |-> "seek", pos |-> pos]
Rest(pos) == [power |-> 0, spindle |-> "off", coolant |-> "off", out |-> "off", pos |-> pos]

Between(p, q) == {x \in Places : (p <= x /\ x <= q) \/ (q <= x /\ x <= p)}
Merge(new, old) == IF new = "keep" THEN old ELSE new

\* Where the step engine is going.
Target == IF queue = <<>> THEN machine.pos ELSE Head(queue).to

-----------------------------------------------------------------------------
(* The machine: the step engine, and the state machine's part of its start and end. *)

\* protocol_exec_rt_suspend() keeps the task until the hold is resumed or the jog's end handled.
Suspended == state = "Hold" \/ cancelling

\* protocol_auto_cycle_start() and the event it sends, which a jog's cycleStop may go before.
Starts ==
    /\ queue # <<>>
    /\ state = "Idle" \/ (state = "Jog" /\ ~awake /\ ~cancelling /\ restart # "stranded")
Running(blocks) == IF Head(blocks).jog THEN "Jog" ELSE "Cycle"

\* spindle->setState(), which does nothing during an abort.
Driven(spindle, speed) ==
    IF abort THEN machine
    ELSE [machine EXCEPT !.spindle = spindle,
                         !.power = IF spindle = "off" \/ (laser /\ spindle = "ccw") THEN 0 ELSE speed]

\* One block is executed; its segments carry its own spindle speed.
RunBlock ==
    /\ awake /\ queue # <<>>
    /\ phase = "probing" => probing
    /\ machine' = [machine EXCEPT !.pos = Head(queue).to, !.power = Head(queue).power]
    /\ queue' = Tail(queue)
    /\ UNCHANGED <<laser, gc, planned, state, awake, phase, block, abort, restart, cancelling, inflight,
                   probing, want>>

\* A laser in M4 goes off with the last step.
StoppedAt(pos) ==
    [machine EXCEPT !.pos = pos,
                    !.power = IF laser /\ machine.spindle = "ccw" /\ state # "Jog" THEN 0 ELSE @]

\* The segments run out: no block is left, or the machine has slowed down for a hold, a cancelled
\* jog or the probe's contact.
EngineStops ==
    /\ awake /\ restart # "queued"
    /\ queue = <<>> \/ Suspended \/ (phase = "probing" /\ ~probing)
    /\ awake' = FALSE
    /\ \E pos \in Between(machine.pos, Target) : machine' = StoppedAt(pos)
    /\ UNCHANGED <<laser, gc, planned, queue, state, phase, block, abort, restart, cancelling, inflight,
                   probing, want>>

-----------------------------------------------------------------------------
(* Where the line in progress waits, and so where events are handled. *)

DisablesLaser == laser /\ block.mode # "feed"
LaserIsMotion == laser /\ block.to # None
\* Mistaken: only the way out of the cutting modes counts.
SyncsLaserLeaving ==
    laser /\ ~LaserIsMotion /\ gc.spindle = "cw" /\ gc.mode = "feed" /\ block.mode # "feed"
SyncsLaser ==
    laser /\ ~LaserIsMotion /\ gc.spindle = "cw" /\ (gc.mode = "feed") # (block.mode = "feed")

SetsSpeed ==
    /\ gc.speed # block.speed \/ SyncsLaser
    /\ gc.spindle # "off"
    /\ ~LaserIsMotion
SetsSpindle == gc.spindle # block.spindle
SetsCoolant == block.coolant # "keep"
SetsOutput == block.out \in {"on", "off"}
Probes == block.to # None /\ block.mode = "probe" /\ ~block.jog
OutOfLimits == block.to # None /\ block.to \notin Places

\* A phase in which the line is in protocol_buffer_synchronize().
Synchronizing ==
    \/ phase = "speed" /\ SetsSpeed
    \/ phase = "spindle" /\ SetsSpindle
    \/ phase = "coolant" /\ SetsCoolant
    \/ phase = "io" /\ SetsOutput
    \/ phase = "motion" /\ (Probes \/ OutOfLimits)
    \/ phase = "flow" /\ block.flow # "none"

Synced == abort \/ (queue = <<>> /\ state # "Cycle" /\ ~Suspended)

Polling == phase \in {"idle", "room", "probing", "end"} \/ Synchronizing

\* Mistaken: nothing is started for a line that waits for room.
AutoStartSynced ==
    /\ restart # "queued"
    /\ phase = "idle" \/ Synchronizing
    /\ Starts
    /\ state' = Running(queue)
    /\ awake' = TRUE
    /\ UNCHANGED <<laser, gc, planned, queue, machine, block, phase, abort, restart, cancelling, inflight,
                   probing, want>>

AutoStart ==
    /\ restart # "queued"
    /\ phase \in {"idle", "room"} \/ Synchronizing
    /\ Starts
    /\ state' = Running(queue)
    /\ awake' = TRUE
    /\ UNCHANGED <<laser, gc, planned, queue, machine, block, phase, abort, restart, cancelling, inflight,
                   probing, want>>

\* No restart is to come, and none has left the state without its engine.
Heard == restart \in {"none", "powered"}

\* protocol_do_cycle_stop(), outside a hold.
CycleStop ==
    /\ Polling /\ Heard
    /\ ~awake /\ state \in {"Cycle", "Jog"}
    /\ state' = "Idle"
    /\ cancelling' = FALSE
    /\ IF cancelling
       THEN /\ queue' = <<>>
            /\ gc' = [gc EXCEPT !.pos = machine.pos]
            /\ planned' = machine.pos
       ELSE UNCHANGED <<queue, gc, planned>>
    /\ UNCHANGED <<laser, machine, awake, abort, restart, lineVars>>

FeedHold ==
    /\ Polling /\ Heard /\ ~Suspended
    /\ state \in {"Idle", "Cycle"} \/ (state = "Critical" /\ ~Careful)
    /\ state' = "Hold"
    /\ UNCHANGED <<laser, gc, machine, abort, restart, cancelling, engineVars, lineVars>>

\* protocol_do_cycle_start() in a hold that is complete.
CycleStart ==
    /\ Heard
    /\ state = "Hold" /\ ~awake
    /\ LET moves == queue # <<>> /\ ~(phase = "probing" /\ ~probing)
       IN /\ state' = IF moves THEN Running(queue) ELSE "Idle"
          /\ awake' = moves
    /\ UNCHANGED <<laser, gc, planned, queue, machine, abort, restart, cancelling, lineVars>>

\* A jog that waits for room is dropped with the ones in the buffer.
JogCancel ==
    /\ Polling /\ Heard
    /\ state = "Jog" /\ awake /\ ~cancelling
    /\ cancelling' = TRUE
    /\ inflight' = (inflight /\ ~block.jog)
    /\ UNCHANGED <<laser, gc, machine, state, abort, restart, engineVars, phase, block, probing, want>>

\* protocol_do_rt_reset(): the outputs go off, and the restart is queued behind whatever has been
\* queued meanwhile.  Power that the last restart has left goes off only if that reset's abort is
\* over.  Whether a machine in Critical is homed is left open.
Reset ==
    /\ Polling /\ restart # "queued"
    /\ Synchronizing => MidLineReset \/ phase \in {"motion", "flow"}
    /\ state' \in IF state \in {"Cycle", "Jog", "Alarm"} \/ awake THEN {"Alarm"}
                 ELSE IF state = "Critical" THEN {"Alarm", "Idle"} ELSE {"Idle"}
    /\ \E pos \in IF awake THEN Between(machine.pos, Target) ELSE {machine.pos},
          power \in IF abort THEN {machine.power}
                   ELSE IF restart = "none" THEN {0} ELSE {0, machine.power} :
         machine' = [Rest(pos) EXCEPT !.power = power]
    /\ awake' = FALSE
    /\ abort' = (phase # "idle")
    /\ restart' = "queued"
    /\ block' = [block EXCEPT !.stale = phase # "idle"]
    /\ UNCHANGED <<laser, gc, planned, queue, phase, cancelling, inflight, probing, want>>

\* A cycle start that was queued behind the reset, as protocol_auto_cycle_start() does.
StartBehind ==
    /\ restart = "queued"
    /\ state = "Idle" /\ queue # <<>>
    /\ state' = Running(queue)
    /\ awake' = TRUE
    /\ UNCHANGED <<laser, gc, planned, queue, machine, abort, restart, cancelling, lineVars>>

(* protocol_do_soft_restart(): the planner, the parser and the engine are cleared.  The state is  *)
(* not, so a cycle that has started behind the reset is "stranded" in it, unless its segments ran *)
(* out before, and then its cycleStop is queued behind the restart.  Power that its segments have *)
(* turned on stays on, as setState() does nothing in an abort: the machine is "powered".          *)
Restart ==
    /\ restart = "queued"
    /\ \E pos \in IF awake THEN Between(machine.pos, Target) ELSE {machine.pos},
          power \in {machine.power} \cup {queue[i].power : i \in IF awake THEN DOMAIN queue \cap {1} ELSE {}} :
         /\ machine' = [machine EXCEPT !.pos = pos, !.power = power]
         /\ gc' = Initial(pos)
         /\ planned' = pos
         /\ restart' \in {IF power = 0 THEN "none" ELSE "powered"} \cup (IF awake THEN {"stranded"} ELSE {})
    /\ queue' = <<>>
    /\ awake' = FALSE
    /\ cancelling' = FALSE /\ probing' = FALSE /\ inflight' = FALSE
    /\ want' = Modes
    /\ UNCHANGED <<laser, state, phase, block, abort>>

\* $X, and the main loop's start of what is planned.
Unlock ==
    /\ Heard
    /\ phase = "idle" /\ state = "Alarm"
    /\ state' = IF queue = <<>> THEN "Idle" ELSE Running(queue)
    /\ awake' = (queue # <<>>)
    /\ UNCHANGED <<laser, gc, planned, queue, machine, abort, restart, cancelling, lineVars>>

-----------------------------------------------------------------------------
(* The line, in the order of execution. *)

NoLine ==
    [jog |-> FALSE, mode |-> "keep", to |-> None, spindle |-> "keep", speed |-> None,
     coolant |-> "keep", out |-> "none", flow |-> "none"]
Fresh(line) ==
    [jog |-> line.jog, mode |-> line.mode, to |-> line.to, spindle |-> line.spindle,
     speed |-> line.speed, coolant |-> line.coolant, out |-> line.out, flow |-> line.flow,
     stale |-> FALSE]
Parsed(line) == [Fresh(line) EXCEPT !.mode = Merge(@, gc.mode), !.spindle = Merge(@, gc.spindle),
                                    !.speed = IF @ = None THEN gc.speed ELSE @]

(* What the program asks for from this line on.  An output that does not exist ends the line      *)
(* there, when its speed, spindle and coolant words have been carried out.                        *)
Wanted(line) ==
    [spindle |-> Merge(line.spindle, want.spindle),
     speed |-> IF line.speed = None THEN want.speed ELSE line.speed,
     coolant |-> Merge(line.coolant, want.coolant),
     mode |-> IF line.out = "bad" THEN want.mode ELSE Merge(line.mode, want.mode),
     out |-> IF line.out \in {"on", "off"} THEN line.out ELSE want.out]

(* An operator who pays attention sends no line while the state is Critical, does not jog behind  *)
(* moves of a program that are still to be made, neither jogs a laser that is on nor probes with  *)
(* one, and writes neither M0 on the line of a move beyond the limits nor an output that does not *)
(* exist on a line that leaves a laser on.  A machine that a restart has left powered is reset    *)
(* again first.                                                                                   *)
PaysAttention(line) ==
    /\ restart # "powered"
    /\ IF line.jog
       THEN ~(laser /\ gc.spindle # "off") /\ \A i \in DOMAIN queue : queue[i].jog
       ELSE /\ state # "Critical"
            /\ ~(laser /\ line.mode = "probe")
            /\ line.flow = "pause" => line.to \in Places \cup {None}
            /\ laser /\ line.out = "bad" => Merge(line.spindle, gc.spindle) = "off"

\* A move to where the parser already is has no steps and is left out.
Begin(line) ==
    /\ restart # "queued"
    /\ phase = "idle" /\ ~Suspended
    /\ IF line.jog THEN state \in {"Idle", "Jog"} ELSE state \notin {"Alarm", "Jog"}
    /\ Careful => PaysAttention(line)
    /\ line.to # gc.pos
    /\ block' = Parsed(line)
    /\ phase' = IF line.jog THEN "motion" ELSE "speed"
    /\ want' = IF line.jog THEN want ELSE Wanted(line)
    /\ UNCHANGED <<laser, gc, machine, state, abort, restart, cancelling, engineVars, inflight, probing>>

SetSpeed ==
    /\ phase = "speed"
    /\ SetsSpeed => Synced
    /\ machine' = IF SetsSpeed THEN Driven(gc.spindle, IF DisablesLaser THEN 0 ELSE block.speed)
                  ELSE machine
    /\ gc' = [gc EXCEPT !.speed = block.speed]
    /\ phase' = "spindle"
    /\ UNCHANGED <<laser, state, abort, restart, cancelling, engineVars, block, inflight, probing, want>>

\* pl_data->spindle_speed
LineSpeed == IF DisablesLaser THEN 0 ELSE gc.speed

\* The coolant is noted before the line waits for it.
SetSpindle ==
    /\ phase = "spindle"
    /\ SetsSpindle => Synced
    /\ machine' = IF SetsSpindle THEN Driven(block.spindle, LineSpeed) ELSE machine
    /\ gc' = [gc EXCEPT !.spindle = block.spindle, !.coolant = Merge(block.coolant, @)]
    /\ phase' = "coolant"
    /\ UNCHANGED <<laser, state, abort, restart, cancelling, engineVars, block, inflight, probing, want>>

\* Mistaken: the moves before the word are not waited for.
SetCoolantAtOnce ==
    /\ phase = "coolant"
    /\ machine' = IF SetsCoolant /\ ~abort THEN [machine EXCEPT !.coolant = gc.coolant] ELSE machine
    /\ phase' = "io"
    /\ UNCHANGED <<laser, gc, state, abort, restart, cancelling, engineVars, block, inflight, probing, want>>

SetCoolant ==
    /\ phase = "coolant"
    /\ SetsCoolant => Synced
    /\ machine' = IF SetsCoolant /\ ~abort THEN [machine EXCEPT !.coolant = gc.coolant] ELSE machine
    /\ phase' = "io"
    /\ UNCHANGED <<laser, gc, state, abort, restart, cancelling, engineVars, block, inflight, probing, want>>

\* M62 and M63.  Nothing blocks setDigital() during an abort.
SetOutput ==
    /\ phase = "io"
    /\ SetsOutput => Synced
    /\ machine' = IF SetsOutput THEN [machine EXCEPT !.out = block.out] ELSE machine
    /\ gc' = IF block.out = "bad" THEN gc ELSE [gc EXCEPT !.mode = block.mode]
    /\ phase' = IF block.out = "bad" THEN "end"
                ELSE IF block.to = None THEN "flow" ELSE "motion"
    /\ UNCHANGED <<laser, state, abort, restart, cancelling, engineVars, block, inflight, probing, want>>

\* What the block is to be executed with, for the properties: want, as a machine's outputs.
Asked(w) == [spindle |-> w.spindle, coolant |-> w.coolant, out |-> w.out,
             power |-> IF w.spindle = "off" \/ (laser /\ w.mode # "feed") THEN 0 ELSE w.speed]

Move ==
    [to |-> block.to, jog |-> block.jog, stale |-> block.stale, asked |-> Asked(want),
     power |-> IF gc.spindle = "off" THEN 0 ELSE IF block.jog THEN gc.speed ELSE LineSpeed]

\* limit_error()
Refuse ==
    /\ phase = "motion" /\ ~Probes /\ OutOfLimits
    /\ Synced
    /\ state' = "Critical"
    /\ gc' = IF abort THEN gc ELSE [gc EXCEPT !.pos = block.to]
    /\ phase' = IF abort THEN "end" ELSE "flow"
    /\ UNCHANGED <<laser, machine, abort, restart, cancelling, engineVars, block, inflight, probing, want>>

\* mc_move_motors(): the buffer is full.
WaitForRoom ==
    /\ phase = "motion" /\ ~Probes /\ ~OutOfLimits
    /\ Len(queue) = Room
    /\ phase' = "room"
    /\ inflight' = TRUE
    /\ UNCHANGED <<laser, gc, machine, state, abort, restart, cancelling, engineVars, block, probing, want>>

\* Mistaken: a move that was dropped counts as made.
BailAtTarget ==
    /\ phase = "room"
    /\ abort \/ (~inflight /\ ~Suspended)
    /\ phase' = "end"
    /\ inflight' = FALSE
    /\ gc' = [gc EXCEPT !.pos = block.to]
    /\ UNCHANGED <<laser, machine, state, abort, restart, cancelling, engineVars, block, probing, want>>

Bail ==
    /\ phase = "room"
    /\ abort \/ (~inflight /\ ~Suspended)
    /\ phase' = "end"
    /\ inflight' = FALSE
    /\ UNCHANGED <<laser, gc, machine, state, abort, restart, cancelling, engineVars, block, probing, want>>

\* Without a wait the abort flag is looked at only when the move is in the buffer.
Plan ==
    /\ \/ phase = "motion" /\ ~Probes /\ ~OutOfLimits
       \/ phase = "room" /\ inflight /\ ~abort /\ ~Suspended
    /\ Len(queue) < Room
    /\ queue' = Append(queue, Move)
    /\ planned' = block.to
    /\ gc' = IF abort THEN gc ELSE [gc EXCEPT !.pos = block.to]
    /\ phase' = IF abort \/ block.jog THEN "end" ELSE "flow"
    /\ inflight' = FALSE
    /\ UNCHANGED <<laser, machine, state, awake, abort, restart, cancelling, block, probing, want>>

\* mc_probe_cycle() up to its wait.
StartProbe ==
    /\ phase = "motion" /\ Probes
    /\ Synced
    /\ \/ /\ abort
          /\ phase' = "end"
          /\ UNCHANGED <<state, probing, engineVars>>
       \/ /\ ~abort                          \* the probe is already tripped
          /\ state' = "Alarm"
          /\ phase' = "flow"
          /\ UNCHANGED <<probing, engineVars>>
       \/ /\ ~abort
          /\ phase' = "probing" /\ probing' = TRUE
          /\ IF OutOfLimits
             THEN state' = "Critical" /\ UNCHANGED engineVars
             ELSE /\ queue' = <<Move>> /\ planned' = block.to
                  /\ awake' = (state = "Idle")
                  /\ state' = IF state = "Idle" THEN "Cycle" ELSE state
    /\ UNCHANGED <<laser, gc, machine, abort, restart, cancelling, block, inflight, want>>

Contact ==
    /\ restart # "queued"
    /\ phase = "probing" /\ probing /\ awake
    /\ probing' = FALSE
    /\ UNCHANGED <<laser, gc, machine, state, abort, restart, cancelling, engineVars, phase, block, inflight, want>>

\* A probe that meets nothing raises an alarm, unless it is G38.3 or G38.5.
ProbeEnds ==
    /\ phase = "probing" /\ ~Suspended
    /\ \/ /\ abort
          /\ phase' = "end"
          /\ UNCHANGED <<gc, state, probing, engineVars>>
       \/ /\ ~abort /\ state = "Idle"
          /\ phase' = "flow"
          /\ state' \in IF probing THEN {"Idle", "Alarm"} ELSE {"Idle"}
          /\ gc' = [gc EXCEPT !.pos = IF probing THEN block.to ELSE machine.pos]
          /\ queue' = <<>> /\ planned' = machine.pos /\ awake' = FALSE
          /\ probing' = FALSE
    /\ UNCHANGED <<laser, machine, abort, restart, cancelling, block, inflight, want>>

Continue ==
    /\ phase = "flow" /\ block.flow = "none"
    /\ phase' = "end"
    /\ UNCHANGED <<laser, gc, machine, state, abort, restart, cancelling, engineVars, block, inflight, probing, want>>

\* M0: the hold of an idle machine is complete at once.
Pause ==
    /\ phase = "flow" /\ block.flow = "pause"
    /\ Synced
    /\ state' = IF state = "Alarm" THEN state ELSE "Hold"
    /\ phase' = "end"
    /\ UNCHANGED <<laser, gc, machine, abort, restart, cancelling, engineVars, block, inflight, probing, want>>

\* M2 and M30
ProgramEnd ==
    /\ phase = "flow" /\ block.flow = "end"
    /\ Synced
    /\ gc' = [gc EXCEPT !.spindle = "off", !.coolant = "off", !.mode = "feed"]
    /\ want' = [want EXCEPT !.spindle = "off", !.coolant = "off", !.mode = "feed"]
    /\ machine' = IF abort THEN machine
                  ELSE [machine EXCEPT !.spindle = "off", !.power = 0, !.coolant = "off"]
    /\ phase' = "end"
    /\ UNCHANGED <<laser, state, abort, restart, cancelling, engineVars, block, inflight, probing>>

\* The main loop: the moves are started, events are handled, and the reset has been heard.
EndLine ==
    /\ phase = "end"
    /\ abort \/ ~Suspended
    /\ phase' = "idle"
    /\ block' = Fresh(NoLine)
    /\ abort' = FALSE
    /\ state' = IF Starts THEN Running(queue) ELSE state
    /\ awake' = (awake \/ Starts)
    /\ UNCHANGED <<laser, gc, machine, restart, cancelling, queue, planned, inflight, probing, want>>

-----------------------------------------------------------------------------
Init ==
    /\ laser \in BOOLEAN
    /\ gc = Initial(0) /\ planned = 0 /\ machine = Rest(0)
    /\ queue = <<>> /\ awake = FALSE
    /\ state = "Idle" /\ abort = FALSE /\ restart = "none" /\ cancelling = FALSE
    /\ phase = "idle" /\ block = Fresh(NoLine)
    /\ inflight = FALSE /\ probing = FALSE
    /\ want = Modes

Executes ==
    /\ restart # "queued"
    /\ \/ SetSpeed \/ SetSpindle \/ SetCoolant \/ SetOutput
       \/ Refuse \/ WaitForRoom \/ Bail \/ Plan \/ StartProbe \/ ProbeEnds
       \/ Continue \/ Pause \/ ProgramEnd \/ EndLine
Operator == FeedHold \/ CycleStart \/ JogCancel \/ Reset \/ Unlock

Next ==
    \/ \E line \in Lines : Begin(line)
    \/ Executes \/ Operator \/ Contact
    \/ AutoStart \/ RunBlock \/ EngineStops \/ CycleStop
    \/ StartBehind \/ Restart

(* The task goes on and the engine runs, however often the operator holds them; the operator      *)
(* resumes what is held and resets what is critical.                                              *)
Fairness ==
    /\ SF_vars(Executes) /\ SF_vars(AutoStart) /\ SF_vars(RunBlock)
    /\ WF_vars(EngineStops) /\ WF_vars(CycleStop) /\ WF_vars(Restart)
    /\ WF_vars(CycleStart)
    /\ WF_vars(state = "Critical" /\ Reset)

Spec == Init /\ [][Next]_vars /\ Fairness

-----------------------------------------------------------------------------
(* A move is made with the spindle, its speed, the coolant and the outputs that the program asked *)
(* for at that line, however far the parser has got since (the synchronizations of                *)
(* gc_execute_line()).  A laser is off in every move that is not a cutting one.  But a cycle that *)
(* starts behind a reset, whose outputs are off, runs so until the restart.                       *)
CutsAsAsked ==
    [][restart # "queued" /\ queue # <<>> /\ RunBlock =>
         LET b == Head(queue)
         IN [spindle |-> machine.spindle, coolant |-> machine.coolant, out |-> machine.out,
             power |-> b.power] = b.asked]_vars

(* Between two lines the parser's position is the planner's, and with nothing left to run both    *)
(* are the machine's: what gc_sync_position() and plan_sync_position() are for.  A reset moves    *)
(* neither before its restart.                                                                    *)
PositionKnown ==
    phase = "idle" /\ state # "Critical" /\ restart # "queued" =>
        /\ gc.pos = planned
        /\ state = "Idle" /\ queue = <<>> => gc.pos = machine.pos

(* At rest the machine's outputs are what the parser believes them to be (gc_state, setState());  *)
(* it asks for a change only when its own notes say so, so what it has wrong stays wrong.  Not    *)
(* before a restart, nor, until the next one, after one that a cycle had started before.          *)
ParserKnowsMachine ==
    phase = "idle" /\ state = "Idle" /\ queue = <<>> /\ restart = "none" =>
        /\ machine.spindle = gc.spindle
        /\ machine.coolant = gc.coolant
        /\ machine.power =
              IF \/ gc.spindle = "off"
                 \/ laser /\ (gc.spindle = "ccw" \/ gc.mode # "feed")
              THEN 0 ELSE gc.speed

(* Every line comes to its end (protocol_buffer_synchronize(), mc_move_motors()): no wait of the  *)
(* parser's is for a machine that nobody starts, but one that a restart has stranded.             *)
LinesEnd == phase # "idle" ~> phase = "idle" \/ restart = "stranded"

(* Protocol.cpp:502 calls the line that a reset interrupts "the very line the reset was meant to  *)
(* discard": the machine makes no move of it afterwards.                                          *)
ResetDiscards == [][queue # <<>> /\ RunBlock => ~Head(queue).stale]_vars
=============================================================================
