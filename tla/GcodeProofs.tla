---------------------------- MODULE GcodeProofs ----------------------------
(* Proofs about Gcode: whatever lines are sent, from whatever number of positions and with a     *)
(* planner of any size, a move is made with what was asked for it, and between lines the parser  *)
(* knows where the machine is and what its outputs are.                                          *)
EXTENDS Gcode, TLAPS

(* What the lines planned leave behind: where the machine will be when they have been run, and   *)
(* with which power.                                                                             *)
Elements(q) == {q[i] : i \in DOMAIN q}
FinalPos(q, m) == IF q = <<>> THEN m.pos ELSE q[Len(q)].to
FinalPower(q, m) == IF q = <<>> THEN m.power ELSE q[Len(q)].power

Spindles == {"off", "cw", "ccw"}
Switch == {"off", "on"}
Moves == {"seek", "feed", "probe"}
Outputs == [spindle : Spindles, coolant : Switch, out : Switch, power : Nat]
Planned == [to : Places, jog : BOOLEAN, stale : BOOLEAN, asked : Outputs, power : Nat]
Phases == {"idle", "speed", "spindle", "coolant", "io", "motion", "room", "probing", "flow", "end"}

ParserStates == [spindle : Spindles, speed : Nat, coolant : Switch, mode : Moves, pos : Nat]
Wishes == [spindle : Spindles, speed : Nat, coolant : Switch, mode : Moves, out : Switch]
Machines == [power : Nat, spindle : Spindles, coolant : Switch, out : Switch, pos : Places]
Blocks ==
    [jog : BOOLEAN, mode : Moves \cup {"keep"}, to : Nat \cup {None},
     spindle : Spindles \cup {"keep"}, speed : Nat \cup {None}, coolant : Switch \cup {"keep"},
     out : Switch \cup {"bad", "none"}, flow : {"none", "pause", "end"}, stale : BOOLEAN]
Whole(b) == b.mode \in Moves /\ b.spindle \in Spindles /\ b.speed \in Nat

Shapes ==
    /\ laser \in BOOLEAN /\ awake \in BOOLEAN /\ abort \in BOOLEAN /\ cancelling \in BOOLEAN
    /\ inflight \in BOOLEAN /\ probing \in BOOLEAN
    /\ restart \in {"none", "queued", "powered", "stranded"}
    /\ gc \in ParserStates /\ want \in Wishes /\ machine \in Machines
    /\ queue \in Seq(Planned)
    /\ state \in {"Idle", "Cycle", "Jog", "Hold", "Alarm", "Critical"}
    /\ phase \in Phases
    /\ block \in Blocks
    /\ phase # "idle" => Whole(block)

(* The planner's position is the end of what is planned; the parser's too, except while a probe  *)
(* is on its way and after a move that was refused.                                              *)
Located ==
    /\ planned = FinalPos(queue, machine)
    /\ state # "Critical" /\ (phase # "probing" \/ abort) => gc.pos = planned

(* The engine runs only in the states that say so, and a refused move leaves it nothing to do.   *)
Engine ==
    /\ awake => state \in {"Cycle", "Hold", "Jog"}
    /\ cancelling => state = "Jog"
    /\ state \in {"Alarm", "Critical"} => queue = <<>>
    /\ phase \in {"speed", "spindle", "coolant", "io", "motion", "room"} /\ ~abort
           => state \in {"Idle", "Cycle", "Jog", "Hold"}

(* Jogs and the moves of a program are never planned together, and a line of the one is not      *)
(* begun while the other is made.                                                                *)
OneKind ==
    /\ \A b, c \in Elements(queue) : b.jog = c.jog
    /\ state = "Cycle" => \A b \in Elements(queue) : ~b.jog
    /\ state = "Jog" => \A b \in Elements(queue) : b.jog

LineKind ==
    /\ phase = "idle" /\ (\E b \in Elements(queue) : b.jog) =>
           state = "Jog" /\ (awake \/ cancelling \/ restart = "stranded")
    /\ phase # "idle" /\ ~block.jog => state # "Jog" /\ \A b \in Elements(queue) : ~b.jog
    /\ phase # "idle" /\ block.jog => /\ state # "Cycle"
                                      /\ \A b \in Elements(queue) : b.jog
                                      /\ phase \in {"motion", "room", "end"}
                                      /\ block.to \in Places

(* A reset leaves nothing to do but to end the line; what a phase takes for granted.             *)
Aborted ==
    /\ abort => /\ phase \in {"motion", "room", "probing", "flow", "end"}
                /\ queue = <<>> /\ ~awake
                /\ gc.spindle = "off" /\ gc.coolant = "off"
                /\ restart = "none" => machine.power = 0
    /\ abort /\ phase = "motion" => Probes \/ OutOfLimits
Phased ==
    /\ phase \in {"motion", "room", "probing"} => block.to # None
    /\ phase = "room" => ~Probes /\ ~OutOfLimits
    /\ phase = "probing" => Probes
    /\ phase = "flow" /\ block.flow = "pause" => state # "Critical"
    /\ phase # "idle" /\ ~block.jog /\ OutOfLimits => block.flow # "pause"
    /\ phase = "room" /\ ~abort /\ ~block.jog => inflight

(* A probe that is over without contact has gone all its way.                                    *)
Probed ==
    phase = "probing" /\ ~abort =>
        /\ state \in {"Cycle", "Hold", "Idle", "Critical"}
        /\ state # "Critical" => planned = block.to
        /\ state = "Cycle" => awake \/ queue = <<>> \/ ~probing
        /\ state = "Idle" => queue = <<>> \/ ~probing

(* The parser's modes and the machine's outputs are what is wanted, but for the words that the   *)
(* line has still to carry out.                                                                  *)
Pending == phase \in {"speed", "spindle", "coolant", "io"}
Promised ==
    /\ machine.spindle = gc.spindle
    /\ phase # "coolant" \/ block.coolant = "keep" => machine.coolant = gc.coolant
    /\ IF phase \in {"speed", "spindle"}
       THEN want.spindle = block.spindle /\ want.coolant = Merge(block.coolant, gc.coolant)
       ELSE want.spindle = gc.spindle /\ want.coolant = gc.coolant
    /\ want.speed = IF phase = "speed" THEN block.speed ELSE gc.speed
    /\ IF Pending
       THEN /\ want.mode = IF block.out = "bad" THEN gc.mode ELSE block.mode
            /\ want.out = IF block.out \in {"on", "off"} THEN block.out ELSE machine.out
       ELSE want.mode = gc.mode /\ want.out = machine.out
    /\ phase \in {"motion", "room", "probing"} /\ ~abort /\ ~block.jog => gc.mode = block.mode
    /\ phase \in {"coolant", "io"} => gc.spindle = block.spindle
    /\ phase # "idle" /\ laser /\ block.out = "bad" /\ ~block.jog => block.spindle = "off"
    /\ laser => gc.mode # "probe" /\ block.mode # "probe"

(* The outputs are as each planned move was asked to find them, since none is changed before the *)
(* moves planned have been made.                                                                 *)
AsAsked ==
    \A b \in Elements(queue) :
        b.asked = [spindle |-> machine.spindle, coolant |-> machine.coolant,
                   out |-> machine.out, power |-> b.power]

(* The power in the end is what the parser believes, unless the line's own move is to set it, or *)
(* the engine's stop is to turn a laser in M4 off.                                               *)
ModeNow == IF phase \in {"spindle", "coolant", "io"} THEN block.mode ELSE gc.mode
Believed ==
    IF gc.spindle = "off" \/ (laser /\ (gc.spindle = "ccw" \/ ModeNow # "feed"))
    THEN 0 ELSE gc.speed
MoveSets ==
    /\ laser /\ gc.spindle # "off" /\ ~abort
    /\ block.to # None /\ ~block.jog
    /\ phase \in {"spindle", "coolant", "io", "motion", "room"}
PowerLeft ==
    \/ state = "Critical" \/ MoveSets \/ restart # "none"
    \/ FinalPower(queue, machine) = Believed
    \/ laser /\ gc.spindle = "ccw" /\ (queue # <<>> \/ awake)

(* Jogs do not change the power, and a probe is made without a laser.                            *)
JogPower ==
    state = "Jog" \/ block.jog \/ (\E b \in Elements(queue) : b.jog) =>
        /\ laser => gc.spindle = "off"
        /\ restart = "none" =>
               machine.power = Believed /\ \A b \in Elements(queue) : b.power = Believed
ProbePower ==
    phase = "probing" =>
        /\ ~laser
        /\ restart = "none" =>
               machine.power = Believed /\ \A b \in Elements(queue) : b.power = Believed

Inv ==
    /\ Shapes /\ Located /\ Engine /\ OneKind /\ LineKind /\ Aborted /\ Phased /\ Probed
    /\ Promised /\ AsAsked /\ PowerLeft /\ JogPower /\ ProbePower

(* Between a reset and its restart the outputs are off, whatever a cycle that was started behind *)
(* the reset makes of the power, and the line in progress has nothing to do but to end.          *)
Halted ==
    /\ Shapes /\ Phased
    /\ abort = (phase # "idle")
    /\ phase \in {"idle", "motion", "room", "probing", "flow", "end"}
    /\ phase = "motion" => Probes \/ OutOfLimits
    /\ state \in {"Idle", "Alarm", "Cycle", "Jog"}
    /\ machine.spindle = "off" /\ machine.coolant = "off" /\ machine.out = "off"
    /\ phase # "idle" => \A b \in Elements(queue) : b.jog = block.jog
    /\ phase # "idle" /\ ~block.jog => state # "Jog"
    /\ phase # "idle" /\ block.jog => /\ state # "Cycle"
                                      /\ phase \in {"motion", "room", "end"}
                                      /\ block.to \in Places
    /\ phase # "idle" /\ laser /\ block.out = "bad" /\ ~block.jog => block.spindle = "off"
    /\ laser => block.mode # "probe" /\ phase # "probing"

Kept == IF restart = "queued" THEN Halted ELSE Inv

-----------------------------------------------------------------------------
(* The queue. *)

LEMMA QueueEmpty ==
    /\ Elements(<<>>) = {}
    /\ \A m : FinalPos(<<>>, m) = m.pos /\ FinalPower(<<>>, m) = m.power
BY DEF Elements, FinalPos, FinalPower

\* What the machine does decides where it ends only when nothing is planned.
LEMMA QueueKept ==
    ASSUME NEW q \in Seq(Planned), NEW m, NEW n
    PROVE  /\ Elements(q) \subseteq Planned
           /\ q = <<>> => Elements(q) = {}
           /\ FinalPos(q, n) = IF q = <<>> THEN n.pos ELSE FinalPos(q, m)
           /\ FinalPower(q, n) = IF q = <<>> THEN n.power ELSE FinalPower(q, m)
<1>1. Elements(q) \subseteq Planned /\ (q = <<>> => Elements(q) = {})
  BY DEF Elements
<1> QED BY <1>1 DEF FinalPos, FinalPower

LEMMA QueueLast ==
    ASSUME NEW q \in Seq(Planned), NEW m, q # <<>>
    PROVE  \E b \in Elements(q) : FinalPos(q, m) = b.to /\ FinalPower(q, m) = b.power
<1>1. q[Len(q)] \in Elements(q)
  BY DEF Elements
<1> QED BY <1>1 DEF FinalPos, FinalPower

LEMMA QueueHead ==
    ASSUME NEW q \in Seq(Planned), q # <<>>
    PROVE  /\ Head(q) \in Elements(q) /\ Tail(q) \in Seq(Planned)
           /\ Elements(Tail(q)) \subseteq Elements(q)
           /\ \A m, n : n.pos = Head(q).to => FinalPos(Tail(q), n) = FinalPos(q, m)
           /\ \A m, n : n.power = Head(q).power => FinalPower(Tail(q), n) = FinalPower(q, m)
<1>1. Head(q) = q[1] /\ 1 \in DOMAIN q /\ Tail(q) \in Seq(Planned)
  OBVIOUS
<1>2. \A i \in DOMAIN Tail(q) : i + 1 \in DOMAIN q /\ Tail(q)[i] = q[i + 1]
  OBVIOUS
<1>3. ASSUME Tail(q) = <<>> PROVE q[Len(q)] = Head(q)
  <2>1. Len(Tail(q)) = Len(q) - 1 /\ Len(q) \in Nat /\ Len(<<>>) = 0
    OBVIOUS
  <2>2. Len(q) = 1
    BY <1>3, <2>1
  <2> QED BY <1>1, <2>2
<1>4. Tail(q) # <<>> => Tail(q)[Len(Tail(q))] = q[Len(q)]
  OBVIOUS
<1>5. Elements(Tail(q)) \subseteq Elements(q) /\ Head(q) \in Elements(q)
  BY <1>1, <1>2 DEF Elements
<1> QED BY <1>1, <1>3, <1>4, <1>5 DEF FinalPos, FinalPower

LEMMA QueueAppend ==
    ASSUME NEW q \in Seq(Planned), NEW b \in Planned
    PROVE  /\ Append(q, b) \in Seq(Planned) /\ Append(q, b) # <<>>
           /\ Elements(Append(q, b)) = Elements(q) \cup {b}
           /\ \A m : FinalPos(Append(q, b), m) = b.to /\ FinalPower(Append(q, b), m) = b.power
<1>1. /\ Append(q, b) \in Seq(Planned) /\ Append(q, b) # <<>>
      /\ Append(q, b)[Len(Append(q, b))] = b
  OBVIOUS
<1>2. DOMAIN Append(q, b) = (DOMAIN q) \cup {Len(q) + 1}
  OBVIOUS
<1>3. (\A i \in DOMAIN q : Append(q, b)[i] = q[i]) /\ Append(q, b)[Len(q) + 1] = b
  OBVIOUS
<1>4. Elements(Append(q, b)) = Elements(q) \cup {b}
  BY <1>2, <1>3, Zenon DEF Elements
<1> QED BY <1>1, <1>4 DEF FinalPos, FinalPower

-----------------------------------------------------------------------------
(* What does not change. *)

LEMMA SameLine ==
    ASSUME block' = block
    PROVE  (Probes' <=> Probes) /\ (OutOfLimits' <=> OutOfLimits)
BY DEF Probes, OutOfLimits

LEMMA SamePower ==
    ASSUME UNCHANGED <<laser, phase, block, abort, restart>>,
           gc'.spindle = gc.spindle, gc'.speed = gc.speed, gc'.mode = gc.mode
    PROVE  Believed' = Believed /\ (MoveSets' <=> MoveSets)
BY DEF Believed, ModeNow, MoveSets

LEMMA LateLine ==
    /\ phase \notin {"spindle", "coolant", "io"} => ModeNow = gc.mode
    /\ MoveSets => phase \in {"spindle", "coolant", "io", "motion", "room"}
BY DEF ModeNow, MoveSets

\* A line of a program that has synchronized finds nothing to do and nothing that moves.
LEMMA Still ==
    ASSUME Inv, phase # "idle", ~block.jog, Synced, ~abort
    PROVE  /\ queue = <<>> /\ ~awake /\ ~cancelling
           /\ state \in {"Idle", "Alarm", "Critical"}
BY DEF Inv, Shapes, Engine, LineKind, Synced, Suspended

\* The move that a line plans is asked for what the outputs are; its power is what the parser
\* believes, unless it is a laser's in M4.
LEMMA MoveAsked ==
    ASSUME Inv, phase \in {"motion", "room"}, ~abort, block.to \in Places
    PROVE  /\ Move \in Planned /\ Move.to = block.to /\ Move.jog = block.jog
           /\ Move.asked = [spindle |-> machine.spindle, coolant |-> machine.coolant,
                            out |-> machine.out, power |-> Move.power]
           /\ Move.power = Believed \/ (laser /\ gc.spindle = "ccw")
           /\ block.jog => (laser => gc.spindle = "off")
<1> USE DEF Inv
<1>1. /\ machine.spindle = gc.spindle /\ machine.coolant = gc.coolant
      /\ want.spindle = gc.spindle /\ want.coolant = gc.coolant /\ want.speed = gc.speed
      /\ want.mode = gc.mode /\ want.out = machine.out
      /\ ~block.jog => gc.mode = block.mode
  BY DEF Promised, Pending
<1>2. gc \in ParserStates /\ machine \in Machines /\ block \in Blocks
  BY DEF Shapes
<1>3. block.jog => (laser => gc.spindle = "off")
  BY DEF JogPower
<1>4. /\ Move.to = block.to /\ Move.jog = block.jog
      /\ Move.power = IF gc.spindle = "off" \/ (laser /\ ~block.jog /\ gc.mode # "feed")
                      THEN 0 ELSE gc.speed
      /\ Move.power \in Nat
  <2>1. gc.speed \in Nat
    BY <1>2 DEF ParserStates
  <2> QED BY <1>1, <2>1 DEF Move, LineSpeed, DisablesLaser
<1>5. Asked(want) = [spindle |-> machine.spindle, coolant |-> machine.coolant,
                     out |-> machine.out, power |-> Move.power]
  BY <1>1, <1>3, <1>4 DEF Asked
<1>6. Move.asked = Asked(want) /\ Move \in Planned
  <2>1. Asked(want) \in Outputs
    BY <1>2, <1>4, <1>5 DEF Outputs, Machines
  <2> QED BY <1>2, <1>4, <2>1 DEF Move, Planned, Blocks
<1>7. Move.power = Believed \/ (laser /\ gc.spindle = "ccw")
  BY <1>3, <1>4 DEF Believed, ModeNow
<1> QED BY <1>3, <1>4, <1>5, <1>6, <1>7

-----------------------------------------------------------------------------
(* The initial state and the steps. *)

LEMMA InvInit == Init => Inv
<1> SUFFICES ASSUME Init PROVE Inv
  OBVIOUS
<1> USE DEF Init, Initial, Rest, Modes, Fresh, NoLine
<1>1. Shapes
  <2>1. <<>> \in Seq(Planned) /\ 0 \in Places /\ 0 \in Nat
    BY PlacesAssumption
  <2> QED BY <2>1 DEF Shapes, ParserStates, Wishes, Machines, Blocks, Spindles,
             Switch, Moves, Phases, None
<1>2. Located
  BY QueueEmpty DEF Located
<1>3. Engine /\ OneKind /\ LineKind /\ Aborted /\ Phased /\ Probed
  BY QueueEmpty DEF Engine, OneKind, LineKind, Aborted, Phased, Probed
<1>4. Promised /\ AsAsked
  BY QueueEmpty DEF Promised, AsAsked, Pending
<1>5. PowerLeft /\ JogPower /\ ProbePower
  BY QueueEmpty DEF PowerLeft, JogPower, ProbePower, Believed, ModeNow
<1> QED BY <1>1, <1>2, <1>3, <1>4, <1>5 DEF Inv

\* The beginning of a line.
LEMMA BeginKeeps == ASSUME NEW line \in Lines, Inv, Careful, Begin(line) PROVE Inv'
<1> USE DEF Inv, engineVars
<1>1. /\ phase = "idle" /\ ~Suspended /\ PaysAttention(line)
      /\ IF line.jog THEN state \in {"Idle", "Jog"} ELSE state \notin {"Alarm", "Jog"}
      /\ block' = Parsed(line)
      /\ phase' = IF line.jog THEN "motion" ELSE "speed"
      /\ want' = IF line.jog THEN want ELSE Wanted(line)
      /\ UNCHANGED <<laser, gc, machine, state, abort, restart, cancelling, queue, planned, awake,
                     inflight, probing>>
  BY DEF Begin
<1>2. /\ line.jog \in BOOLEAN /\ line.mode \in Moves \cup {"keep"} /\ line.to \in Nat \cup {None}
      /\ line.spindle \in Spindles \cup {"keep"} /\ line.speed \in Nat \cup {None}
      /\ line.coolant \in Switch \cup {"keep"} /\ line.out \in Switch \cup {"bad", "none"}
      /\ line.flow \in {"none", "pause", "end"}
      /\ line.jog => line.to \in Places /\ line.mode = "keep"
  BY LinesAssumption DEF Moves, Spindles, Switch
<1>3. /\ gc \in ParserStates /\ want \in Wishes /\ queue \in Seq(Planned) /\ None \notin Nat
      /\ gc.mode \in Moves /\ gc.spindle \in Spindles /\ gc.speed \in Nat
      /\ want.mode \in Moves /\ want.spindle \in Spindles /\ want.speed \in Nat
      /\ want.coolant \in Switch /\ want.out \in Switch
  BY DEF Shapes, ParserStates, Wishes, None
<1>4. /\ ~abort /\ ~cancelling
      /\ machine.spindle = gc.spindle /\ machine.coolant = gc.coolant
      /\ want.spindle = gc.spindle /\ want.coolant = gc.coolant /\ want.speed = gc.speed
      /\ want.mode = gc.mode /\ want.out = machine.out /\ (laser => gc.mode # "probe")
  BY <1>1 DEF Aborted, Suspended, Promised, Pending
<1>5. state \in {"Idle", "Cycle", "Jog"} /\ (line.jog => state # "Cycle")
      /\ (~line.jog => state # "Jog")
  BY <1>1 DEF Suspended, PaysAttention, Shapes
<1>6. \A b \in Elements(queue) : b.jog = line.jog
  <2>1. CASE line.jog
    <3>1. \A i \in DOMAIN queue : queue[i].jog
      BY <1>1, <2>1 DEF PaysAttention
    <3>2. \A b \in Elements(queue) : b.jog
      BY <3>1 DEF Elements
    <3> QED BY <1>3, <2>1, <3>2, QueueKept DEF Planned
  <2>2. CASE ~line.jog
    <3>1. \A b \in Elements(queue) : ~b.jog
      BY <1>1, <1>5, <2>2 DEF LineKind
    <3> QED BY <1>2, <1>3, <2>2, <3>1, QueueKept DEF Planned
  <2> QED BY <2>1, <2>2
<1>7. /\ block'.jog = line.jog /\ block'.to = line.to /\ block'.out = line.out
      /\ block'.coolant = line.coolant /\ block'.flow = line.flow /\ block'.stale = FALSE
      /\ block'.mode = (IF line.mode = "keep" THEN gc.mode ELSE line.mode)
      /\ block'.spindle = (IF line.spindle = "keep" THEN gc.spindle ELSE line.spindle)
      /\ block'.speed = (IF line.speed = None THEN gc.speed ELSE line.speed)
      /\ block' \in Blocks
  BY <1>1, <1>2, <1>3 DEF Parsed, Fresh, Merge, Blocks
<1>8. ~line.jog =>
        /\ want'.spindle = block'.spindle /\ want'.coolant = Merge(block'.coolant, gc.coolant)
        /\ want'.speed = block'.speed
        /\ want'.mode = (IF block'.out = "bad" THEN gc.mode ELSE block'.mode)
        /\ want'.out = (IF block'.out \in {"on", "off"} THEN block'.out ELSE machine.out)
        /\ want' \in Wishes
  BY <1>1, <1>2, <1>3, <1>4, <1>7 DEF Wanted, Merge, Wishes, Switch
<1>9. Believed' = Believed /\ ~MoveSets /\ ~MoveSets'
  BY <1>1, <1>7 DEF Believed, ModeNow, MoveSets
<1>10. Shapes'
  <2>1. Whole(block')
    BY <1>2, <1>3, <1>7 DEF Whole
  <2> QED BY <1>1, <1>2, <1>3, <1>7, <1>8, <2>1 DEF Shapes, Phases
<1>11. Located' /\ Engine' /\ OneKind'
  BY <1>1, <1>5 DEF Located, Engine, OneKind
<1>12. LineKind' /\ Aborted'
  BY <1>1, <1>2, <1>4, <1>5, <1>6, <1>7 DEF LineKind, Aborted
<1>13. Phased' /\ Probed'
  <2>1. ~line.jog /\ line.to # None /\ line.to \notin Places => line.flow # "pause"
    BY <1>1 DEF PaysAttention
  <2>2. line.jog => line.to # None
    BY <1>2, <1>3, PlacesAssumption
  <2> QED BY <1>1, <1>7, <2>1, <2>2 DEF Phased, Probed, OutOfLimits
<1>14. Promised'
  <2>1. /\ ~line.jog /\ laser /\ line.out = "bad" => block'.spindle = "off"
        /\ laser => block'.mode # "probe"
    BY <1>1, <1>2, <1>4, <1>7 DEF PaysAttention, Merge
  <2>2. CASE line.jog
    BY <1>1, <1>4, <1>7, <2>1, <2>2 DEF Promised, Pending
  <2>3. CASE ~line.jog
    BY <1>1, <1>4, <1>7, <1>8, <2>1, <2>3 DEF Promised, Pending
  <2> QED BY <2>2, <2>3
<1>15. AsAsked' /\ PowerLeft' /\ ProbePower'
  BY <1>1, <1>9 DEF AsAsked, PowerLeft, ProbePower
<1>16. JogPower'
  <2>1. CASE line.jog
    <3>1. laser => gc.spindle = "off"
      BY <1>1, <2>1 DEF PaysAttention
    <3>2. restart = "none" =>
            machine.power = Believed /\ \A b \in Elements(queue) : b.power = Believed
      <4>1. CASE queue = <<>> /\ state # "Jog"
        <5>1. FinalPower(queue, machine) = machine.power /\ Elements(queue) = {}
          BY <4>1, QueueEmpty
        <5> QED BY <1>5, <1>9, <3>1, <5>1 DEF PowerLeft
      <4>2. CASE state = "Jog"
        BY <4>2 DEF JogPower
      <4>3. CASE queue # <<>>
        <5>1. Head(queue) \in Elements(queue)
          BY <1>3, <4>3, QueueHead
        <5> QED BY <1>6, <2>1, <5>1 DEF JogPower
      <4> QED BY <4>1, <4>2, <4>3
    <3> QED BY <1>1, <1>9, <3>1, <3>2 DEF JogPower
  <2>2. CASE ~line.jog
    BY <1>1, <1>5, <1>6, <1>7, <2>2 DEF JogPower
  <2> QED BY <2>1, <2>2
<1> QED BY <1>10, <1>11, <1>12, <1>13, <1>14, <1>15, <1>16

\* The words of a line up to its move, each when it is carried out.
LEMMA WordsKeep == Inv /\ (SetSpeed \/ SetSpindle \/ SetCoolant \/ SetOutput) => Inv'
<1> SUFFICES ASSUME Inv, SetSpeed \/ SetSpindle \/ SetCoolant \/ SetOutput PROVE Inv'
  OBVIOUS
<1> USE DEF Inv, engineVars
<1>1. /\ phase \in {"speed", "spindle", "coolant", "io"}
      /\ UNCHANGED <<laser, queue, planned, awake, abort, restart, cancelling, state, block, inflight,
                     probing, want>>
  BY DEF SetSpeed, SetSpindle, SetCoolant, SetOutput
<1>2. ~abort /\ ~block.jog /\ state \in {"Idle", "Cycle", "Hold"}
      /\ \A b \in Elements(queue) : ~b.jog
  BY <1>1 DEF Aborted, LineKind, Engine
<1>3. Synced => queue = <<>> /\ ~awake /\ state = "Idle"
  BY <1>1, <1>2, Still
<1>4. (Probes' <=> Probes) /\ (OutOfLimits' <=> OutOfLimits)
  BY <1>1, SameLine
<1>5. /\ gc \in ParserStates /\ machine \in Machines /\ block \in Blocks /\ Whole(block)
      /\ queue = <<>> \/ queue # <<>>
  BY <1>1 DEF Shapes
<1>6. Engine' /\ OneKind'
  BY <1>1, <1>2 DEF Engine, OneKind
<1> USE <1>1, <1>2
<1>7. ASSUME gc' \in ParserStates, machine' \in Machines, gc'.pos = gc.pos,
             machine'.pos = machine.pos,
             phase' \in {"spindle", "coolant", "io", "motion", "flow", "end"},
             phase' = "motion" => block.to # None
      PROVE  /\ Shapes' /\ Located' /\ LineKind' /\ Aborted' /\ Phased' /\ Probed'
             /\ JogPower' /\ ProbePower'
  <2>1. FinalPos(queue, machine') = FinalPos(queue, machine)
    BY <1>7 DEF FinalPos
  <2>2. Shapes' /\ Located' /\ LineKind' /\ Aborted'
    BY <1>7, <2>1 DEF Shapes, Phases, Located, LineKind, Aborted
  <2>3. Phased' /\ Probed' /\ JogPower' /\ ProbePower'
    BY <1>4, <1>7 DEF Phased, Probed, JogPower, ProbePower
  <2> QED BY <2>2, <2>3
<1>8. CASE SetSpeed
  <2>1. /\ phase = "speed" /\ phase' = "spindle"
        /\ SetsSpeed => Synced
        /\ ~SetsSpeed => machine' = machine
        /\ gc' = [gc EXCEPT !.speed = block.speed]
    BY <1>8 DEF SetSpeed
  <2>2. /\ gc' \in ParserStates /\ gc'.speed = block.speed /\ gc'.pos = gc.pos
        /\ gc'.mode = gc.mode /\ gc'.spindle = gc.spindle /\ gc'.coolant = gc.coolant
    BY <1>5, <2>1 DEF ParserStates, Whole
  <2>3. machine.spindle = gc.spindle
    BY DEF Promised
  <2>4. SetsSpeed => machine'.power = IF gc.spindle = "off" \/ (laser /\ gc.spindle = "ccw") THEN 0
                                      ELSE IF DisablesLaser THEN 0 ELSE block.speed
    BY <1>5, <1>8 DEF SetSpeed, Driven, Machines
  <2>5. /\ machine' \in Machines /\ machine'.pos = machine.pos /\ machine'.spindle = machine.spindle
        /\ machine'.coolant = machine.coolant /\ machine'.out = machine.out
    BY <1>5, <1>8, <2>3 DEF SetSpeed, Driven, Machines, Whole
  <2>6. Promised' /\ AsAsked'
    BY <2>1, <2>2, <2>5 DEF Promised, Pending, AsAsked
  <2>7. Believed' = IF gc.spindle = "off" \/ (laser /\ (gc.spindle = "ccw" \/ block.mode # "feed"))
                    THEN 0 ELSE block.speed
    BY <2>1, <2>2 DEF Believed, ModeNow
  <2>8. PowerLeft'
    <3>1. CASE SetsSpeed
      <4>1. FinalPower(queue', machine') = machine'.power
        BY <1>3, <2>1, <3>1, QueueEmpty
      <4> QED BY <2>4, <2>7, <3>1, <4>1 DEF PowerLeft, DisablesLaser
    <3>2. CASE ~SetsSpeed /\ LaserIsMotion /\ gc.spindle # "off"
      BY <2>1, <2>2, <3>2 DEF PowerLeft, MoveSets, LaserIsMotion
    <3>3. CASE ~SetsSpeed /\ ~(LaserIsMotion /\ gc.spindle # "off")
      <4>1. Believed' = Believed
        BY <1>5, <2>1, <2>7, <3>3
           DEF SetsSpeed, SyncsLaser, Believed, ModeNow, ParserStates, Spindles, LaserIsMotion
      <4>2. ~MoveSets /\ state # "Critical"
        BY <2>1 DEF MoveSets
      <4> QED BY <2>1, <2>2, <3>3, <4>1, <4>2 DEF PowerLeft
    <3> QED BY <3>1, <3>2, <3>3
  <2> QED BY <1>6, <1>7, <2>1, <2>2, <2>5, <2>6, <2>8
<1>9. CASE SetSpindle
  <2>1. /\ phase = "spindle" /\ phase' = "coolant"
        /\ SetsSpindle => Synced
        /\ ~SetsSpindle => machine' = machine /\ gc.spindle = block.spindle
        /\ gc' = [gc EXCEPT !.spindle = block.spindle, !.coolant = Merge(block.coolant, @)]
    BY <1>9 DEF SetSpindle, SetsSpindle
  <2>2. /\ gc' \in ParserStates /\ gc'.speed = gc.speed /\ gc'.pos = gc.pos
        /\ gc'.mode = gc.mode /\ gc'.spindle = block.spindle
        /\ gc'.coolant = Merge(block.coolant, gc.coolant)
    BY <1>5, <2>1 DEF ParserStates, Whole, Merge, Blocks
  <2>3. /\ machine.spindle = gc.spindle /\ machine.coolant = gc.coolant
        /\ want.spindle = block.spindle /\ want.coolant = Merge(block.coolant, gc.coolant)
    BY <2>1 DEF Promised
  <2>4. SetsSpindle =>
          machine'.power = IF block.spindle = "off" \/ (laser /\ block.spindle = "ccw") THEN 0
                           ELSE IF laser /\ block.mode # "feed" THEN 0 ELSE gc.speed
    BY <1>5, <1>9 DEF SetSpindle, Driven, Machines, LineSpeed, DisablesLaser
  <2>5. /\ machine' \in Machines /\ machine'.pos = machine.pos /\ machine'.spindle = block.spindle
        /\ machine'.coolant = machine.coolant /\ machine'.out = machine.out
    <3>1. LineSpeed \in Nat
      BY <1>5 DEF LineSpeed, ParserStates
    <3> QED BY <1>5, <1>9, <2>1, <2>3, <3>1 DEF SetSpindle, Driven, Machines, Whole
  <2>6. Promised'
    BY <2>1, <2>2, <2>3, <2>5 DEF Promised, Pending, Merge
  <2>7. AsAsked'
    <3>1. CASE SetsSpindle
      BY <1>3, <2>1, <3>1, QueueEmpty DEF AsAsked
    <3>2. CASE ~SetsSpindle
      BY <2>1, <3>2 DEF AsAsked
    <3> QED BY <3>1, <3>2
  <2>8. PowerLeft'
    <3>1. CASE SetsSpindle
      <4>1. FinalPower(queue', machine') = machine'.power
        BY <1>3, <2>1, <3>1, QueueEmpty
      <4>2. machine'.power = Believed'
        BY <2>1, <2>2, <2>4, <3>1 DEF Believed, ModeNow
      <4> QED BY <4>1, <4>2 DEF PowerLeft
    <3>2. CASE ~SetsSpindle
      <4>1. Believed' = Believed /\ (MoveSets' <=> MoveSets)
        BY <2>1, <2>2, <3>2 DEF Believed, ModeNow, MoveSets
      <4> QED BY <2>1, <2>2, <3>2, <4>1 DEF PowerLeft
    <3> QED BY <3>1, <3>2
  <2> QED BY <1>6, <1>7, <2>1, <2>2, <2>5, <2>6, <2>7, <2>8
<1>10. CASE SetCoolant
  <2>1. /\ phase = "coolant" /\ phase' = "io" /\ gc' = gc
        /\ SetsCoolant => Synced
        /\ machine' = IF SetsCoolant THEN [machine EXCEPT !.coolant = gc.coolant] ELSE machine
    BY <1>10 DEF SetCoolant
  <2>2. /\ machine' \in Machines /\ machine'.pos = machine.pos /\ machine'.spindle = machine.spindle
        /\ machine'.out = machine.out /\ machine'.power = machine.power
        /\ machine'.coolant = gc.coolant
    BY <1>5, <2>1 DEF Machines, ParserStates, SetsCoolant, Promised
  <2>3. Promised'
    BY <2>1, <2>2 DEF Promised, Pending
  <2>4. AsAsked'
    <3>1. CASE SetsCoolant
      BY <1>3, <2>1, <3>1, QueueEmpty DEF AsAsked
    <3>2. CASE ~SetsCoolant
      BY <2>1, <3>2 DEF AsAsked
    <3> QED BY <3>1, <3>2
  <2>5. PowerLeft'
    <3>1. Believed' = Believed /\ (MoveSets' <=> MoveSets)
      BY <2>1 DEF Believed, ModeNow, MoveSets
    <3>2. FinalPower(queue, machine') = FinalPower(queue, machine)
      BY <2>2 DEF FinalPower
    <3> QED BY <2>1, <3>1, <3>2 DEF PowerLeft
  <2> QED BY <1>5, <1>6, <1>7, <2>1, <2>2, <2>3, <2>4, <2>5
<1>11. CASE SetOutput
  <2>1. /\ phase = "io"
        /\ SetsOutput => Synced
        /\ machine' = IF SetsOutput THEN [machine EXCEPT !.out = block.out] ELSE machine
        /\ gc' = IF block.out = "bad" THEN gc ELSE [gc EXCEPT !.mode = block.mode]
        /\ phase' = IF block.out = "bad" THEN "end"
                    ELSE IF block.to = None THEN "flow" ELSE "motion"
    BY <1>11 DEF SetOutput
  <2>2. /\ machine' \in Machines /\ machine'.pos = machine.pos /\ machine'.spindle = machine.spindle
        /\ machine'.coolant = machine.coolant /\ machine'.power = machine.power
        /\ machine'.out = IF block.out \in {"on", "off"} THEN block.out ELSE machine.out
    BY <1>5, <2>1 DEF Machines, SetsOutput, Switch
  <2>3. /\ gc' \in ParserStates /\ gc'.speed = gc.speed /\ gc'.pos = gc.pos
        /\ gc'.spindle = gc.spindle /\ gc'.coolant = gc.coolant
        /\ gc'.mode = IF block.out = "bad" THEN gc.mode ELSE block.mode
    BY <1>5, <2>1 DEF ParserStates, Whole
  <2>4. gc.spindle = block.spindle /\ (laser /\ block.out = "bad" => gc.spindle = "off")
    BY <2>1 DEF Promised
  <2>5. Promised'
    BY <2>1, <2>2, <2>3 DEF Promised, Pending
  <2>6. AsAsked'
    <3>1. CASE SetsOutput
      BY <1>3, <2>1, <3>1, QueueEmpty DEF AsAsked
    <3>2. CASE ~SetsOutput
      BY <2>1, <3>2 DEF AsAsked
    <3> QED BY <3>1, <3>2
  <2>7. PowerLeft'
    <3>1. Believed' = Believed /\ (MoveSets' <=> MoveSets)
      BY <2>1, <2>3, <2>4 DEF Believed, ModeNow, MoveSets
    <3>2. FinalPower(queue, machine') = FinalPower(queue, machine)
      BY <2>2 DEF FinalPower
    <3> QED BY <2>1, <2>3, <3>1, <3>2 DEF PowerLeft
  <2> QED BY <1>6, <1>7, <2>1, <2>2, <2>3, <2>5, <2>6, <2>7
<1> QED BY <1>8, <1>9, <1>10, <1>11

\* The move of a line.
LEMMA MoveKeeps == Inv /\ (Refuse \/ WaitForRoom \/ Bail) => Inv'
<1> SUFFICES ASSUME Inv, Refuse \/ WaitForRoom \/ Bail PROVE Inv'
  OBVIOUS
<1> USE DEF Inv, lineVars, engineVars
<1>1. UNCHANGED <<laser, machine, want, queue, planned, awake, abort, restart, cancelling, block, probing>>
  BY DEF Refuse, WaitForRoom, Bail
<1>2. (Probes' <=> Probes) /\ (OutOfLimits' <=> OutOfLimits)
  BY <1>1, SameLine
<1>3. phase \in {"motion", "room"} /\ phase' \in {"room", "flow", "end"}
  BY DEF Refuse, WaitForRoom, Bail
<1> USE <1>1, <1>2, <1>3
<1>4. CASE Refuse
  <2>1. /\ phase = "motion" /\ OutOfLimits /\ state' = "Critical" /\ inflight' = inflight
        /\ gc' = IF abort THEN gc ELSE [gc EXCEPT !.pos = block.to]
        /\ phase' = IF abort THEN "end" ELSE "flow"
    BY <1>4 DEF Refuse
  <2>2. ~block.jog /\ block.to \in Nat
    BY <2>1 DEF LineKind, OutOfLimits, Shapes, Blocks
  <2>3. queue = <<>> /\ ~awake /\ ~cancelling
    <3>1. CASE abort
      BY <2>1, <2>2, <3>1 DEF Aborted, Engine, LineKind
    <3>2. CASE ~abort
      BY <1>4, <2>1, <2>2, <3>2, Still DEF Refuse
    <3> QED BY <3>1, <3>2
  <2>4. /\ gc' \in ParserStates /\ gc'.spindle = gc.spindle /\ gc'.coolant = gc.coolant
        /\ gc'.mode = gc.mode /\ gc'.speed = gc.speed
    BY <2>1, <2>2 DEF Shapes, ParserStates
  <2>5. Shapes' /\ Located' /\ Engine' /\ OneKind' /\ LineKind'
    BY <2>1, <2>2, <2>3, <2>4, QueueEmpty DEF Shapes, Phases, Located, Engine,
       OneKind, LineKind
  <2>6. Aborted' /\ Phased' /\ Probed'
    BY <2>1, <2>2, <2>4 DEF Aborted, Phased, Probed
  <2>7. Promised' /\ AsAsked'
    BY <2>1, <2>4 DEF Promised, Pending, AsAsked
  <2>8. PowerLeft' /\ JogPower' /\ ProbePower'
    BY <2>1, <2>2, <2>3, QueueEmpty DEF PowerLeft, JogPower, ProbePower
  <2> QED BY <2>5, <2>6, <2>7, <2>8
<1>5. CASE WaitForRoom
  <2>1. /\ phase = "motion" /\ ~Probes /\ ~OutOfLimits /\ phase' = "room" /\ inflight' = TRUE
        /\ UNCHANGED <<gc, state>>
    BY <1>5 DEF WaitForRoom
  <2>2. ~abort
    BY <2>1 DEF Aborted
  <2>3. Believed' = Believed /\ (MoveSets' <=> MoveSets)
    BY <2>1 DEF Believed, ModeNow, MoveSets
  <2>4. Shapes' /\ Located' /\ Engine' /\ OneKind' /\ LineKind'
    BY <2>1 DEF Shapes, Phases, Located, Engine, OneKind, LineKind
  <2>5. Aborted' /\ Phased' /\ Probed'
    BY <2>1, <2>2 DEF Aborted, Phased, Probed
  <2>6. Promised' /\ AsAsked'
    BY <2>1 DEF Promised, Pending, AsAsked
  <2>7. PowerLeft' /\ JogPower' /\ ProbePower'
    BY <2>1, <2>3 DEF PowerLeft, JogPower, ProbePower
  <2> QED BY <2>4, <2>5, <2>6, <2>7
<1>6. CASE Bail
  <2>1. /\ phase = "room" /\ phase' = "end" /\ inflight' = FALSE /\ UNCHANGED <<gc, state>>
        /\ abort \/ ~inflight
    BY <1>6 DEF Bail
  <2>2. abort \/ block.jog
    BY <2>1 DEF Phased
  <2>3. Believed' = Believed /\ ~MoveSets /\ ~MoveSets'
    BY <2>1, <2>2 DEF Believed, ModeNow, MoveSets
  <2>4. Shapes' /\ Located' /\ Engine' /\ OneKind' /\ LineKind'
    <3>1. Shapes' /\ Located'
      BY <2>1 DEF Shapes, Phases, Located
    <3>2. Engine' /\ OneKind' /\ LineKind'
      BY <2>1 DEF Engine, OneKind, LineKind
    <3> QED BY <3>1, <3>2
  <2>5. Aborted' /\ Phased' /\ Probed'
    BY <2>1 DEF Aborted, Phased, Probed
  <2>6. Promised' /\ AsAsked'
    BY <2>1 DEF Promised, Pending, AsAsked
  <2>7. PowerLeft' /\ JogPower' /\ ProbePower'
    BY <2>1, <2>3 DEF PowerLeft, JogPower, ProbePower
  <2> QED BY <2>4, <2>5, <2>6, <2>7
<1> QED BY <1>4, <1>5, <1>6

\* A move that is planned.
LEMMA PlanKeeps == Inv /\ Plan => Inv'
<1> SUFFICES ASSUME Inv, Plan PROVE Inv'
  OBVIOUS
<1> USE DEF Inv
<1>1. /\ \/ phase = "motion" /\ ~Probes /\ ~OutOfLimits
         \/ phase = "room" /\ ~abort
      /\ queue' = Append(queue, Move) /\ planned' = block.to /\ inflight' = FALSE
      /\ gc' = (IF abort THEN gc ELSE [gc EXCEPT !.pos = block.to])
      /\ phase' = (IF abort \/ block.jog THEN "end" ELSE "flow")
      /\ UNCHANGED <<laser, machine, state, awake, abort, restart, cancelling, block, probing, want>>
  BY DEF Plan
<1>2. /\ phase \in {"motion", "room"} /\ ~Probes /\ ~OutOfLimits /\ ~abort
      /\ block.to \in Places /\ block.to \in Nat /\ block.to # None
  <2>1. phase \in {"motion", "room"} /\ ~Probes /\ ~OutOfLimits /\ ~abort /\ block.to # None
    BY <1>1 DEF Phased, Aborted
  <2> QED BY <2>1, PlacesAssumption DEF OutOfLimits
<1>3. (Probes' <=> Probes) /\ (OutOfLimits' <=> OutOfLimits)
  BY <1>1, SameLine
<1>4. /\ phase' = (IF block.jog THEN "end" ELSE "flow")
      /\ gc' \in ParserStates /\ gc'.pos = block.to /\ gc'.spindle = gc.spindle
      /\ gc'.speed = gc.speed /\ gc'.coolant = gc.coolant /\ gc'.mode = gc.mode
  BY <1>1, <1>2 DEF Shapes, ParserStates
<1>5. /\ Move \in Planned /\ Move.to = block.to /\ Move.jog = block.jog
      /\ Move.asked = [spindle |-> machine.spindle, coolant |-> machine.coolant,
                       out |-> machine.out, power |-> Move.power]
      /\ Move.power = Believed \/ (laser /\ gc.spindle = "ccw")
      /\ block.jog => (laser => gc.spindle = "off")
  BY <1>2, MoveAsked
<1>6. queue \in Seq(Planned) /\ block.jog \in BOOLEAN
  BY DEF Shapes, Blocks
<1>7. Believed' = Believed /\ ~MoveSets'
  BY <1>1, <1>2, <1>4 DEF Believed, ModeNow, MoveSets
<1>8. /\ queue' \in Seq(Planned) /\ queue' # <<>>
       /\ Elements(queue') = Elements(queue) \cup {Move}
       /\ FinalPos(queue', machine') = block.to /\ FinalPower(queue', machine') = Move.power
  BY <1>1, <1>5, <1>6, QueueAppend
<1>9. Shapes'
  BY <1>1, <1>4, <1>8 DEF Shapes, Phases
<1>10. Located' /\ Engine'
  <2>1. state \notin {"Alarm", "Critical"}
    BY <1>2 DEF Engine
  <2> QED BY <1>1, <1>2, <1>4, <1>8, <2>1 DEF Located, Engine
<1>11. OneKind' /\ LineKind'
  <2>1. \A b \in Elements(queue') : b.jog = block.jog
    BY <1>2, <1>5, <1>6, <1>8, QueueKept DEF LineKind, Planned
  <2>2. (state = "Cycle" => ~block.jog) /\ (state = "Jog" => block.jog)
    BY <1>2 DEF LineKind
  <2> QED BY <1>1, <1>2, <1>4, <2>1, <2>2 DEF OneKind, LineKind
<1>12. Aborted' /\ Phased' /\ Probed'
  <2>1. state # "Critical"
    BY <1>2 DEF Engine
  <2> QED BY <1>1, <1>2, <1>3, <1>4, <2>1 DEF Aborted, Phased, Probed
<1>13. Promised'
  BY <1>1, <1>2, <1>4 DEF Promised, Pending
<1>14. AsAsked'
  BY <1>1, <1>5, <1>8 DEF AsAsked
<1>15. PowerLeft'
  BY <1>1, <1>4, <1>5, <1>7, <1>8 DEF PowerLeft
<1>16. JogPower' /\ ProbePower'
  <2>1. state = "Jog" \/ block.jog \/ (\E b \in Elements(queue') : b.jog) => block.jog
    BY <1>2, <1>5, <1>8 DEF LineKind
  <2> QED BY <1>1, <1>4, <1>5, <1>7, <1>8, <2>1 DEF JogPower, ProbePower
<1> QED BY <1>9, <1>10, <1>11, <1>12, <1>13, <1>14, <1>15, <1>16

\* The start of a probing move.
LEMMA StartProbeKeeps == Inv /\ StartProbe => Inv'
<1> SUFFICES ASSUME Inv, StartProbe PROVE Inv'
  OBVIOUS
<1> USE DEF Inv, engineVars
<1>1. /\ phase = "motion" /\ Probes /\ Synced
      /\ UNCHANGED <<laser, gc, machine, abort, restart, cancelling, block, inflight, want>>
  BY DEF StartProbe
<1>2. /\ ~block.jog /\ block.to # None /\ block.to \in Nat /\ block.mode = "probe" /\ ~laser
      /\ state # "Jog" /\ ~MoveSets
  BY <1>1 DEF Probes, Shapes, Blocks, Promised, LineKind, MoveSets
<1>3. ~abort => queue = <<>> /\ ~awake /\ ~cancelling /\ state = "Idle"
  BY <1>1, <1>2, Still DEF Engine
<1>4. (Probes' <=> Probes) /\ (OutOfLimits' <=> OutOfLimits)
  BY <1>1, SameLine
<1>5. ASSUME phase' \notin {"spindle", "coolant", "io"} PROVE Believed' = Believed /\ ~MoveSets'
  BY <1>1, <1>2, <1>5 DEF Believed, ModeNow, MoveSets
<1>6. CASE /\ phase' \in {"end", "flow"} /\ UNCHANGED <<probing, queue, planned, awake>>
           /\ \/ phase' = "end" /\ state' = state
              \/ phase' = "flow" /\ ~abort /\ state' = "Alarm"
  <2>1. Shapes' /\ Engine' /\ OneKind' /\ LineKind'
    BY <1>1, <1>2, <1>3, <1>6 DEF Shapes, Phases, Engine, OneKind, LineKind
  <2>2. Located'
    BY <1>1, <1>3, <1>6 DEF Located
  <2>3. Aborted' /\ Phased' /\ Probed'
    BY <1>1, <1>2, <1>4, <1>6 DEF Aborted, Phased, Probed
  <2>4. Promised' /\ AsAsked'
    BY <1>1, <1>6 DEF Promised, Pending, AsAsked
  <2>5. PowerLeft' /\ JogPower' /\ ProbePower'
    <3>1. state' # "Critical" \/ state = "Critical"
      BY <1>6
    <3>2. state' # "Jog"
      BY <1>2, <1>6
    <3>3. state = "Critical" => state' = "Critical" \/ ~abort
      BY <1>6
    <3> QED BY <1>1, <1>2, <1>3, <1>5, <1>6, <3>1, <3>2, <3>3 DEF PowerLeft,
               JogPower, ProbePower
  <2> QED BY <2>1, <2>2, <2>3, <2>4, <2>5
<1>7. CASE /\ ~abort /\ phase' = "probing" /\ probing' = TRUE
           /\ OutOfLimits /\ state' = "Critical" /\ UNCHANGED engineVars
  <2>1. Believed' = Believed
    BY <1>5, <1>7
  <2>2. restart = "none" => machine.power = Believed
    BY <1>2, <1>3, <1>7, QueueEmpty DEF PowerLeft
  <2>3. Shapes' /\ Located' /\ Engine' /\ OneKind' /\ LineKind'
    BY <1>1, <1>2, <1>3, <1>7, QueueEmpty DEF Shapes, Phases, Located, Engine,
       OneKind, LineKind
  <2>4. Aborted' /\ Phased' /\ Probed'
    BY <1>1, <1>2, <1>4, <1>7 DEF Aborted, Phased, Probed
  <2>5. Promised' /\ AsAsked'
    BY <1>1, <1>7 DEF Promised, Pending, AsAsked
  <2>6. PowerLeft' /\ JogPower' /\ ProbePower'
    BY <1>1, <1>2, <1>3, <1>7, <2>1, <2>2, QueueEmpty DEF PowerLeft, JogPower,
       ProbePower
  <2> QED BY <2>3, <2>4, <2>5, <2>6
<1>8. CASE /\ ~abort /\ phase' = "probing" /\ probing' = TRUE
           /\ ~OutOfLimits /\ queue' = <<Move>> /\ planned' = block.to
           /\ awake' = TRUE /\ state' = "Cycle"
  <2>1. Believed' = Believed
    BY <1>5, <1>8
  <2>2. restart = "none" => machine.power = Believed
    BY <1>2, <1>3, <1>8, QueueEmpty DEF PowerLeft
  <2>3. block.to \in Places
    BY <1>2, <1>8 DEF OutOfLimits
  <2>4. /\ Move \in Planned /\ Move.to = block.to /\ Move.jog = block.jog
        /\ Move.asked = [spindle |-> machine.spindle, coolant |-> machine.coolant,
                         out |-> machine.out, power |-> Move.power]
        /\ Move.power = Believed
    BY <1>1, <1>2, <1>8, <2>3, MoveAsked
  <2>5. /\ queue' \in Seq(Planned) /\ queue' # <<>> /\ Elements(queue') = {Move}
        /\ FinalPos(queue', machine') = block.to /\ FinalPower(queue', machine') = Move.power
    <3>1. <<>> \in Seq(Planned) /\ queue' = Append(<<>>, Move)
      BY <1>8
    <3> QED BY <2>4, <3>1, QueueAppend, QueueEmpty
  <2>6. Shapes' /\ Located' /\ Engine' /\ OneKind' /\ LineKind'
    BY <1>1, <1>2, <1>3, <1>8, <2>4, <2>5 DEF Shapes, Phases, Located, Engine,
       OneKind, LineKind
  <2>7. Aborted' /\ Phased' /\ Probed'
    BY <1>1, <1>2, <1>4, <1>8 DEF Aborted, Phased, Probed
  <2>8. Promised' /\ AsAsked'
    BY <1>1, <1>8, <2>4, <2>5 DEF Promised, Pending, AsAsked
  <2>9. PowerLeft' /\ JogPower' /\ ProbePower'
    BY <1>1, <1>2, <1>8, <2>1, <2>2, <2>4, <2>5 DEF PowerLeft, JogPower, ProbePower
  <2> QED BY <2>6, <2>7, <2>8, <2>9
<1> QED BY <1>3, <1>6, <1>7, <1>8 DEF StartProbe

\* The contact and the end of a probing move.
LEMMA ProbeKeeps == Inv /\ (Contact \/ ProbeEnds) => Inv'
<1> SUFFICES ASSUME Inv, Contact \/ ProbeEnds PROVE Inv'
  OBVIOUS
<1> USE DEF Inv, engineVars
<1>1. /\ phase = "probing" /\ phase' \in {"probing", "end", "flow"}
      /\ UNCHANGED <<laser, machine, abort, restart, cancelling, block, inflight, want>>
  BY DEF Contact, ProbeEnds
<1>2. (Probes' <=> Probes) /\ (OutOfLimits' <=> OutOfLimits)
  BY <1>1, SameLine
<1>3. /\ ~block.jog /\ state # "Jog" /\ block.to # None /\ block.to \in Nat
      /\ \A b \in Elements(queue) : ~b.jog
      /\ ~laser /\ ~MoveSets /\ ~MoveSets'
      /\ restart = "none" => machine.power = Believed
  BY <1>1 DEF LineKind, Phased, Shapes, Blocks, ProbePower, MoveSets
<1>4. CASE Contact \/ (ProbeEnds /\ abort)
  <2>0. /\ UNCHANGED <<gc, state, queue, planned, awake>>
        /\ \/ phase' = phase /\ probing' = FALSE
           \/ phase' = "end" /\ abort /\ probing' = probing
    BY <1>4 DEF Contact, ProbeEnds
  <2>1. Believed' = Believed
    BY <1>1, <2>0 DEF Believed, ModeNow
  <2>2. Shapes' /\ Engine' /\ OneKind' /\ LineKind'
    BY <1>1, <1>3, <2>0 DEF Shapes, Phases, Engine, OneKind, LineKind
  <2>3. Located'
    BY <1>1, <2>0 DEF Located
  <2>4. Aborted' /\ Phased' /\ Probed'
    BY <1>1, <1>2, <1>3, <2>0 DEF Aborted, Phased, Probed
  <2>5. Promised' /\ AsAsked'
    BY <1>1, <2>0 DEF Promised, Pending, AsAsked
  <2>6. PowerLeft' /\ JogPower' /\ ProbePower'
    BY <1>1, <1>3, <2>0, <2>1 DEF PowerLeft, JogPower, ProbePower
  <2> QED BY <2>2, <2>3, <2>4, <2>5, <2>6
<1>5. CASE ProbeEnds /\ ~abort
  <2>1. /\ state = "Idle" /\ phase' = "flow" /\ state' \in {"Idle", "Alarm"}
        /\ gc' = [gc EXCEPT !.pos = IF probing THEN block.to ELSE machine.pos]
        /\ queue' = <<>> /\ planned' = machine.pos /\ awake' = FALSE /\ probing' = FALSE
    BY <1>5 DEF ProbeEnds
  <2>2. machine.pos \in Nat /\ machine \in Machines
    BY PlacesAssumption DEF Shapes, Machines
  <2>3. probing => machine.pos = block.to
    BY <1>1, <1>5, <2>1, QueueEmpty DEF Probed, Located
  <2>4. /\ gc' \in ParserStates /\ gc'.pos = machine.pos /\ gc'.spindle = gc.spindle
        /\ gc'.speed = gc.speed /\ gc'.coolant = gc.coolant /\ gc'.mode = gc.mode
    BY <1>3, <2>1, <2>2, <2>3 DEF Shapes, ParserStates
  <2>5. /\ queue' \in Seq(Planned) /\ Elements(queue') = {}
        /\ FinalPos(queue', machine') = machine.pos
        /\ FinalPower(queue', machine') = machine.power
    <3>1. <<>> \in Seq(Planned)
      OBVIOUS
    <3> QED BY <1>1, <2>1, <3>1, QueueEmpty
  <2>6. Believed' = Believed
    BY <1>1, <2>1, <2>4 DEF Believed, ModeNow
  <2>7. ~cancelling
    BY <2>1 DEF Engine
  <2>8. Shapes' /\ Located' /\ Engine' /\ OneKind' /\ LineKind'
    BY <1>1, <1>3, <2>1, <2>4, <2>5, <2>7 DEF Shapes, Phases, Located, Engine,
       OneKind, LineKind
  <2>9. Aborted' /\ Phased' /\ Probed'
    BY <1>1, <1>2, <1>3, <1>5, <2>1 DEF Aborted, Phased, Probed
  <2>10. Promised' /\ AsAsked'
    BY <1>1, <2>1, <2>4, <2>5 DEF Promised, Pending, AsAsked
  <2>11. PowerLeft' /\ JogPower' /\ ProbePower'
    BY <1>1, <1>3, <2>1, <2>5, <2>6 DEF PowerLeft, JogPower, ProbePower
  <2> QED BY <2>8, <2>9, <2>10, <2>11
<1> QED BY <1>4, <1>5

\* The end of a line.
LEMMA FlowKeeps == Inv /\ (Continue \/ Pause \/ ProgramEnd) => Inv'
<1> SUFFICES ASSUME Inv, Continue \/ Pause \/ ProgramEnd PROVE Inv'
  OBVIOUS
<1> USE DEF Inv, lineVars, engineVars
<1>1. /\ phase = "flow" /\ phase' = "end"
      /\ UNCHANGED <<laser, queue, planned, awake, abort, restart, cancelling, block, inflight, probing>>
  BY DEF Continue, Pause, ProgramEnd
<1>2. (Probes' <=> Probes) /\ (OutOfLimits' <=> OutOfLimits)
  BY <1>1, SameLine
<1>3. ~block.jog /\ state # "Jog" /\ \A b \in Elements(queue) : ~b.jog
  BY <1>1 DEF LineKind
<1>4. ~MoveSets /\ ~MoveSets' /\ phase \notin {"spindle", "coolant", "io"}
      /\ phase' \notin {"spindle", "coolant", "io"}
  BY <1>1 DEF MoveSets
<1> USE <1>1, <1>2, <1>3, <1>4
<1>5. (Continue \/ Pause) => Believed' = Believed
  BY DEF Continue, Pause, Believed, ModeNow
<1>6. CASE Continue
  <2>1. UNCHANGED <<gc, machine, state, want>>
    BY <1>6 DEF Continue
  <2>2. Shapes' /\ Located' /\ Engine' /\ OneKind' /\ LineKind'
    BY <2>1 DEF Shapes, Phases, Located, Engine, OneKind, LineKind
  <2>3. Aborted' /\ Phased' /\ Probed'
    BY <2>1 DEF Aborted, Phased, Probed
  <2>4. Promised' /\ AsAsked'
    BY <2>1 DEF Promised, Pending, AsAsked
  <2>5. PowerLeft' /\ JogPower' /\ ProbePower'
    BY <1>5, <1>6, <2>1 DEF PowerLeft, JogPower, ProbePower
  <2> QED BY <2>2, <2>3, <2>4, <2>5
<1>7. CASE Pause
  <2>1. /\ UNCHANGED <<gc, machine, want>>
        /\ state # "Critical" /\ state' \in {"Alarm", "Hold"}
        /\ state' = "Alarm" => state = "Alarm"
    BY <1>7 DEF Pause, Phased
  <2>2. ~awake /\ ~cancelling /\ queue = <<>>
    <3>1. CASE abort
      BY <3>1 DEF Aborted, Engine
    <3>2. CASE ~abort
      BY <1>7, <3>2, Still DEF Pause
    <3> QED BY <3>1, <3>2
  <2>3. Shapes' /\ Located' /\ Engine' /\ OneKind' /\ LineKind'
    BY <2>1, <2>2 DEF Shapes, Phases, Located, Engine, OneKind, LineKind
  <2>4. Aborted' /\ Phased' /\ Probed'
    BY <2>1 DEF Aborted, Phased, Probed
  <2>5. Promised' /\ AsAsked'
    BY <2>1 DEF Promised, Pending, AsAsked
  <2>6. PowerLeft' /\ JogPower' /\ ProbePower'
    BY <1>5, <1>7, <2>1 DEF PowerLeft, JogPower, ProbePower
  <2> QED BY <2>3, <2>4, <2>5, <2>6
<1>8. CASE ProgramEnd
  <2>1. /\ gc \in ParserStates /\ machine \in Machines /\ want \in Wishes
        /\ machine.spindle = gc.spindle /\ machine.coolant = gc.coolant
        /\ want.speed = gc.speed /\ want.out = machine.out
    BY DEF Shapes, Promised, Pending
  <2>2. /\ queue = <<>>
        /\ abort => /\ gc.spindle = "off" /\ gc.coolant = "off"
                    /\ restart = "none" => machine.power = 0
    <3>1. CASE abort
      BY <3>1 DEF Aborted
    <3>2. CASE ~abort
      BY <1>8, <3>2, Still DEF ProgramEnd
    <3> QED BY <3>1, <3>2
  <2>3. /\ gc' \in ParserStates /\ want' \in Wishes /\ state' = state
        /\ gc'.spindle = "off" /\ gc'.coolant = "off" /\ gc'.mode = "feed"
        /\ gc'.speed = gc.speed /\ gc'.pos = gc.pos
        /\ want'.spindle = "off" /\ want'.coolant = "off" /\ want'.mode = "feed"
        /\ want'.speed = want.speed /\ want'.out = want.out
    BY <1>8, <2>1 DEF ProgramEnd, ParserStates, Wishes, Spindles, Switch, Moves
  <2>4. /\ machine' \in Machines /\ machine'.spindle = "off" /\ machine'.coolant = "off"
        /\ machine'.pos = machine.pos /\ machine'.out = machine.out
        /\ restart = "none" => machine'.power = 0
    <3>1. CASE abort
      BY <1>8, <2>1, <2>2, <3>1 DEF ProgramEnd
    <3>2. CASE ~abort
      BY <1>8, <2>1, <3>2 DEF ProgramEnd, Machines, Spindles, Switch
    <3> QED BY <3>1, <3>2
  <2>5. /\ FinalPos(queue', machine') = FinalPos(queue, machine) /\ Elements(queue') = {}
        /\ FinalPower(queue', machine') = machine'.power
    BY <2>2, <2>4, QueueEmpty
  <2>6. Believed' = 0
    BY <2>3 DEF Believed
  <2>7. Shapes'
    BY <2>3, <2>4 DEF Shapes, Phases
  <2>8. Located' /\ Engine' /\ OneKind' /\ LineKind'
    BY <2>2, <2>3, <2>5 DEF Located, Engine, OneKind, LineKind
  <2>9. Aborted' /\ Phased' /\ Probed'
    BY <2>2, <2>3, <2>4 DEF Aborted, Phased, Probed
  <2>10. Promised'
    BY <2>1, <2>3, <2>4 DEF Promised, Pending
  <2>11. AsAsked' /\ PowerLeft' /\ JogPower' /\ ProbePower'
    BY <2>3, <2>4, <2>5, <2>6 DEF AsAsked, PowerLeft, JogPower, ProbePower
  <2> QED BY <2>7, <2>8, <2>9, <2>10, <2>11
<1> QED BY <1>6, <1>7, <1>8

\* The end of a line, and the start of what it has planned.
LEMMA EndKeeps == Inv /\ EndLine => Inv'
<1> SUFFICES ASSUME Inv, EndLine PROVE Inv'
  OBVIOUS
<1> USE DEF Inv
<1>1. /\ phase = "end" /\ phase' = "idle" /\ abort' = FALSE /\ block' = Fresh(NoLine)
      /\ UNCHANGED <<laser, gc, machine, restart, cancelling, queue, planned, inflight, probing, want>>
      /\ state' = (IF Starts THEN IF Head(queue).jog THEN "Jog" ELSE "Cycle" ELSE state)
      /\ awake' = (awake \/ Starts)
      /\ abort \/ ~Suspended
  BY DEF EndLine, Running
<1>2. /\ block' \in Blocks /\ block'.jog = FALSE /\ block'.to = None
      /\ block'.mode # "probe"
  BY <1>1 DEF Fresh, NoLine, Blocks, None
<1>3. queue # <<>> => /\ Head(queue) \in Elements(queue)
                      /\ state \notin {"Alarm", "Critical", "Hold"} /\ ~cancelling
  BY <1>1, QueueHead DEF Shapes, Aborted, Engine, Suspended
<1>4. Starts \in BOOLEAN /\ (Starts => queue # <<>>)
      /\ (queue # <<>> /\ ~Starts =>
              state # "Idle" /\ (state = "Jog" => awake \/ restart = "stranded"))
  BY <1>3 DEF Starts
<1>5. ~MoveSets /\ ~MoveSets' /\ Believed' = Believed
  BY <1>1 DEF MoveSets, Believed, ModeNow
<1>6. Shapes'
  BY <1>1, <1>2, <1>4 DEF Shapes, Phases
<1>7. Located' /\ Engine' /\ OneKind'
  BY <1>1, <1>3, <1>4 DEF Located, Engine, OneKind
<1>8. LineKind'
  <2>1. ASSUME NEW b \in Elements(queue), b.jog
        PROVE  state' = "Jog" /\ (awake' \/ restart = "stranded")
    <3>1. block.jog /\ (\A c \in Elements(queue) : c.jog) /\ state # "Cycle" /\ queue # <<>>
      BY <1>1, <2>1, QueueEmpty DEF LineKind
    <3>2. CASE Starts
      BY <1>1, <1>3, <3>1, <3>2
    <3>3. CASE ~Starts
      <4>1. state = "Jog" /\ (awake \/ restart = "stranded")
        BY <1>3, <1>4, <3>1, <3>3 DEF Shapes
      <4> QED BY <1>1, <3>3, <4>1
    <3> QED BY <3>2, <3>3
  <2> QED BY <1>1, <2>1 DEF LineKind
<1>9. Aborted' /\ Phased' /\ Probed'
  BY <1>1 DEF Aborted, Phased, Probed
<1>10. Promised' /\ AsAsked'
  BY <1>1, <1>2 DEF Promised, Pending, AsAsked
<1>11. PowerLeft'
  BY <1>1, <1>3, <1>4, <1>5 DEF PowerLeft
<1>12. JogPower' /\ ProbePower'
  BY <1>1, <1>2, <1>3, <1>4, <1>5 DEF JogPower, ProbePower
<1> QED BY <1>6, <1>7, <1>8, <1>9, <1>10, <1>11, <1>12

\* The step engine and the end of a cycle.
LEMMA EngineKeeps ==
    Inv /\ (AutoStart \/ RunBlock \/ EngineStops \/ CycleStop) => Inv'
<1> SUFFICES ASSUME Inv, AutoStart \/ RunBlock \/ EngineStops \/ CycleStop PROVE Inv'
  OBVIOUS
<1> USE DEF Inv, lineVars, engineVars
<1>1. /\ queue \in Seq(Planned)
      /\ machine \in Machines /\ machine.pos \in Nat
      /\ gc \in ParserStates
  BY PlacesAssumption DEF Shapes, Machines
<1>2. UNCHANGED <<laser, phase, block, abort, restart>> /\ block' = block
  BY DEF AutoStart, RunBlock, EngineStops, CycleStop
<1>3. (Probes' <=> Probes) /\ (OutOfLimits' <=> OutOfLimits)
  BY <1>2, SameLine
<1>4. CASE AutoStart
  <2> USE <1>2, <1>3, <1>4 DEF AutoStart
  <2>1. UNCHANGED <<gc, machine, queue, planned, cancelling, inflight, probing, want>>
    OBVIOUS
  <2>2. Believed' = Believed /\ (MoveSets' <=> MoveSets)
    BY <2>1, SamePower
  <2>3. Head(queue) \in Elements(queue) /\ queue # <<>>
    BY <1>1, QueueHead DEF Starts
  <2>4. /\ state' = (IF Head(queue).jog THEN "Jog" ELSE "Cycle") /\ awake' = TRUE
        /\ state \in {"Idle", "Jog"} /\ ~cancelling /\ phase # "probing"
    BY DEF Starts, Running, Engine, Synchronizing
  <2>5. Shapes' /\ Located' /\ Engine' /\ Promised' /\ AsAsked'
    BY <2>1, <2>4 DEF Shapes, Located, Engine, Promised, Pending, AsAsked
  <2>6. OneKind' /\ LineKind'
    BY <2>1, <2>3, <2>4 DEF OneKind, LineKind
  <2>7. Aborted' /\ Phased' /\ Probed'
    BY <2>1, <2>3, <2>4 DEF Aborted, Phased, Probed
  <2>8. PowerLeft' /\ ProbePower'
    BY <2>1, <2>2, <2>3, <2>4 DEF PowerLeft, ProbePower
  <2>9. JogPower'
    BY <2>1, <2>2, <2>3, <2>4 DEF JogPower
  <2> QED BY <2>5, <2>6, <2>7, <2>8, <2>9
<1>5. CASE RunBlock
  <2> USE <1>2, <1>3, <1>5 DEF RunBlock
  <2>1. UNCHANGED <<gc, planned, state, awake, cancelling, inflight, probing, want>>
    OBVIOUS
  <2>2. Believed' = Believed /\ (MoveSets' <=> MoveSets)
    BY <2>1, SamePower
  <2>3. queue # <<>> /\ awake /\ queue' = Tail(queue)
    OBVIOUS
  <2>4. /\ Head(queue) \in Elements(queue) /\ Head(queue) \in Planned
        /\ queue' \in Seq(Planned) /\ Elements(queue') \subseteq Elements(queue)
    BY <1>1, <2>3, QueueHead, QueueKept
  <2>5. /\ machine' \in Machines
        /\ machine'.pos = Head(queue).to /\ machine'.power = Head(queue).power
        /\ machine'.spindle = machine.spindle /\ machine'.coolant = machine.coolant
        /\ machine'.out = machine.out
    BY <1>1, <2>4 DEF Machines, Planned
  <2>6. /\ FinalPos(queue', machine') = FinalPos(queue, machine)
        /\ FinalPower(queue', machine') = FinalPower(queue, machine)
    BY <1>1, <2>3, <2>5, QueueHead
  <2> HIDE <1>5 DEF RunBlock
  <2>7. Shapes'
    BY <2>1, <2>4, <2>5 DEF Shapes
  <2>8. Located' /\ Engine' /\ OneKind'
    BY <2>1, <2>3, <2>4, <2>6 DEF Located, Engine, OneKind
  <2>9. LineKind' /\ Aborted' /\ Phased'
    BY <2>1, <2>3, <2>4 DEF LineKind, Aborted, Phased
  <2>10. Probed' /\ Promised'
    BY <2>1, <2>3, <2>5 DEF Probed, Engine, Promised, Pending
  <2>11. AsAsked'
    BY <2>4, <2>5 DEF AsAsked
  <2>12. PowerLeft'
    BY <2>1, <2>2, <2>3, <2>6 DEF PowerLeft
  <2>13. JogPower' /\ ProbePower'
    BY <2>1, <2>2, <2>4, <2>5 DEF JogPower, ProbePower
  <2> QED BY <2>7, <2>8, <2>9, <2>10, <2>11, <2>12, <2>13
<1>6. CASE EngineStops
  <2> USE <1>2, <1>3
  <2>1. /\ UNCHANGED <<gc, queue, planned, state, cancelling, inflight, probing, want>>
        /\ awake /\ awake' = FALSE
        /\ queue = <<>> \/ Suspended \/ (phase = "probing" /\ ~probing)
    BY <1>6 DEF EngineStops
  <2>2. Believed' = Believed /\ (MoveSets' <=> MoveSets)
    BY <2>1, SamePower
  <2>3. /\ machine' \in Machines
        /\ machine'.spindle = machine.spindle /\ machine'.coolant = machine.coolant
        /\ machine'.out = machine.out
        /\ machine'.power = IF laser /\ machine.spindle = "ccw" /\ state # "Jog"
                            THEN 0 ELSE machine.power
        /\ machine'.pos \in Between(machine.pos, Target)
    <3>1. PICK pos \in Between(machine.pos, Target) : machine' = StoppedAt(pos)
      BY <1>6 DEF EngineStops
    <3>2. pos \in Places
      BY <3>1 DEF Between
    <3> QED BY <1>1, <3>1, <3>2 DEF Machines, StoppedAt
  <2>4. FinalPos(queue, machine') = FinalPos(queue, machine)
    <3>1. CASE queue = <<>>
      <4>1. machine'.pos = machine.pos
        <5>1. /\ machine'.pos \in Nat
              /\ machine'.pos <= machine.pos /\ machine.pos <= machine'.pos
          BY <1>1, <2>3, <3>1, PlacesAssumption DEF Between, Target
        <5> QED BY <1>1, <5>1
      <4> QED BY <3>1, <4>1 DEF FinalPos
    <3>2. CASE queue # <<>>
      BY <3>2 DEF FinalPos
    <3> QED BY <3>1, <3>2
  <2>5. queue # <<>> => FinalPower(queue, machine') = FinalPower(queue, machine)
    BY DEF FinalPower
  <2>6. Shapes'
    BY <2>1, <2>3 DEF Shapes
  <2>7. Located' /\ Engine' /\ OneKind'
    BY <2>1, <2>4 DEF Located, Engine, OneKind
  <2>8. LineKind'
    BY <1>1, <2>1, QueueEmpty DEF LineKind, Suspended
  <2>9. Aborted' /\ Phased'
    BY <2>1 DEF Aborted, Phased
  <2>10. Probed'
    BY <2>1 DEF Probed, Suspended, Engine
  <2>11. Promised' /\ AsAsked'
    BY <2>1, <2>3 DEF Promised, Pending, AsAsked
  <2>12. laser /\ machine.spindle = "ccw" => gc.spindle = "ccw" /\ state # "Jog" /\ Believed = 0
    BY DEF JogPower, Promised, Believed
  <2>13. PowerLeft'
    <3>1. CASE queue = <<>>
      <4>1. /\ FinalPower(queue, machine) = machine.power
            /\ FinalPower(queue, machine') = machine'.power
        BY <3>1, QueueEmpty
      <4>2. CASE laser /\ machine.spindle = "ccw"
        <5>1. FinalPower(queue', machine') = Believed'
          BY <2>1, <2>2, <2>3, <2>12, <4>1, <4>2
        <5> QED BY <5>1 DEF PowerLeft
      <4>3. CASE ~(laser /\ machine.spindle = "ccw")
        <5>1. machine'.power = machine.power /\ ~(laser /\ gc.spindle = "ccw")
          BY <2>3, <4>3 DEF Promised
        <5> QED BY <2>1, <2>2, <4>1, <5>1 DEF PowerLeft
      <4> QED BY <4>2, <4>3
    <3>2. CASE queue # <<>>
      BY <2>1, <2>2, <2>5, <3>2 DEF PowerLeft
    <3> QED BY <3>1, <3>2
  <2>14. JogPower'
    <3>1. machine.spindle = gc.spindle
      BY DEF Promised
    <3> QED BY <2>1, <2>2, <2>3, <3>1 DEF JogPower
  <2>15. ProbePower'
    BY <2>1, <2>2, <2>3 DEF ProbePower
  <2> QED BY <2>6, <2>7, <2>8, <2>9, <2>10, <2>11, <2>13, <2>14, <2>15
<1>7. CASE CycleStop
  <2> USE <1>2, <1>3
  <2>1. /\ UNCHANGED <<machine, awake, inflight, probing, want>>
        /\ ~awake /\ state \in {"Cycle", "Jog"} /\ state' = "Idle" /\ cancelling' = FALSE
        /\ restart # "stranded"
    BY <1>7 DEF CycleStop, Heard
  <2>2. \/ cancelling /\ state = "Jog" /\ queue' = <<>> /\ planned' = machine.pos
        \/ ~cancelling /\ UNCHANGED <<queue, planned>>
    BY <1>7 DEF CycleStop, Engine
  <2>3. /\ gc' \in ParserStates
        /\ gc'.spindle = gc.spindle /\ gc'.speed = gc.speed /\ gc'.mode = gc.mode
        /\ gc'.coolant = gc.coolant
        /\ gc'.pos = IF cancelling THEN machine.pos ELSE gc.pos
    BY <1>1, <1>7 DEF CycleStop, ParserStates
  <2>4. Believed' = Believed /\ (MoveSets' <=> MoveSets)
    BY <2>3, SamePower
  <2>5. queue' \in Seq(Planned) /\ Elements(queue') \subseteq Elements(queue)
    <3>1. <<>> \in Seq(Planned)
      OBVIOUS
    <3> QED BY <1>1, <2>2, <3>1, QueueEmpty
  <2>6. Shapes'
    BY <2>1, <2>2, <2>3, <2>5 DEF Shapes
  <2>7. Located'
    BY <2>1, <2>2, <2>3, QueueEmpty DEF Located
  <2>8. Engine' /\ OneKind' /\ LineKind'
    BY <2>1, <2>2, <2>5, QueueEmpty DEF Engine, OneKind, LineKind
  <2>9. Aborted' /\ Phased'
    BY <2>1, <2>2, <2>3 DEF Aborted, Phased
  <2>10. Probed'
    BY <2>1, <2>2 DEF Probed
  <2>11. Promised' /\ AsAsked'
    BY <2>1, <2>3, <2>5 DEF Promised, Pending, AsAsked
  <2>12. PowerLeft'
    <3>1. CASE cancelling
      <4>1. restart = "none" => machine.power = Believed
        BY <2>2, <3>1 DEF JogPower
      <4>2. restart = "none" => FinalPower(queue', machine') = Believed'
        BY <2>1, <2>2, <2>4, <3>1, <4>1, QueueEmpty
      <4> QED BY <4>2 DEF PowerLeft
    <3>2. CASE ~cancelling
      BY <2>1, <2>2, <2>3, <2>4, <3>2 DEF PowerLeft
    <3> QED BY <3>1, <3>2
  <2>13. JogPower' /\ ProbePower'
    BY <2>1, <2>2, <2>3, <2>4, <2>5 DEF JogPower, ProbePower
  <2> QED BY <2>6, <2>7, <2>8, <2>9, <2>10, <2>11, <2>12, <2>13
<1> QED BY <1>4, <1>5, <1>6, <1>7

\* What the operator asks for while the line goes on.
LEMMA OperatorKeeps ==
    Inv /\ Careful /\ (FeedHold \/ CycleStart \/ JogCancel \/ Unlock) => Inv'
<1> SUFFICES ASSUME Inv, Careful, FeedHold \/ CycleStart \/ JogCancel \/ Unlock PROVE Inv'
  OBVIOUS
<1> USE DEF Inv, lineVars, engineVars
<1>1. UNCHANGED <<laser, gc, machine, queue, planned, phase, block, abort, restart, probing, want>>
  BY DEF FeedHold, CycleStart, JogCancel, Unlock
<1>2. (Probes' <=> Probes) /\ (OutOfLimits' <=> OutOfLimits)
  BY <1>1, SameLine
<1>3. Believed' = Believed /\ (MoveSets' <=> MoveSets)
  BY <1>1, SamePower
<1>4. queue # <<>> => Head(queue) \in Elements(queue)
  BY QueueHead DEF Shapes
<1>5. Located' /\ Promised' /\ AsAsked'
  BY <1>1 DEF FeedHold, CycleStart, JogCancel, Unlock, Located, Promised,
     Pending, AsAsked
<1> USE <1>1, <1>2, <1>3
<1>6. CASE FeedHold
  <2>1. /\ state \in {"Idle", "Cycle"} /\ ~cancelling /\ state' = "Hold"
        /\ UNCHANGED <<awake, cancelling, inflight>>
    BY <1>6 DEF FeedHold, Suspended
  <2>2. Shapes' /\ Engine' /\ OneKind' /\ LineKind'
    BY <2>1 DEF Shapes, Engine, OneKind, LineKind
  <2>3. Aborted' /\ Phased' /\ Probed'
    BY <2>1 DEF Aborted, Phased, Probed
  <2>4. PowerLeft' /\ JogPower' /\ ProbePower'
    BY <2>1 DEF PowerLeft, JogPower, ProbePower
  <2> QED BY <1>5, <2>2, <2>3, <2>4
<1>7. CASE CycleStart
  <2> DEFINE moves == queue # <<>> /\ ~(phase = "probing" /\ ~probing)
  <2>1. /\ state = "Hold" /\ ~awake /\ UNCHANGED <<cancelling, inflight>>
        /\ awake' = moves
        /\ state' = IF moves THEN IF Head(queue).jog THEN "Jog" ELSE "Cycle" ELSE "Idle"
    BY <1>7 DEF CycleStart, Running
  <2>2. Shapes' /\ Engine'
    BY <2>1 DEF Shapes, Engine
  <2>3. OneKind' /\ LineKind'
    BY <1>4, <2>1 DEF OneKind, LineKind
  <2>4. Aborted' /\ Phased' /\ Probed'
    <3>1. Aborted'
      <4>1. abort => queue = <<>>
        BY DEF Aborted
      <4> QED BY <2>1, <4>1 DEF Aborted
    <3>2. Phased'
      BY <2>1 DEF Phased
    <3>3. Probed'
      <4>1. CASE moves
        <5>1. awake' /\ state' # "Idle" /\ (~Head(queue).jog => state' = "Cycle")
          BY <2>1, <4>1
        <5>2. phase = "probing" => ~Head(queue).jog
          BY <1>4, <4>1 DEF LineKind
        <5> QED BY <2>1, <4>1, <5>1, <5>2 DEF Probed
      <4>2. CASE ~moves
        BY <2>1, <4>2 DEF Probed
      <4> QED BY <4>1, <4>2
    <3> QED BY <3>1, <3>2, <3>3
  <2>5. PowerLeft' /\ ProbePower'
    BY <2>1 DEF PowerLeft, ProbePower
  <2>6. JogPower'
    BY <1>4, <2>1 DEF JogPower
  <2> QED BY <1>5, <2>2, <2>3, <2>4, <2>5, <2>6
<1>8. CASE JogCancel
  <2>1. /\ state = "Jog" /\ awake /\ cancelling' = TRUE
        /\ inflight' = (inflight /\ ~block.jog) /\ UNCHANGED <<state, awake>>
    BY <1>8 DEF JogCancel
  <2>2. Shapes' /\ Engine' /\ OneKind' /\ LineKind'
    BY <2>1 DEF Shapes, Engine, OneKind, LineKind
  <2>3. Aborted' /\ Phased' /\ Probed'
    BY <2>1 DEF Aborted, Phased, Probed
  <2>4. PowerLeft' /\ JogPower' /\ ProbePower'
    BY <2>1 DEF PowerLeft, JogPower, ProbePower
  <2> QED BY <1>5, <2>2, <2>3, <2>4
<1>9. CASE Unlock
  <2>1. /\ phase = "idle" /\ state = "Alarm" /\ UNCHANGED <<cancelling, inflight>>
        /\ awake' = (queue # <<>>) /\ ~awake /\ ~cancelling
        /\ \A b \in Elements(queue) : ~b.jog
        /\ state' = IF queue = <<>> THEN "Idle" ELSE IF Head(queue).jog THEN "Jog" ELSE "Cycle"
    BY <1>9 DEF Unlock, Running, Engine, LineKind
  <2>2. Shapes' /\ Engine'
    BY <2>1 DEF Shapes, Engine
  <2>3. OneKind' /\ LineKind'
    BY <1>4, <2>1 DEF OneKind, LineKind
  <2>4. Aborted' /\ Phased' /\ Probed'
    BY <2>1 DEF Aborted, Phased, Probed
  <2>5. PowerLeft' /\ ProbePower'
    BY <2>1 DEF PowerLeft, ProbePower
  <2>6. JogPower'
    BY <1>4, <2>1 DEF JogPower
  <2> QED BY <1>5, <2>2, <2>3, <2>4, <2>5, <2>6
<1> QED BY <1>6, <1>7, <1>8, <1>9

\* A reset that is not in the middle of the words of a line.
LEMMA ResetKeeps == Inv /\ ~MidLineReset /\ Reset => Halted' /\ restart' = "queued"
<1> SUFFICES ASSUME Inv, ~MidLineReset, Reset PROVE Halted' /\ restart' = "queued"
  OBVIOUS
<1> USE DEF Inv
<1>1. PICK pos \in IF awake THEN Between(machine.pos, Target) ELSE {machine.pos},
           power \in {0, machine.power} :
         machine' = [Rest(pos) EXCEPT !.power = power]
  BY DEF Reset
<1>2. pos \in Places /\ power \in Nat
  BY <1>1 DEF Between, Shapes, Machines
<1>3. /\ state' \in {"Alarm", "Idle"} /\ awake' = FALSE /\ abort' = (phase # "idle")
      /\ restart' = "queued" /\ block' = [block EXCEPT !.stale = phase # "idle"]
      /\ UNCHANGED <<laser, gc, planned, queue, phase, cancelling, inflight, probing, want>>
  BY DEF Reset
<1>4. /\ block' \in Blocks /\ (Whole(block) => Whole(block'))
      /\ block'.jog = block.jog /\ block'.to = block.to /\ block'.mode = block.mode
      /\ block'.spindle = block.spindle /\ block'.out = block.out /\ block'.flow = block.flow
  BY <1>3 DEF Shapes, Blocks, Whole
<1>5. (Probes' <=> Probes) /\ (OutOfLimits' <=> OutOfLimits)
  BY <1>4 DEF Probes, OutOfLimits
<1>6. /\ phase \in {"idle", "room", "probing", "end", "motion", "flow"}
      /\ phase = "motion" => Probes \/ OutOfLimits
  BY DEF Reset, Polling, Synchronizing
<1>7. /\ machine' \in Machines
      /\ machine'.spindle = "off" /\ machine'.coolant = "off" /\ machine'.out = "off"
  BY <1>1, <1>2 DEF Rest, Machines, Spindles, Switch
<1>8. Shapes' /\ Phased'
  BY <1>3, <1>4, <1>5, <1>7 DEF Shapes, Phased
<1>9. phase # "idle" => \A b \in Elements(queue) : b.jog = block.jog
  BY QueueKept DEF LineKind, Shapes, Planned, Blocks
<1>10. /\ phase # "idle" /\ block.jog => phase \in {"motion", "room", "end"} /\ block.to \in Places
       /\ phase # "idle" /\ laser /\ block.out = "bad" /\ ~block.jog => block.spindle = "off"
       /\ laser => block.mode # "probe" /\ phase # "probing"
  BY DEF LineKind, Promised, ProbePower
<1> QED BY <1>3, <1>4, <1>5, <1>6, <1>7, <1>8, <1>9, <1>10 DEF Halted

\* What a cycle that was started behind the reset does before the restart.
LEMMA WindowKeeps == Halted /\ restart = "queued" /\ (StartBehind \/ RunBlock) => Halted'
<1> SUFFICES ASSUME Halted, restart = "queued", StartBehind \/ RunBlock PROVE Halted'
  OBVIOUS
<1> USE DEF Halted, lineVars
<1>1. UNCHANGED <<laser, gc, planned, abort, restart, cancelling, phase, block, inflight, probing, want>>
  BY DEF StartBehind, RunBlock
<1>2. (Probes' <=> Probes) /\ (OutOfLimits' <=> OutOfLimits)
  BY <1>1, SameLine
<1>3. queue # <<>> /\ queue \in Seq(Planned) /\ Head(queue) \in Elements(queue)
  BY QueueHead DEF StartBehind, RunBlock, Shapes
<1>4. CASE StartBehind
  <2>1. /\ UNCHANGED <<machine, queue>> /\ awake' = TRUE
        /\ state' = IF Head(queue).jog THEN "Jog" ELSE "Cycle"
    BY <1>4 DEF StartBehind, Running
  <2>2. Shapes' /\ Phased'
    BY <1>1, <1>2, <2>1 DEF Shapes, Phased
  <2> QED BY <1>1, <1>2, <1>3, <2>1, <2>2
<1>5. CASE RunBlock
  <2>1. /\ UNCHANGED <<state, awake>> /\ queue' = Tail(queue)
        /\ machine' = [machine EXCEPT !.pos = Head(queue).to, !.power = Head(queue).power]
    BY <1>5 DEF RunBlock
  <2>2. /\ Head(queue) \in Planned /\ queue' \in Seq(Planned)
        /\ Elements(queue') \subseteq Elements(queue)
    BY <1>3, <2>1, QueueHead, QueueKept
  <2>3. /\ machine' \in Machines /\ machine'.spindle = machine.spindle
        /\ machine'.coolant = machine.coolant /\ machine'.out = machine.out
    BY <2>1, <2>2 DEF Shapes, Machines, Planned
  <2>4. Shapes' /\ Phased'
    BY <1>1, <1>2, <2>1, <2>2, <2>3 DEF Shapes, Phased
  <2> QED BY <1>1, <1>2, <2>1, <2>2, <2>3, <2>4
<1> QED BY <1>4, <1>5

\* The restart leaves nothing planned, and the parser's modes as the outputs are.
LEMMA RestartKeeps == Halted /\ Restart => Inv' /\ restart' # "queued"
<1> SUFFICES ASSUME Halted, Restart PROVE Inv' /\ restart' # "queued"
  OBVIOUS
<1> USE DEF Halted
<1>1. PICK pos \in IF awake THEN Between(machine.pos, Target) ELSE {machine.pos},
           power \in {machine.power}
                     \cup {queue[i].power : i \in IF awake THEN DOMAIN queue \cap {1} ELSE {}} :
         /\ machine' = [machine EXCEPT !.pos = pos, !.power = power]
         /\ gc' = Initial(pos) /\ planned' = pos
         /\ restart' \in {IF power = 0 THEN "none" ELSE "powered"}
                         \cup (IF awake THEN {"stranded"} ELSE {})
  BY DEF Restart
<1>2. /\ queue' = <<>> /\ awake' = FALSE /\ cancelling' = FALSE /\ probing' = FALSE
      /\ inflight' = FALSE /\ want' = Modes /\ UNCHANGED <<laser, state, phase, block, abort>>
  BY DEF Restart
<1>3. (Probes' <=> Probes) /\ (OutOfLimits' <=> OutOfLimits)
  BY <1>2, SameLine
<1>4. pos \in Places /\ pos \in Nat /\ power \in Nat /\ 0 \in Nat
  <2>1. machine \in Machines /\ machine.pos \in Places /\ machine.power \in Nat
    BY DEF Shapes, Machines
  <2>2. \A i \in DOMAIN queue : queue[i] \in Planned
    BY DEF Shapes
  <2> QED BY <1>1, <2>1, <2>2, PlacesAssumption DEF Between, Planned
<1>5. /\ restart' \in {"none", "powered", "stranded"} /\ (restart' = "none" => power = 0)
  BY <1>1
<1>6. /\ gc' \in ParserStates /\ machine' \in Machines /\ want' \in Wishes
      /\ gc'.pos = pos /\ machine'.pos = pos /\ machine'.power = power
      /\ gc'.spindle = "off" /\ gc'.coolant = "off" /\ gc'.mode = "seek" /\ gc'.speed = 0
      /\ machine'.spindle = "off" /\ machine'.coolant = "off" /\ machine'.out = "off"
      /\ want'.spindle = "off" /\ want'.coolant = "off" /\ want'.mode = "seek"
      /\ want'.speed = 0 /\ want'.out = "off"
  BY <1>1, <1>2, <1>4 DEF Initial, Modes, ParserStates, Machines, Wishes,
     Spindles, Switch, Moves, Shapes
<1>7. /\ Elements(queue') = {} /\ queue' \in Seq(Planned)
      /\ FinalPos(queue', machine') = pos /\ FinalPower(queue', machine') = power
  <2>1. <<>> \in Seq(Planned)
    OBVIOUS
  <2> QED BY <1>2, <1>6, <2>1, QueueEmpty
<1>8. Believed' = 0
  BY <1>6 DEF Believed
<1>9. Shapes'
  BY <1>2, <1>5, <1>6, <1>7 DEF Shapes
<1>10. Located' /\ Engine' /\ OneKind' /\ LineKind'
  BY <1>1, <1>2, <1>6, <1>7 DEF Located, Engine, OneKind, LineKind
<1>11. Aborted' /\ Phased' /\ Probed'
  BY <1>2, <1>3, <1>5, <1>6 DEF Aborted, Phased, Probed
<1>12. Promised'
  <2>1. ~Pending' /\ phase' \notin {"speed", "spindle", "coolant", "io"}
    BY <1>2 DEF Pending
  <2> QED BY <1>2, <1>6, <2>1 DEF Promised
<1>13. AsAsked' /\ PowerLeft' /\ JogPower' /\ ProbePower'
  BY <1>2, <1>5, <1>6, <1>7, <1>8 DEF AsAsked, PowerLeft, JogPower, ProbePower
<1> QED BY <1>5, <1>9, <1>10, <1>11, <1>12, <1>13 DEF Inv

-----------------------------------------------------------------------------
(* The theorems: for an operator who pays attention, and when no reset is handled in the middle  *)
(* of a line's words.                                                                            *)

LEMMA Unmoved == ASSUME UNCHANGED vars, Kept PROVE Kept'
<1>1. (Probes' <=> Probes) /\ (OutOfLimits' <=> OutOfLimits)
  BY SameLine DEF vars
<1>2. CASE restart = "queued"
  <2>1. Shapes' /\ Phased'
    BY <1>1, <1>2 DEF Kept, Halted, vars, Shapes, Phased
  <2> QED BY <1>1, <1>2, <2>1 DEF Kept, Halted, vars
<1>3. CASE restart # "queued"
  <2>1. Believed' = Believed /\ (MoveSets' <=> MoveSets)
    BY SamePower DEF vars
  <2>2. Shapes' /\ Located' /\ Engine' /\ OneKind' /\ LineKind'
    BY <1>3 DEF Kept, Inv, vars, Shapes, Located, Engine, OneKind, LineKind
  <2>3. Aborted' /\ Phased' /\ Probed'
    BY <1>1, <1>3 DEF Kept, Inv, vars, Aborted, Phased, Probed
  <2>4. Promised' /\ AsAsked'
    BY <1>3 DEF Kept, Inv, vars, Promised, Pending, AsAsked
  <2>5. PowerLeft' /\ JogPower' /\ ProbePower'
    BY <1>3, <2>1 DEF Kept, Inv, vars, PowerLeft, JogPower, ProbePower
  <2> QED BY <1>3, <2>2, <2>3, <2>4, <2>5 DEF Kept, Inv, vars
<1> QED BY <1>2, <1>3

LEMMA KeptNext ==
    ASSUME Careful, ~MidLineReset PROVE Kept /\ [Next]_vars => Kept'
<1> SUFFICES ASSUME Kept, [Next]_vars PROVE Kept'
  OBVIOUS
<1>1. CASE UNCHANGED vars
  BY <1>1, Unmoved
<1>2. CASE restart # "queued" /\ Next
  <2>1. Inv /\ ~StartBehind /\ ~Restart
    BY <1>2 DEF Kept, StartBehind, Restart
  <2>2. ASSUME NEW line \in Lines, Begin(line) PROVE Inv' /\ restart' = restart
    BY <2>1, <2>2, BeginKeeps DEF Begin
  <2>3. CASE Executes
    <3>1. Inv'
      BY <2>1, <2>3, WordsKeep, MoveKeeps, PlanKeeps, StartProbeKeeps, ProbeKeeps,
         FlowKeeps, EndKeeps
         DEF Executes
    <3>2. restart' = restart
      BY <2>3 DEF Executes, SetSpeed, SetSpindle, SetCoolant, SetOutput, Refuse, WaitForRoom,
         Bail, Plan, StartProbe, ProbeEnds, Continue, Pause, ProgramEnd, EndLine
    <3> QED BY <1>2, <3>1, <3>2 DEF Kept
  <2>4. CASE FeedHold \/ CycleStart \/ JogCancel \/ Unlock
    <3>1. restart' = restart
      BY <2>4 DEF FeedHold, CycleStart, JogCancel, Unlock
    <3> QED BY <1>2, <2>1, <2>4, <3>1, OperatorKeeps DEF Kept
  <2>5. CASE Reset
    BY <2>1, <2>5, ResetKeeps DEF Kept
  <2>6. CASE Contact \/ AutoStart \/ RunBlock \/ EngineStops \/ CycleStop
    <3>1. restart' = restart
      BY <2>6 DEF Contact, AutoStart, RunBlock, EngineStops, CycleStop, lineVars
    <3> QED BY <1>2, <2>1, <2>6, <3>1, ProbeKeeps, EngineKeeps DEF Kept
  <2> QED BY <1>2, <2>1, <2>2, <2>3, <2>4, <2>5, <2>6 DEF Kept, Next, Operator
<1>3. CASE restart = "queued" /\ Next
  <2>1. Halted
    BY <1>3 DEF Kept
  <2>2. StartBehind \/ RunBlock \/ Restart
    BY <1>3 DEF Next, Begin, Executes, Operator, Heard, FeedHold, CycleStart, JogCancel, Reset,
       Unlock, Contact, AutoStart, EngineStops, CycleStop
  <2>3. CASE StartBehind \/ RunBlock
    <3>1. restart' = restart
      BY <2>3 DEF StartBehind, RunBlock
    <3> QED BY <1>3, <2>1, <2>3, <3>1, WindowKeeps DEF Kept
  <2>4. CASE Restart
    BY <2>1, <2>4, RestartKeeps DEF Kept
  <2> QED BY <2>2, <2>3, <2>4
<1> QED BY <1>1, <1>2, <1>3

LEMMA AlwaysKept ==
    ASSUME Careful, ~MidLineReset PROVE Spec => []Kept
<1>1. Init => Kept
  BY InvInit DEF Init, Kept
<1>2. Kept /\ [Next]_vars => Kept'
  BY KeptNext
<1> QED BY <1>1, <1>2, PTL DEF Spec

(* A move is made with the spindle, the coolant, the outputs and the power that the program      *)
(* asked for at that line: gc_execute_line() synchronizes before each word that would change     *)
(* what the planned moves find, and gives every block its own power.  Between a reset and its    *)
(* restart, where the outputs are off, nothing is claimed.                                       *)
THEOREM MovesAsAsked ==
    ASSUME Careful, ~MidLineReset PROVE Spec => CutsAsAsked
<1>1. Kept /\ [Next]_vars =>
        [restart # "queued" /\ queue # <<>> /\ RunBlock =>
           LET b == Head(queue)
           IN [spindle |-> machine.spindle, coolant |-> machine.coolant, out |-> machine.out,
               power |-> b.power] = b.asked]_vars
  <2> SUFFICES ASSUME Kept, queue # <<>>, restart # "queued"
               PROVE  [spindle |-> machine.spindle, coolant |-> machine.coolant,
                       out |-> machine.out, power |-> Head(queue).power] = Head(queue).asked
    OBVIOUS
  <2>1. Head(queue) \in Elements(queue)
    BY QueueHead DEF Kept, Inv, Shapes
  <2> QED BY <2>1 DEF Kept, Inv, AsAsked
<1> QED BY <1>1, AlwaysKept, PTL DEF Spec, CutsAsAsked

(* Between two lines the parser's position is the planner's, and the machine's when nothing is   *)
(* left to run: gc_sync_position() and plan_sync_position() leave no way around them, but for    *)
(* the time from a reset to its restart.                                                         *)
THEOREM PositionAlwaysKnown ==
    ASSUME Careful, ~MidLineReset PROVE Spec => []PositionKnown
<1>1. Kept => PositionKnown
  BY QueueEmpty DEF Kept, Inv, Located, PositionKnown
<1> QED BY <1>1, AlwaysKept, PTL

(* At rest the outputs are what the parser believes they are: a change of the spindle, its speed *)
(* or the coolant is asked of the machine whenever the parser notes one.  A restart behind which *)
(* the machine is left powered or stranded is excepted.                                          *)
THEOREM MachineAlwaysKnown ==
    ASSUME Careful, ~MidLineReset PROVE Spec => []ParserKnowsMachine
<1>1. Kept => ParserKnowsMachine
  <2> SUFFICES ASSUME Inv, phase = "idle", state = "Idle", queue = <<>>, restart = "none"
               PROVE  /\ machine.spindle = gc.spindle /\ machine.coolant = gc.coolant
                      /\ machine.power = Believed
                      /\ ModeNow = gc.mode
    BY DEF Kept, ParserKnowsMachine, Believed
  <2>1. machine.spindle = gc.spindle /\ machine.coolant = gc.coolant
    BY DEF Inv, Promised
  <2>2. ~awake /\ ~MoveSets
    BY DEF Inv, Engine, MoveSets
  <2>3. machine.power = Believed
    BY <2>2, QueueEmpty DEF Inv, PowerLeft
  <2> QED BY <2>1, <2>3 DEF ModeNow
<1> QED BY <1>1, AlwaysKept, PTL
=============================================================================
