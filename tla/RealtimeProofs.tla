--------------------------- MODULE RealtimeProofs ---------------------------
(***************************************************************************)
(* Whatever lines arrive, in any number and any order, and however much    *)
(* the planner and the segment buffer hold: with all commands, a reset     *)
(* leaves nothing that runs but what the line it interrupted plans; as     *)
(* long as no fault has come, no part of a cancelled jog is left to be     *)
(* run; as long as no reset has either, the door and the holds keep what   *)
(* they promise; and before any alarm, a complete hold means rest.         *)
(***************************************************************************)
EXTENDS Realtime, TLAPS

Event == {"feedHold", "cycleStart", "motionCancel", "safetyDoor", "sleep", "reset", "alarm",
          "fault", "doorOpens", "doorCloses", "cycleStop", "critical", "restart"}

Place == [base : {"main", "sync", "aborted"}, loop : BOOLEAN,
          park : {"none", "pullout", "retract", "return", "plunge", "asleep"}, restart : BOOLEAN,
          phase : {"door", "events", "prep", "out", "back"}, then : {"out", "events", "door"}]

Types ==
  /\ events \in Seq(Event)
  /\ at \in Place
  /\ abort \in BOOLEAN /\ awake \in BOOLEAN /\ spindle \in BOOLEAN /\ modalSpindle \in BOOLEAN

\* Nothing is prepared, planned or about to be.
Still ==
  /\ segments = <<>> /\ blocks = <<>> /\ plBlock = "none"
  /\ "executeSysMotion" \notin control

\* A line that goes on after a reset has planned its move, and that is all there is.
OwnMotion ==
  /\ segments \in Seq({"program"}) /\ plBlock \in {"none", "program"}
  /\ "executeSysMotion" \notin control
  /\ \/ blocks = <<>> /\ plBlock = "none" /\ Len(segments) <= Length
     \/ \E b \in [jog : BOOLEAN, left : Nat \ {0}] : blocks = <<b>> /\ Len(segments) + b.left <= Length

\* Between the restart and the main loop's next pass.
ResetInv ==
  abort /\ ~Pending("restart") =>
    /\ ~spindle
    /\ IF at.base = "aborted" THEN OwnMotion
       ELSE Still /\ ~awake /\ ~modalSpindle /\ (at.phase = "prep" => at.then = "out")

ParkedInLoop == ~at.loop => at.park = "none"

LateLine == at.base = "aborted" => abort /\ at.park = "none" /\ "lateLine" \in came

Placed == ParkedInLoop /\ LateLine

-----------------------------------------------------------------------------
(* The queue of events.                                                      *)

LEMMA TakeKeeps ==
  ASSUME NEW q \in Seq(Event), q # <<>>, NEW sent \in Seq(Event), NEW e \in Event, Head(q) # e,
         \E i \in 1 .. Len(q) : q[i] = e
  PROVE  \E i \in 1 .. Len(Tail(q) \o sent) : (Tail(q) \o sent)[i] = e
<1>1. PICK i \in 1 .. Len(q) : q[i] = e
  OBVIOUS
<1>2. i # 1 /\ i - 1 \in 1 .. Len(Tail(q))
  BY <1>1
<1>3. Tail(q)[i - 1] = e
  BY <1>1, <1>2
<1>4. Tail(q) \in Seq(Event)
  OBVIOUS
<1>5. (Tail(q) \o sent)[i - 1] = e /\ i - 1 \in 1 .. Len(Tail(q) \o sent)
  BY <1>2, <1>3, <1>4
<1>6. QED
  BY <1>5

LEMMA TakeBrings ==
  ASSUME NEW q \in Seq(Event), q # <<>>, NEW sent \in Seq(Event), NEW e \in Event,
         \E i \in 1 .. Len(Tail(q) \o sent) : (Tail(q) \o sent)[i] = e
  PROVE  (\E i \in 1 .. Len(q) : q[i] = e) \/ (\E i \in 1 .. Len(sent) : sent[i] = e)
<1>1. PICK i \in 1 .. Len(Tail(q) \o sent) : (Tail(q) \o sent)[i] = e
  OBVIOUS
<1>2. Tail(q) \in Seq(Event) /\ Len(Tail(q)) = Len(q) - 1 /\ Len(q) \in Nat /\ Len(sent) \in Nat
  OBVIOUS
<1>3. CASE i <= Len(Tail(q))
  <2>1. Tail(q)[i] = e
    BY <1>1, <1>2, <1>3
  <2>2. q[i + 1] = e /\ i + 1 \in 1 .. Len(q)
    BY <1>1, <1>2, <1>3, <2>1
  <2>3. QED
    BY <2>2
<1>4. CASE i > Len(Tail(q))
  <2>1. i - Len(Tail(q)) \in 1 .. Len(sent) /\ sent[i - Len(Tail(q))] = e
    BY <1>1, <1>2, <1>4
  <2>2. QED
    BY <2>1
<1>5. QED
  BY <1>1, <1>2, <1>3, <1>4

LEMMA AppendKeeps ==
  ASSUME NEW q \in Seq(Event), NEW c \in Event, NEW e \in Event
  PROVE  /\ Append(q, c) \in Seq(Event)
         /\ (\E i \in 1 .. Len(q) : q[i] = e) => \E i \in 1 .. Len(Append(q, c)) : Append(q, c)[i] = e
         /\ (\E i \in 1 .. Len(Append(q, c)) : Append(q, c)[i] = e) => c = e \/ \E i \in 1 .. Len(q) : q[i] = e
<1>1. /\ Append(q, c) \in Seq(Event) /\ Len(Append(q, c)) = Len(q) + 1 /\ Len(q) \in Nat
      /\ Append(q, c)[Len(q) + 1] = c
      /\ \A i \in 1 .. Len(q) : Append(q, c)[i] = q[i]
  OBVIOUS
<1>2. QED
  BY <1>1

\* A handler that sends `sent`, and an event that is not the one handled.
LEMMA TakeStep ==
  ASSUME Types, events # <<>>, NEW sent \in Seq(Event), Take(sent), NEW e \in Event
  PROVE  /\ events' \in Seq(Event)
         /\ Head(events) # e /\ Pending(e) => Pending(e)'
         /\ Pending(e)' => Pending(e) \/ \E i \in 1 .. Len(sent) : sent[i] = e
<1>1. events \in Seq(Event) /\ events' = Tail(events) \o sent
  BY DEF Types, Take
<1>2. Tail(events) \in Seq(Event)
  BY <1>1
<1>3. events' \in Seq(Event)
  BY <1>1, <1>2
<1>4. Head(events) # e /\ Pending(e) => Pending(e)'
  BY <1>1, TakeKeeps DEF Pending
<1>5. Pending(e)' => Pending(e) \/ \E i \in 1 .. Len(sent) : sent[i] = e
  BY <1>1, TakeBrings DEF Pending
<1>6. QED
  BY <1>3, <1>4, <1>5

LEMMA SendStep ==
  ASSUME Types, NEW c \in Event, events' = Append(events, c), NEW e \in Event
  PROVE  /\ events' \in Seq(Event)
         /\ Pending(e) => Pending(e)'
         /\ Pending(e)' => Pending(e) \/ c = e
<1>1. events \in Seq(Event)
  BY DEF Types
<1>2. QED
  BY <1>1, AppendKeeps DEF Pending

LEMMA QuietStep ==
  ASSUME events' = events, NEW e
  PROVE  Pending(e)' <=> Pending(e)
  BY DEF Pending

-----------------------------------------------------------------------------
(* Types.                                                                    *)

LEMMA TypesInit ==
  ASSUME Init
  PROVE  Types
<1>1. <<>> \in Seq(Event)
  OBVIOUS
<1>2. at \in Place
  BY DEF Init, Place
<1>3. QED
  BY <1>1, <1>2 DEF Init, Types

\* Every event is one of those named.
LEMMA CommandIsEvent ==
  ASSUME NEW c \in Commands
  PROVE  c \in Event
  BY RealtimeAssumption DEF Event

LEMMA TypesHandle ==
  ASSUME Types, HandleEvent
  PROVE  Types'
<1> USE DEF Types, Place
<1>1. events # <<>>
  BY DEF HandleEvent
<1>2. /\ <<>> \in Seq(Event) /\ <<"critical">> \in Seq(Event)
      /\ <<"restart">> \in Seq(Event) /\ <<"safetyDoor">> \in Seq(Event)
  BY DEF Event
<1>3. ASSUME NEW sent \in Seq(Event), Take(sent)
      PROVE  events' \in Seq(Event)
  BY <1>1, <1>3, TakeStep DEF Event
<1>4. \/ Take(<<>>) \/ Take(<<"critical">>) \/ Take(<<"restart">>) \/ Take(<<"safetyDoor">>)
  BY DEF HandleEvent, DoFeedHold, DoMotionCancel, DoSleep, DoCycleStart, DoCycleStop, DoAlarm, DoFault,
         DoReset, DoRestart, DoDoorPin, RequestSafetyDoor
<1>5. events' \in Seq(Event)
  BY <1>2, <1>3, <1>4
<1>6. at' \in Place
  BY DEF HandleEvent, DoFeedHold, DoMotionCancel, DoSleep, DoCycleStart, DoCycleStop, DoAlarm, DoFault,
         DoReset, DoRestart, DoDoorPin, RequestSafetyDoor, InitiateCycle
<1>7. abort' \in BOOLEAN /\ spindle' \in BOOLEAN /\ modalSpindle' \in BOOLEAN
  BY DEF HandleEvent, DoFeedHold, DoMotionCancel, DoSleep, DoCycleStart, DoCycleStop, DoAlarm, DoFault,
         DoReset, DoRestart, DoDoorPin, RequestSafetyDoor, HaltUnchanged, power, stepper, sys
<1>8. awake' \in BOOLEAN
  BY DEF HandleEvent, DoFeedHold, DoMotionCancel, DoSleep, DoCycleStart, DoCycleStop, DoAlarm, DoFault,
         DoReset, DoRestart, DoDoorPin, RequestSafetyDoor, HaltUnchanged, power, stepper, sys, StepperReset, Flush
<1>9. QED
  BY <1>5, <1>6, <1>7, <1>8

\* A parking move is begun, or skipped.
LEMMA MoveToType ==
  ASSUME Types, NEW leg \in {"pullout", "retract", "return", "plunge"}, NEW restart \in BOOLEAN,
         MoveTo(leg, restart)
  PROVE  at' \in Place
<1>1. CASE MoveBlocked
  BY <1>1 DEF MoveTo, Types, Place
<1>2. CASE ~MoveBlocked
  BY <1>2 DEF MoveTo, Types, Place
<1>3. QED
  BY <1>1, <1>2

LEMMA ParkingTypes ==
  ASSUME Types, Park \/ AtDoor \/ PulledOut \/ Parked \/ Returned \/ Plunged
  PROVE  at' \in Place
<1>1. CASE Park
  <2>1. LoopAgain \/ MoveTo("pullout", FALSE)
    BY <1>1 DEF Park
  <2>2. LoopAgain => at' \in Place
    BY DEF LoopAgain, Types, Place
  <2>3. QED
    BY <2>1, <2>2, MoveToType
<1>2. CASE AtDoor
  <2>1. ASSUME NEW bits
        PROVE  RestartFlag(bits) \in BOOLEAN
    BY DEF RestartFlag
  <2> DEFINE noted == IF ajar THEN suspend ELSE suspend \ {"safetyDoorAjar"}
  <2>2. \/ LoopAgain
        \/ MoveTo("return", RestartFlag(noted))
        \/ at' = [at EXCEPT !.park = "return", !.restart = RestartFlag(noted)]
    BY <1>2 DEF AtDoor
  <2>3. RestartFlag(noted) \in BOOLEAN
    BY <2>1
  <2> HIDE DEF noted
  <2>4. QED
    BY <2>2, <2>3, MoveToType DEF LoopAgain, Types, Place
<1>3. CASE PulledOut
  BY <1>3, MoveToType DEF PulledOut
<1>4. CASE Returned
  BY <1>4, MoveToType DEF Returned, LoopAgain, Types, Place
<1>5. CASE Parked \/ Plunged
  BY <1>5 DEF Parked, Plunged, LoopAgain, Types, Place
<1>6. QED
  BY <1>1, <1>2, <1>3, <1>4, <1>5

\* Where parking leaves the protocol task.
LEMMA ParkingStays ==
  ASSUME Types, Park \/ AtDoor \/ PulledOut \/ Parked \/ Returned \/ Plunged
  PROVE  at'.loop = at.loop /\ at'.base = at.base /\ at'.phase \in {at.phase, "prep", "door"}
<1> DEFINE noted == IF ajar THEN suspend ELSE suspend \ {"safetyDoorAjar"}
<1>1. \/ LoopAgain
      \/ \E leg \in {"pullout", "retract", "return", "plunge"} :
           MoveTo(leg, FALSE) \/ MoveTo(leg, RestartFlag(noted))
      \/ at' = [at EXCEPT !.park = "return", !.restart = RestartFlag(noted)]
  BY DEF Park, AtDoor, PulledOut, Parked, Returned, Plunged
<1> HIDE DEF noted
<1>2. ASSUME NEW leg, NEW restart, MoveTo(leg, restart)
      PROVE  at'.loop = at.loop /\ at'.base = at.base /\ at'.phase \in {at.phase, "prep"}
  BY <1>2 DEF MoveTo, Types, Place
<1>3. QED
  BY <1>1, <1>2 DEF LoopAgain, Types, Place

LEMMA TypesStep ==
  ASSUME Types, [Next]_vars
  PROVE  Types'
<1> USE DEF Types, Place, sys, door, stepper, power, Phase, LoopAgain
<1>1. CASE HandleEvent
  BY <1>1, TypesHandle
<1>2. CASE CheckDoor \/ EventsHandled \/ PrepSegment \/ PrepDone
  BY <1>2 DEF CheckDoor, EventsHandled, PrepSegment, PrepDone, Wakes
<1>3. CASE LeaveSuspend \/ FallAsleep \/ WaitSuspended \/ ParkingMoves \/ WakeUp \/ EnterSuspend
  BY <1>3 DEF LeaveSuspend, FallAsleep, WaitSuspended, ParkingMoves, WakeUp, EnterSuspend
<1>4. CASE Park \/ AtDoor \/ PulledOut \/ Parked
  <2>1. at' \in Place
    BY <1>4, ParkingTypes
  <2>2. QED
    BY <1>4, <2>1 DEF Park, AtDoor, PulledOut, Parked
<1>5. CASE Returned \/ Plunged
  <2>1. at' \in Place
    BY <1>5, ParkingTypes
  <2>2. events' = events \/ events' = Append(events, "cycleStart")
    BY <1>5 DEF Returned, Plunged, Resume, CycleStartSent
  <2>3. events' \in Seq(Event)
    BY <2>2, SendStep DEF Event
  <2>4. QED
    BY <1>5, <2>1, <2>3 DEF Returned, Plunged
<1>6. CASE MainLoop \/ SyncAgain
  <2>1. events' = events \/ events' = Append(events, "cycleStart")
    BY <1>6 DEF MainLoop, SyncAgain, AutoCycleStart
  <2>2. events' \in Seq(Event)
    BY <2>1, SendStep DEF Event
  <2>3. QED
    BY <1>6, <2>2 DEF MainLoop, SyncAgain
<1>7. CASE SyncDone
  <2>1. events' = events \/ events' = Append(events, "cycleStart")
    BY <1>7 DEF SyncDone, AutoCycleStart
  <2>2. events' \in Seq(Event)
    BY <2>1, SendStep DEF Event
  <2>3. at' \in Place
    BY <1>7 DEF SyncDone
  <2>4. QED
    BY <1>7, <2>2, <2>3 DEF SyncDone
<1>8. CASE StepInterrupt
  <2>1. events' \in Seq(Event)
    BY <1>8, SendStep DEF StepInterrupt, StepSegment, StepperStops, Reported, Event
  <2>2. QED
    BY <1>8, <2>1 DEF StepInterrupt, StepSegment, StepperStops
<1>9. ASSUME NEW c \in Commands, Command(c)
      PROVE  Types'
  <2>1. events' \in Seq(Event)
    BY <1>9, SendStep, CommandIsEvent DEF Command
  <2>2. QED
    BY <1>9, <2>1 DEF Command
<1>10. CASE UNCHANGED vars
  BY <1>10 DEF vars
<1>11. QED
  BY <1>1, <1>2, <1>3, <1>4, <1>5, <1>6, <1>7, <1>8, <1>9, <1>10
     DEF Next, ProtocolTask, RtSystem, Suspend

-----------------------------------------------------------------------------
(* Where the protocol task is.                                               *)

LEMMA PlacedInit ==
  ASSUME Init
  PROVE  Placed
<1>1. at.base = "main" /\ at.park = "none"
  BY DEF Init
<1>2. QED
  BY <1>1 DEF Placed, ParkedInLoop, LateLine

LEMMA PlacedHandle ==
  ASSUME Types, Placed, HandleEvent
  PROVE  Placed'
<1>1. at' = at \/ at' = [at EXCEPT !.phase = "prep", !.then = "events"]
  BY DEF HandleEvent, DoFeedHold, DoMotionCancel, DoSleep, DoCycleStart, DoCycleStop, DoAlarm, DoFault,
         DoReset, DoRestart, DoDoorPin, RequestSafetyDoor, InitiateCycle
<1>2. abort => abort'
  BY DEF HandleEvent, DoFeedHold, DoMotionCancel, DoSleep, DoCycleStart, DoCycleStop, DoAlarm, DoFault,
         DoReset, DoRestart, DoDoorPin, RequestSafetyDoor, HaltUnchanged, sys
<1>3. came' = came
  BY DEF HandleEvent
<1>4. QED
  BY <1>1, <1>2, <1>3 DEF Placed, ParkedInLoop, LateLine, Types, Place

\* What there has been is not forgotten, and no line is late but after a reset.
LEMMA CameStays ==
  ASSUME [Next]_vars
  PROVE  came \subseteq came' /\ (~abort /\ "lateLine" \in came' => "lateLine" \in came)
<1>1. CASE UNCHANGED vars
  BY <1>1 DEF vars
<1>2. CASE StepInterrupt
  BY <1>2 DEF StepInterrupt, StepSegment, StepperStops
<1>3. CASE \E c \in Commands : Command(c)
  BY <1>3, RealtimeAssumption DEF Command
<1>4. CASE RtSystem
  BY <1>4 DEF RtSystem, CheckDoor, HandleEvent, EventsHandled, PrepSegment, PrepDone
<1>5. CASE Suspend
  BY <1>5 DEF Suspend, LeaveSuspend, Park, FallAsleep, AtDoor, WaitSuspended, ParkingMoves, WakeUp,
              PulledOut, Parked, Returned, Plunged
<1>6. CASE EnterSuspend \/ MainLoop \/ SyncAgain \/ SyncDone
  BY <1>6 DEF EnterSuspend, MainLoop, SyncAgain, SyncDone
<1>7. QED
  BY <1>1, <1>2, <1>3, <1>4, <1>5, <1>6 DEF Next, ProtocolTask

LEMMA PlacedStep ==
  ASSUME Types, Placed, [Next]_vars
  PROVE  Placed'
<1> USE CameStays DEF sys, Placed, ParkedInLoop, LateLine, Types, Place
<1>1. CASE HandleEvent
  BY <1>1, PlacedHandle
<1>2. CASE CheckDoor \/ EventsHandled \/ PrepSegment \/ PrepDone
  BY <1>2 DEF CheckDoor, EventsHandled, PrepSegment, PrepDone, Phase
<1>3. CASE LeaveSuspend \/ FallAsleep \/ WaitSuspended \/ ParkingMoves \/ WakeUp
  BY <1>3 DEF LeaveSuspend, FallAsleep, WaitSuspended, ParkingMoves, WakeUp, Phase, LoopAgain, Suspended, Moving
<1>4. CASE Park \/ AtDoor
  <2>1. at.loop /\ ~abort /\ abort' = abort
    BY <1>4 DEF Park, AtDoor, Suspended
  <2>2. QED
    BY <1>4, <2>1, ParkingStays
<1>5. CASE PulledOut \/ Parked \/ Returned \/ Plunged
  <2>1. at.park # "none" /\ abort' = abort
    BY <1>5 DEF PulledOut, Parked, Returned, Plunged, Moving
  <2>2. QED
    BY <1>5, <2>1, ParkingStays
<1>6. CASE EnterSuspend \/ MainLoop \/ SyncAgain \/ SyncDone
  BY <1>6 DEF EnterSuspend, MainLoop, SyncAgain, SyncDone, Returns, Phase
<1>7. CASE StepInterrupt \/ (\E c \in Commands : Command(c)) \/ UNCHANGED vars
  BY <1>7 DEF StepInterrupt, StepSegment, StepperStops, Command, vars
<1>8. QED
  BY <1>1, <1>2, <1>3, <1>4, <1>5, <1>6, <1>7 DEF Next, ProtocolTask, RtSystem, Suspend

-----------------------------------------------------------------------------
(* A reset.                                                                  *)

\* A block of the line's own, or none, and its segments: what is left is never more.
LEMMA OwnKept ==
  ASSUME OwnMotion, segments' = segments, blocks' = blocks, plBlock' \in {plBlock, "none"},
         "executeSysMotion" \notin control'
  PROVE  OwnMotion'
BY DEF OwnMotion

LEMMA OwnThrown ==
  ASSUME OwnMotion, segments' = <<>>, plBlock' = "none", blocks' = blocks \/ blocks' = <<>>,
         "executeSysMotion" \notin control'
  PROVE  OwnMotion'
<1>1. segments' \in Seq({"program"}) /\ Len(segments') = 0 /\ Len(segments) \in Nat /\ Length \in Nat
  BY RealtimeAssumption DEF OwnMotion
<1>2. CASE blocks' = <<>>
  BY <1>1, <1>2 DEF OwnMotion
<1>3. CASE blocks' = blocks
  <2>1. CASE blocks = <<>>
    BY <1>1, <1>3, <2>1 DEF OwnMotion
  <2>2. CASE blocks # <<>>
    <3>1. PICK b \in [jog : BOOLEAN, left : Nat \ {0}] : blocks = <<b>> /\ Len(segments) + b.left <= Length
      BY <2>2 DEF OwnMotion
    <3>2. blocks' = <<b>> /\ Len(segments') + b.left <= Length
      BY <1>1, <1>3, <3>1
    <3>3. QED
      BY <1>1, <3>1, <3>2 DEF OwnMotion
  <2>3. QED
    BY <2>1, <2>2
<1>4. QED
  BY <1>2, <1>3

LEMMA OwnHandle ==
  ASSUME OwnMotion, HandleEvent, Head(events) \notin {"restart", "reset"}
  PROVE  OwnMotion'
<1>1. "executeSysMotion" \notin control
  BY DEF OwnMotion
<1>2. CASE DoFeedHold \/ DoMotionCancel \/ DoSleep
  <2>1. StartHolding => plBlock' \in {plBlock, "none"} /\ "executeSysMotion" \notin control'
    BY <1>1 DEF StartHolding
  <2>2. plBlock' \in {plBlock, "none"} /\ "executeSysMotion" \notin control'
    BY <1>1, <1>2, <2>1 DEF DoFeedHold, DoMotionCancel, DoSleep, Halt
  <2>3. blocks' = blocks /\ segments' = segments
    BY <1>2 DEF DoFeedHold, DoMotionCancel, DoSleep, HaltUnchanged
  <2>4. QED
    BY <2>2, <2>3, OwnKept
<1>3. CASE DoCycleStart
  <2>1. blocks' = blocks /\ segments' = segments /\ plBlock' = plBlock /\ "executeSysMotion" \notin control'
    BY <1>1, <1>3 DEF DoCycleStart, InitiateCycle, stepper
  <2>2. QED
    BY <2>1, OwnKept
<1>4. CASE DoCycleStop
  <2>1. CASE Flush
    BY <2>1, OwnThrown DEF Flush, StepperReset
  <2>2. CASE ~Flush
    <3>1. /\ blocks' = blocks /\ segments' = segments /\ plBlock' \in {plBlock, "none"}
          /\ "executeSysMotion" \notin control'
      BY <1>1, <1>4, <2>2 DEF DoCycleStop, MotionStopped
    <3>2. QED
      BY <3>1, OwnKept
  <2>3. QED
    BY <2>1, <2>2
<1>5. CASE DoAlarm("Alarm") \/ DoAlarm("Critical") \/ DoDoorPin(TRUE) \/ DoDoorPin(FALSE) \/ RequestSafetyDoor
  <2>1. blocks' = blocks /\ segments' = segments /\ plBlock' = plBlock /\ control' = control
    BY <1>5 DEF DoAlarm, DoDoorPin, RequestSafetyDoor, stepper, sys
  <2>2. QED
    BY <1>1, <2>1, OwnKept
<1>6. CASE DoFault
  <2>1. blocks' = blocks /\ control' = control
        /\ (StepperReset \/ (segments' = segments /\ plBlock' = plBlock))
    BY <1>6 DEF DoFault, sys
  <2>2. CASE StepperReset
    BY <1>1, <2>1, <2>2, OwnThrown DEF StepperReset
  <2>3. CASE ~StepperReset
    BY <1>1, <2>1, <2>3, OwnKept
  <2>4. QED
    BY <2>2, <2>3
<1>7. QED
  BY <1>2, <1>3, <1>4, <1>5, <1>6 DEF HandleEvent

\* Handlers other than those of the reset: nothing is there for them to start, but for the
\* line's own motion.
LEMMA ResetHandle ==
  ASSUME Types, ResetInv, HandleEvent
  PROVE  ResetInv'
<1>1. events # <<>> /\ at.phase = "events"
  BY DEF HandleEvent
<1>2. CASE Head(events) = "restart" /\ DoRestart
  <2>1. /\ segments' = <<>> /\ blocks' = <<>> /\ plBlock' = "none" /\ control' = {}
        /\ ~awake' /\ ~spindle' /\ ~modalSpindle' /\ at' = at
    BY <1>2 DEF DoRestart, StepperReset
  <2>2. segments' \in Seq({"program"}) /\ Len(segments') = 0 /\ Length \in Nat
    BY <2>1, RealtimeAssumption
  <2>3. OwnMotion'
    BY <2>1, <2>2 DEF OwnMotion
  <2>4. QED
    BY <1>1, <2>1, <2>3 DEF ResetInv, Still
<1>3. CASE Head(events) = "reset" /\ DoReset
  <2>2. Pending("restart")'
    <3>1. events \in Seq(Event) /\ events' = Tail(events) \o <<"restart">>
      BY <1>3 DEF Types, DoReset, Take
    <3>2. Len(Tail(events)) + 1 \in 1 .. Len(events') /\ events'[Len(Tail(events)) + 1] = "restart"
      BY <1>1, <3>1
    <3>3. QED
      BY <3>2 DEF Pending
  <2>3. QED
    BY <2>2 DEF ResetInv
<1>4. ASSUME Head(events) \notin {"restart", "reset"}
      PROVE  ResetInv'
  <2>1. abort' = abort /\ spindle' = spindle /\ modalSpindle' = modalSpindle
    BY <1>4 DEF HandleEvent, DoFeedHold, DoMotionCancel, DoSleep, DoCycleStart, DoCycleStop, DoAlarm, DoFault,
         DoReset, DoRestart, DoDoorPin, RequestSafetyDoor, HaltUnchanged, power, stepper, sys
  <2>2. Take(<<>>) \/ Take(<<"critical">>) \/ Take(<<"safetyDoor">>)
    BY <1>4 DEF HandleEvent, DoFeedHold, DoMotionCancel, DoSleep, DoCycleStart, DoCycleStop, DoAlarm, DoFault,
         DoDoorPin, RequestSafetyDoor
  <2>3. <<>> \in Seq(Event) /\ <<"critical">> \in Seq(Event) /\ <<"safetyDoor">> \in Seq(Event) /\ "restart" \in Event
    BY DEF Event
  <2>4. Pending("restart") => Pending("restart")'
    BY <1>1, <1>4, <2>2, <2>3, TakeStep
  <2>5. at'.base = at.base
    BY <1>4 DEF HandleEvent, DoFeedHold, DoMotionCancel, DoSleep, DoCycleStart, DoCycleStop, DoAlarm, DoFault,
         DoDoorPin, RequestSafetyDoor, InitiateCycle, Types, Place
  <2>6. CASE at.base = "aborted"
    BY <1>4, <2>1, <2>4, <2>5, <2>6, OwnHandle DEF ResetInv
  <2>7. SUFFICES ASSUME at.base # "aborted", Still, ~awake, abort, ~Pending("restart")
                 PROVE  Still' /\ ~awake' /\ (at'.phase = "prep" => at'.then = "out")
    BY <2>1, <2>4, <2>5, <2>6, <1>1 DEF ResetInv
  <2>8. /\ blocks' = <<>> /\ segments' = <<>> /\ ~awake'
        /\ plBlock' = "none" /\ "executeSysMotion" \notin control'
    <3>1. CASE DoFeedHold \/ DoMotionCancel \/ DoSleep
      <4>1. StartHolding => plBlock' = "none" /\ "executeSysMotion" \notin control'
        BY <2>7 DEF StartHolding, Still
      <4>2. plBlock' = "none" /\ "executeSysMotion" \notin control'
        BY <3>1, <4>1, <2>7 DEF DoFeedHold, DoMotionCancel, DoSleep, Halt, Still
      <4>3. blocks' = blocks /\ segments' = segments /\ awake' = awake
        BY <3>1 DEF DoFeedHold, DoMotionCancel, DoSleep, HaltUnchanged
      <4>4. QED
        BY <4>2, <4>3, <2>7 DEF Still
    <3>2. CASE DoCycleStart
      BY <3>2, <2>7 DEF DoCycleStart, InitiateCycle, stepper, Still
    <3>3. CASE DoCycleStop
      <4>1. Flush => blocks' = <<>> /\ segments' = <<>> /\ ~awake' /\ plBlock' = "none" /\ control' = {}
        BY DEF Flush, StepperReset
      <4>2. CASE Flush
        BY <4>1, <4>2
      <4>3. CASE ~Flush
        BY <3>3, <4>3, <2>7 DEF DoCycleStop, MotionStopped, Still
      <4>4. QED
        BY <4>2, <4>3
    <3>4. CASE DoAlarm("Alarm") \/ DoAlarm("Critical") \/ DoDoorPin(TRUE) \/ DoDoorPin(FALSE) \/ RequestSafetyDoor
      <4>1. /\ blocks' = blocks /\ segments' = segments /\ awake' = awake
            /\ plBlock' = plBlock /\ control' = control
        BY <3>4 DEF DoAlarm, DoDoorPin, RequestSafetyDoor, stepper, sys
      <4>2. QED
        BY <4>1, <2>7 DEF Still
    <3>5. CASE DoFault
      BY <3>5, <2>7 DEF DoFault, StepperReset, sys, Still
    <3>6. QED
      BY <1>4, <3>1, <3>2, <3>3, <3>4, <3>5 DEF HandleEvent
  <2>9. at' = at
    BY <1>4, <2>7 DEF Still, HandleEvent, DoFeedHold, DoMotionCancel, DoSleep, DoCycleStart, DoCycleStop, DoAlarm, DoFault,
         DoDoorPin, RequestSafetyDoor, InitiateCycle
  <2>10. QED
    BY <1>1, <2>8, <2>9 DEF Still
<1>5. QED
  BY <1>2, <1>3, <1>4 DEF HandleEvent

\* One round of preparing the line's own block.
LEMMA OwnPrep ==
  ASSUME OwnMotion, PrepSegment
  PROVE  OwnMotion'
<1>1. blocks # <<>> /\ Prepping = "program" /\ "executeSysMotion" \notin control
  BY DEF OwnMotion, PrepSegment, CanPrep, Prepping
<1>2. PICK b \in [jog : BOOLEAN, left : Nat \ {0}] : blocks = <<b>> /\ Len(segments) + b.left <= Length
  BY <1>1 DEF OwnMotion
<1>3. blocks[1] = b /\ Tail(blocks) = <<>> /\ b.left \in Nat \ {0}
  BY <1>2
<1>4. Length \in Nat /\ segments \in Seq({"program"}) /\ Len(segments) \in Nat
  BY RealtimeAssumption DEF OwnMotion
<1>5. "executeSysMotion" \notin control'
  BY <1>1 DEF PrepSegment, EndsMotion
<1>6. CASE segments' = segments
  <2>1. blocks' = blocks /\ plBlock' = "program"
    BY <1>1, <1>4, <1>6 DEF PrepSegment
  <2>2. QED
    BY <1>2, <1>4, <1>5, <1>6, <2>1 DEF OwnMotion
<1>7. CASE segments' = Append(segments, "program")
  <2>1. segments' \in Seq({"program"}) /\ Len(segments') = Len(segments) + 1
    BY <1>4, <1>7
  <2>2. CASE b.left > 1 /\ plBlock' = "program" /\ blocks' = [blocks EXCEPT ![1].left = b.left - 1]
    <3>1. [b EXCEPT !.left = b.left - 1] \in [jog : BOOLEAN, left : Nat \ {0}]
      BY <1>3, <2>2
    <3>2. blocks' = <<[b EXCEPT !.left = b.left - 1]>> /\ Len(segments') + (b.left - 1) <= Length
      BY <1>2, <1>3, <1>4, <2>1, <2>2
    <3>3. QED
      BY <1>5, <2>1, <2>2, <3>1, <3>2 DEF OwnMotion
  <2>3. CASE b.left <= 1 /\ plBlock' = "none" /\ blocks' = <<>>
    <3>1. Len(segments') <= Length
      BY <1>2, <1>3, <1>4, <2>1, <2>3
    <3>2. QED
      BY <1>5, <2>1, <2>3, <3>1 DEF OwnMotion
  <2>4. QED
    BY <1>1, <1>3, <1>4, <1>7, <2>1, <2>2, <2>3 DEF PrepSegment, EndsMotion
<1>8. QED
  BY <1>1, <1>6, <1>7 DEF PrepSegment

\* The line that the reset has interrupted plans its own motion.
LEMMA OwnPlanned ==
  ASSUME Still, Placed, SyncDone
  PROVE  OwnMotion'
<1>1. Length \in Nat \ {0}
  BY RealtimeAssumption
<1>2. /\ segments' = <<>> /\ plBlock' = "none" /\ "executeSysMotion" \notin control'
      /\ blocks' = <<>> \/ blocks' = Append(<<>>, Motion(FALSE))
  BY DEF SyncDone, Still, sys
<1>3. segments' \in Seq({"program"}) /\ Len(segments') = 0
  BY <1>2
<1>4. Motion(FALSE) \in [jog : BOOLEAN, left : Nat \ {0}] /\ Motion(FALSE).left = Length
  BY <1>1 DEF Motion
<1>5. ASSUME NEW m
      PROVE  Append(<<>>, m) = <<m>>
  OBVIOUS
<1>6. CASE blocks' = <<>>
  BY <1>1, <1>2, <1>3, <1>6 DEF OwnMotion
<1>7. CASE blocks' = Append(<<>>, Motion(FALSE))
  <2> DEFINE m == Motion(FALSE)
  <2>1. blocks' = <<m>>
    BY <1>5, <1>7
  <2>2. m \in [jog : BOOLEAN, left : Nat \ {0}] /\ m.left = Length
    BY <1>4
  <2> HIDE DEF m
  <2>3. Len(segments') + m.left <= Length
    BY <1>1, <1>3, <2>2
  <2>4. QED
    BY <1>2, <1>3, <2>1, <2>2, <2>3 DEF OwnMotion
<1>8. QED
  BY <1>2, <1>6, <1>7

LEMMA ResetStep ==
  ASSUME Types, Placed, ResetInv, [Next]_vars
  PROVE  ResetInv'
<1> USE DEF sys, door, stepper, power
<1>1. CASE HandleEvent
  BY <1>1, ResetHandle
<1>2. CASE UNCHANGED vars
  BY <1>2, QuietStep DEF vars, ResetInv, Still, OwnMotion
<1>3. CASE MainLoop
  BY <1>3 DEF MainLoop, ResetInv
<1>4. CASE SyncAgain
  BY <1>4 DEF SyncAgain, ResetInv
<1>5. ASSUME NEW c \in Commands, Command(c)
      PROVE  ResetInv'
  <2>1. Pending("restart") => Pending("restart")'
    BY <1>5, SendStep, CommandIsEvent DEF Command, Event
  <2>2. QED
    BY <1>5, <2>1 DEF Command, ResetInv, Still, OwnMotion
<1>6. CASE StepInterrupt
  <2>1. Pending("restart") => Pending("restart")'
    BY <1>6, SendStep, QuietStep DEF StepInterrupt, StepSegment, StepperStops, Reported, Event
  <2>2. /\ abort' = abort /\ spindle' = spindle /\ modalSpindle' = modalSpindle /\ at' = at
        /\ blocks' = blocks /\ plBlock' = plBlock /\ control' = control
        /\ (~awake => ~awake') /\ (segments = <<>> => segments' = <<>>)
    BY <1>6 DEF StepInterrupt, StepSegment, StepperStops
  <2>3. OwnMotion => OwnMotion'
    <3>1. SUFFICES ASSUME OwnMotion
                   PROVE  OwnMotion'
      OBVIOUS
    <3>2. CASE segments' = segments
      BY <2>2, <3>1, <3>2 DEF OwnMotion
    <3>3. CASE segments # <<>> /\ segments' = Tail(segments)
      <4>1. segments' \in Seq({"program"}) /\ Len(segments') = Len(segments) - 1 /\ Len(segments) \in Nat
        BY <3>1, <3>3 DEF OwnMotion
      <4>2. QED
        BY <2>2, <3>1, <4>1, RealtimeAssumption DEF OwnMotion
    <3>4. QED
      BY <1>6, <3>2, <3>3 DEF StepInterrupt, StepSegment, StepperStops
  <2>4. QED
    BY <2>1, <2>2, <2>3 DEF ResetInv, Still
<1>7. CASE LeaveSuspend \/ FallAsleep \/ WaitSuspended \/ ParkingMoves \/ WakeUp \/ EnterSuspend
  <2>1. Pending("restart") <=> Pending("restart")'
    BY <1>7, QuietStep DEF LeaveSuspend, FallAsleep, WaitSuspended, ParkingMoves, WakeUp, EnterSuspend
  <2>2. at'.phase # "prep" /\ at'.base = at.base
    BY <1>7 DEF LeaveSuspend, FallAsleep, WaitSuspended, ParkingMoves, WakeUp, EnterSuspend,
                Phase, LoopAgain, Types, Place, Moving
  <2>3. /\ abort' = abort /\ control' = control /\ blocks' = blocks /\ segments' = segments
        /\ plBlock' = plBlock /\ modalSpindle' = modalSpindle
        /\ (~spindle => ~spindle') /\ (~awake => ~awake')
    BY <1>7 DEF LeaveSuspend, FallAsleep, WaitSuspended, ParkingMoves, WakeUp, EnterSuspend
  <2>4. QED
    BY <2>1, <2>2, <2>3, OwnKept DEF ResetInv, Still, OwnMotion
<1>8. CASE CheckDoor
  <2>1. Pending("restart") <=> Pending("restart")'
    BY <1>8, QuietStep DEF CheckDoor
  <2>2. at'.phase = "events" /\ abort' = abort /\ spindle' = spindle /\ modalSpindle' = modalSpindle
        /\ awake' = awake /\ segments' = segments /\ blocks' = blocks /\ at'.base = at.base
    BY <1>8 DEF CheckDoor, Phase, Types, Place
  <2>3. "executeSysMotion" \notin control =>
          plBlock' \in {plBlock, "none"} /\ "executeSysMotion" \notin control'
    BY <1>8 DEF CheckDoor, DoSafetyDoor, StartHolding
  <2>4. QED
    BY <2>1, <2>2, <2>3, OwnKept DEF ResetInv, Still, OwnMotion
<1>9. CASE EventsHandled
  BY <1>9, QuietStep DEF EventsHandled, ResetInv, Still, OwnMotion, Types, Place
<1>10. CASE PrepSegment
  <2>1. ~Still
    BY <1>10 DEF PrepSegment, CanPrep, Prepping, Still
  <2>2. events' = events /\ abort' = abort /\ spindle' = spindle /\ at' = at
    BY <1>10 DEF PrepSegment
  <2>3. QED
    BY <1>10, <2>1, <2>2, QuietStep, OwnPrep DEF ResetInv
<1>11. CASE PrepDone
  BY <1>11, QuietStep DEF PrepDone, ResetInv, Still, OwnMotion, Wakes, Types, Place
<1>12. CASE Park \/ AtDoor
  BY <1>12, QuietStep DEF Park, AtDoor, ResetInv
<1>13. CASE PulledOut \/ Parked \/ Returned \/ Plunged
  <2>1. Pending("restart") => Pending("restart")'
    <3>1. events' = events \/ events' = Append(events, "cycleStart")
      BY <1>13 DEF PulledOut, Parked, Returned, Plunged, Resume, CycleStartSent
    <3>2. QED
      BY <3>1, QuietStep, SendStep DEF Event
  <2>2. abort' = abort /\ awake' = awake /\ segments' = segments /\ blocks' = blocks /\ modalSpindle' = modalSpindle
    BY <1>13 DEF PulledOut, Parked, Returned, Plunged
  <2>3. at.base # "aborted" /\ at'.base = at.base
    BY <1>13 DEF PulledOut, Parked, Returned, Plunged, Moving, MoveTo, LoopAgain, Placed, LateLine, Types, Place
  <2>4. SUFFICES ASSUME abort, Still, ~spindle, ~modalSpindle
                 PROVE  plBlock' = "none" /\ "executeSysMotion" \notin control' /\ ~spindle' /\ at'.phase # "prep"
    BY <2>1, <2>2, <2>3 DEF ResetInv, Still
  <2>5. plBlock' = "none" /\ "executeSysMotion" \notin control' /\ ~spindle'
    <3>1. CASE PulledOut
      BY <3>1, <2>4 DEF PulledOut, MoveTo, MoveBlocked, Still
    <3>2. CASE Parked
      BY <3>2, <2>4 DEF Parked, Still
    <3>3. CASE Returned
      BY <3>3, <2>4 DEF Returned, MoveTo, MoveBlocked, Still
    <3>4. CASE Plunged
      BY <3>4, <2>4 DEF Plunged, Still
    <3>5. QED
      BY <1>13, <3>1, <3>2, <3>3, <3>4
  <2>6. at'.phase # "prep"
    BY <1>13, <2>4 DEF PulledOut, Parked, Returned, Plunged, MoveTo, MoveBlocked, Moving, LoopAgain, Types, Place
  <2>7. QED
    BY <2>5, <2>6
<1>14. CASE SyncDone
  <2>1. events' = events \/ events' = Append(events, "cycleStart")
    BY <1>14 DEF SyncDone, AutoCycleStart
  <2>2. Pending("restart") => Pending("restart")'
    BY <2>1, QuietStep, SendStep DEF Event
  <2>3. abort' = abort /\ (abort => spindle' = spindle /\ at'.base = "aborted") /\ at.base = "sync"
    BY <1>14 DEF SyncDone, Types, Place
  <2>4. QED
    BY <1>14, <2>2, <2>3, OwnPlanned DEF ResetInv
<1>15. QED
  BY <1>1, <1>2, <1>3, <1>4, <1>5, <1>6, <1>7, <1>8, <1>9, <1>10, <1>11, <1>12, <1>13, <1>14
     DEF Next, ProtocolTask, RtSystem, Suspend

LEMMA OwnIsOneMotion ==
  ASSUME OwnMotion
  PROVE  OneMotionLeft
<1>1. segments \in Seq({"program"})
  BY DEF OwnMotion
<1>2. \A i \in 1 .. Len(segments) : segments[i] = "program"
  BY <1>1
<1>3. CASE blocks = <<>>
  BY <1>2, <1>3 DEF OwnMotion, OneMotionLeft
<1>4. CASE blocks # <<>>
  <2>1. PICK b \in [jog : BOOLEAN, left : Nat \ {0}] : blocks = <<b>> /\ Len(segments) + b.left <= Length
    BY <1>4 DEF OwnMotion
  <2>2. Len(blocks) = 1 /\ blocks[1] = b
    BY <2>1
  <2>3. QED
    BY <1>2, <2>1, <2>2 DEF OneMotionLeft
<1>5. QED
  BY <1>3, <1>4

\* Whatever was under way when the reset came - a cycle, a jog, any of the moves
\* of parking and restoring - nothing is left that could move or turn, but for the
\* one motion of a line that the reset found waiting.
THEOREM NothingRunsAfterReset == Spec => []ResetStopsEverything
<1>1. Init => Types /\ Placed /\ ResetInv
  BY TypesInit, PlacedInit DEF Init, ResetInv
<1>2. Types /\ Placed /\ ResetInv /\ [Next]_vars => Types' /\ Placed' /\ ResetInv'
  BY TypesStep, PlacedStep, ResetStep
<1>3. ResetInv => ResetStopsEverything
  BY OwnIsOneMotion DEF ResetInv, Still, ResetStopsEverything
<1>4. QED
  BY <1>1, <1>2, <1>3, PTL DEF Spec

-----------------------------------------------------------------------------
(* The cancel of a jog.                                                      *)

\* The one handler that takes the machine out of Critical is a feed hold, which
\* would leave a jog that was being cancelled to a cycle start; only a fault
\* makes the machine Critical.
NotCritical == state # "Critical" /\ ~Pending("critical") /\ ~Pending("fault")

\* Where the cancel of a jog may still be noted.
CancelNoted == "jogCancel" \in suspend => state \in {"Jog", "Sleep", "Alarm", "Idle"}

\* In Idle it is noted only after a reset, an alarm and an unlock: the jog is gone.
CancelStale ==
  "jogCancel" \in suspend /\ state = "Idle" =>
    Still /\ at.park = "none" /\ (abort => Pending("restart"))

\* A restart is handled before the events are left.
RestartFirst == Pending("restart") => at.phase = "events" \/ (at.phase = "prep" /\ at.then = "events")

BackAfter == at.phase = "back" => abort \/ suspend = {}

JogInv == NotCritical /\ CancelNoted /\ CancelStale /\ RestartFirst /\ ParkedInLoop /\ BackAfter

LEMMA JogHandle ==
  ASSUME Types, JogInv, HandleEvent
  PROVE  JogInv'
<1>1. events # <<>> /\ at.phase = "events"
  BY DEF HandleEvent
<1>2. at' = at \/ at' = [at EXCEPT !.phase = "prep", !.then = "events"]
  BY DEF HandleEvent, DoFeedHold, DoMotionCancel, DoSleep, DoCycleStart, DoCycleStop, DoAlarm, DoFault,
         DoReset, DoRestart, DoDoorPin, RequestSafetyDoor, InitiateCycle
<1>3. RestartFirst' /\ ParkedInLoop' /\ BackAfter'
  BY <1>1, <1>2 DEF JogInv, RestartFirst, ParkedInLoop, BackAfter, Types, Place
<1>4. Head(events) \notin {"critical", "fault"}
  <2>1. 1 \in 1 .. Len(events) /\ events[1] = Head(events)
    BY <1>1 DEF Types
  <2>2. QED
    BY <2>1 DEF JogInv, NotCritical, Pending
<1>5. Take(<<>>) \/ Take(<<"restart">>) \/ Take(<<"safetyDoor">>)
  BY <1>4 DEF HandleEvent, DoFeedHold, DoMotionCancel, DoSleep, DoCycleStart, DoCycleStop, DoAlarm,
         DoReset, DoRestart, DoDoorPin, RequestSafetyDoor
<1>6. <<>> \in Seq(Event) /\ <<"restart">> \in Seq(Event) /\ <<"safetyDoor">> \in Seq(Event)
      /\ {"restart", "critical", "fault"} \subseteq Event
  BY DEF Event
<1>7. ~Pending("critical")' /\ ~Pending("fault")'
  <2>1. /\ \A i \in 1 .. Len(<<>>) : <<>>[i] \notin {"critical", "fault"}
        /\ \A i \in 1 .. Len(<<"restart">>) : <<"restart">>[i] \notin {"critical", "fault"}
        /\ \A i \in 1 .. Len(<<"safetyDoor">>) : <<"safetyDoor">>[i] \notin {"critical", "fault"}
    OBVIOUS
  <2>2. PICK sent \in Seq(Event) : Take(sent) /\ \A i \in 1 .. Len(sent) : sent[i] \notin {"critical", "fault"}
    BY <1>5, <1>6, <2>1
  <2>3. ~Pending("critical") /\ ~Pending("fault")
    BY DEF JogInv, NotCritical
  <2>4. QED
    BY <1>1, <1>6, <2>2, <2>3, TakeStep
<1>8. Head(events) # "restart" /\ Pending("restart") => Pending("restart")'
  BY <1>1, <1>5, <1>6, TakeStep
<1>9. state' # "Critical" /\ CancelNoted' /\ CancelStale'
  <2> USE <1>1 DEF JogInv, NotCritical, CancelNoted
  <2>1. CASE DoFeedHold
    BY <2>1 DEF DoFeedHold, Halt, HoldComplete, CancelStale
  <2>2. CASE DoMotionCancel
    BY <2>2 DEF DoMotionCancel, Halt, HoldComplete, CancelStale
  <2>3. CASE DoSleep
    BY <2>3 DEF DoSleep, CancelStale
  <2>4. CASE DoCycleStart
    BY <2>4 DEF DoCycleStart, InitiateCycle, CancelStale
  <2>5. CASE DoCycleStop
    BY <2>5 DEF DoCycleStop, HoldComplete, CancelStale
  <2>6. CASE DoAlarm("Alarm")
    BY <2>6 DEF DoAlarm, CancelStale
  <2>7. CASE DoReset
    <3>1. Pending("restart")'
      <4>1. events \in Seq(Event) /\ events' = Tail(events) \o <<"restart">>
        BY <2>7 DEF Types, DoReset, Take
      <4>2. Len(Tail(events)) + 1 \in 1 .. Len(events') /\ events'[Len(Tail(events)) + 1] = "restart"
        BY <4>1
      <4>3. QED
        BY <4>2 DEF Pending
    <3>2. suspend' = suspend /\ state' \in {"Alarm", "Idle"}
      BY <2>7 DEF DoReset
    <3>3. "jogCancel" \in suspend /\ state' = "Idle" => state = "Idle"
      BY <2>7 DEF DoReset
    <3>4. state = "Idle" /\ "jogCancel" \in suspend => Still' /\ at'.park = "none"
      BY <2>7 DEF DoReset, stepper, CancelStale, Still
    <3>5. QED
      BY <3>1, <3>2, <3>3, <3>4 DEF CancelStale
  <2>8. CASE DoRestart
    BY <2>8 DEF DoRestart, CancelStale
  <2>9. CASE Head(events) # "restart" /\ (DoDoorPin(TRUE) \/ DoDoorPin(FALSE) \/ RequestSafetyDoor)
    <3>1. /\ state' = state /\ suspend' = suspend /\ control' = control /\ abort' = abort /\ at' = at
          /\ blocks' = blocks /\ segments' = segments /\ plBlock' = plBlock
      BY <2>9 DEF DoDoorPin, RequestSafetyDoor, stepper, sys
    <3>2. QED
      BY <2>9, <3>1, <1>8 DEF CancelStale, Still
  <2>10. QED
    BY <1>4, <2>1, <2>2, <2>3, <2>4, <2>5, <2>6, <2>7, <2>8, <2>9 DEF HandleEvent
<1>10. QED
  BY <1>3, <1>7, <1>9 DEF JogInv, NotCritical

LEMMA CommandAdds ==
  ASSUME Types, "fault" \notin came', NEW c \in Commands, Command(c)
  PROVE  /\ Pending("restart") <=> Pending("restart")'
         /\ ~Pending("critical") => ~Pending("critical")'
         /\ ~Pending("fault") => ~Pending("fault")'
<1>1. c \in Event /\ c \notin {"restart", "critical", "fault"}
  BY CommandIsEvent, RealtimeAssumption DEF Command, Disturbances
<1>2. QED
  BY <1>1, SendStep DEF Command, Event

\* The protocol task and the stepper send nothing but cycle starts and stops.
LEMMA OthersAdd ==
  ASSUME Types, NEW c \in {"cycleStart", "cycleStop"}, events' = events \/ events' = Append(events, c),
         NEW e \in {"restart", "critical", "fault"}
  PROVE  Pending(e) <=> Pending(e)'
BY SendStep, QuietStep DEF Event

\* The protocol task in the suspend loop.
LEMMA JogSuspend ==
  ASSUME Types, JogInv, Suspend
  PROVE  JogInv'
<1> USE DEF sys, stepper
<1>1. \/ Suspended
      \/ Moving
      \/ at.park = "asleep" /\ at.phase = "out"
  BY DEF Suspend, LeaveSuspend, Park, FallAsleep, AtDoor, WaitSuspended, ParkingMoves, WakeUp,
         PulledOut, Parked, Returned, Plunged
<1>2. at.phase = "out" /\ at.loop
  BY <1>1 DEF Suspended, Moving, JogInv, ParkedInLoop, Types, Place
<1>3. ~Pending("restart")
  BY <1>2 DEF JogInv, RestartFirst
<1>4. events' = events \/ events' = Append(events, "cycleStart")
  BY DEF Suspend, LeaveSuspend, Park, FallAsleep, AtDoor, WaitSuspended, ParkingMoves, WakeUp,
         PulledOut, Parked, Returned, Plunged, Resume, CycleStartSent
<1>5. ~Pending("restart")' /\ ~Pending("critical")' /\ ~Pending("fault")'
  BY <1>3, <1>4, OthersAdd DEF JogInv, NotCritical
<1>6. CASE LeaveSuspend \/ FallAsleep \/ WaitSuspended \/ ParkingMoves \/ WakeUp
  <2>1. /\ state' = state /\ suspend' = suspend /\ control' = control /\ abort' = abort
        /\ blocks' = blocks /\ segments' = segments /\ plBlock' = plBlock
    BY <1>6 DEF LeaveSuspend, FallAsleep, WaitSuspended, ParkingMoves, WakeUp
  <2>2. state = "Idle" /\ at.park = "none" => at'.park = "none"
    BY <1>6 DEF LeaveSuspend, FallAsleep, WaitSuspended, ParkingMoves, WakeUp, Phase, LoopAgain, Types, Place
  <2>3. ParkedInLoop' /\ BackAfter'
    BY <1>2, <1>6, <2>1 DEF LeaveSuspend, FallAsleep, WaitSuspended, ParkingMoves, WakeUp, Phase, LoopAgain,
                      Suspended, ParkedInLoop, BackAfter, Types, Place
  <2>4. QED
    BY <1>3, <1>5, <2>1, <2>2, <2>3 DEF JogInv, NotCritical, CancelNoted, CancelStale, RestartFirst, Still
<1>7. CASE Park \/ AtDoor \/ PulledOut \/ Parked \/ Returned \/ Plunged
  <2>1. at'.loop /\ at'.phase # "back"
    BY <1>2, <1>7, ParkingStays
  <2>2. "jogCancel" \in suspend' => "jogCancel" \in suspend
    <3>1. CASE Park \/ Parked
      <4>1. suspend' = suspend \/ Retracted
        BY <3>1 DEF Park, Parked
      <4>2. QED
        BY <4>1 DEF Retracted
    <3>2. CASE AtDoor
      <4>1. suspend' = suspend \/ suspend' = suspend \ {"safetyDoorAjar"}
        BY <3>2 DEF AtDoor
      <4>2. QED
        BY <4>1
    <3>3. CASE PulledOut \/ Returned \/ Plunged
      <4>1. suspend' = suspend
        BY <3>3 DEF PulledOut, Returned, Plunged
      <4>2. QED
        BY <4>1
    <3>4. QED
      BY <1>7, <3>1, <3>2, <3>3
  <2>3. state' = state \/ (state = "SafetyDoor" /\ state' = "Idle")
    BY <1>7 DEF Park, AtDoor, PulledOut, Parked, Returned, Plunged, Resume, MayResume
  <2>4. state = "Idle" => at.park # "none"
    BY <1>7 DEF Park, AtDoor, PulledOut, Parked, Returned, Plunged, AtRest, Moving
  <2>5. QED
    BY <1>5, <2>1, <2>2, <2>3, <2>4
       DEF JogInv, NotCritical, CancelNoted, CancelStale, RestartFirst, ParkedInLoop, BackAfter
<1>8. QED
  BY <1>6, <1>7 DEF Suspend

\* The main loop: an unlock makes the machine Idle with the cancel still noted,
\* but only after the restart that has thrown the jog away.
LEMMA JogMain ==
  ASSUME Types, Placed, ResetInv, JogInv, "lateLine" \notin came',
         MainLoop \/ SyncAgain \/ SyncDone \/ EnterSuspend
  PROVE  JogInv'
<1> USE DEF sys, stepper
<1>1. ~at.loop /\ at.phase \in {"out", "back"} /\ at.park = "none"
  BY DEF MainLoop, SyncAgain, SyncDone, EnterSuspend, Returns, JogInv, ParkedInLoop
<1>2. ~Pending("restart")
  BY <1>1 DEF JogInv, RestartFirst
<1>3. events' = events \/ events' = Append(events, "cycleStart")
  BY DEF MainLoop, SyncAgain, SyncDone, EnterSuspend, AutoCycleStart
<1>4. at.base # "aborted"
  BY DEF MainLoop, SyncAgain, SyncDone, EnterSuspend, Placed, LateLine
<1>5. ~Pending("restart")' /\ ~Pending("critical")' /\ ~Pending("fault")'
  BY <1>2, <1>3, OthersAdd DEF JogInv, NotCritical
<1>6. CASE MainLoop
  <2>1. /\ suspend' = suspend /\ ~abort' /\ control' = control
        /\ segments' = segments /\ plBlock' = plBlock
        /\ state' = state \/ (state = "Alarm" /\ state' = "Idle" /\ blocks' = blocks)
    BY <1>6 DEF MainLoop
  <2>2. at'.phase = "door" /\ at'.park = "none"
    BY <1>1, <1>6 DEF MainLoop, Types, Place
  <2>3. ASSUME "jogCancel" \in suspend, state' = "Idle"
        PROVE  Still'
    <3>1. at.phase = "back" /\ abort
      BY <1>6, <2>3 DEF MainLoop, Returns, JogInv, BackAfter
    <3>2. state # "Idle"
      BY <1>2, <2>3, <3>1 DEF JogInv, CancelStale
    <3>3. Still
      BY <1>2, <1>4, <3>1 DEF ResetInv
    <3>4. QED
      BY <2>1, <2>3, <3>2, <3>3 DEF Still
  <2>4. QED
    BY <1>5, <2>1, <2>2, <2>3
       DEF JogInv, NotCritical, CancelNoted, CancelStale, RestartFirst, ParkedInLoop, BackAfter
<1>7. CASE SyncAgain \/ EnterSuspend
  <2>1. /\ state' = state /\ suspend' = suspend /\ control' = control /\ abort' = abort
        /\ blocks' = blocks /\ segments' = segments /\ plBlock' = plBlock
    BY <1>7 DEF SyncAgain, EnterSuspend
  <2>2. at'.park = "none" /\ (at'.phase = "back" => abort \/ suspend = {})
    BY <1>1, <1>7 DEF SyncAgain, EnterSuspend, Returns, Phase, JogInv, BackAfter, Types, Place
  <2>3. QED
    BY <1>2, <1>5, <2>1, <2>2
       DEF JogInv, NotCritical, CancelNoted, CancelStale, RestartFirst, ParkedInLoop, BackAfter, Still
<1>8. CASE SyncDone
  <2>1. ~abort
    BY <1>8 DEF SyncDone
  <2>2. suspend = {}
    BY <1>8, <2>1 DEF SyncDone, Returns, JogInv, BackAfter
  <2>3. state' = state /\ suspend' = suspend /\ at'.park = "none" /\ at'.phase = "door"
    BY <1>1, <1>8 DEF SyncDone, Types, Place
  <2>4. QED
    BY <1>2, <1>5, <2>2, <2>3
       DEF JogInv, NotCritical, CancelNoted, CancelStale, RestartFirst, ParkedInLoop, BackAfter
<1>9. QED
  BY <1>6, <1>7, <1>8

LEMMA JogInit ==
  ASSUME Init
  PROVE  Types /\ Placed /\ ResetInv /\ JogInv
<1>1. ~Pending("restart") /\ ~Pending("critical") /\ ~Pending("fault")
  BY DEF Init, Pending
<1>2. /\ state = "Idle" /\ suspend = {} /\ ~abort
      /\ at.park = "none" /\ at.phase = "out"
  BY DEF Init
<1>3. QED
  BY TypesInit, PlacedInit, <1>1, <1>2
     DEF ResetInv, JogInv, NotCritical, CancelNoted, CancelStale, RestartFirst, ParkedInLoop, BackAfter

LEMMA JogStep ==
  ASSUME Types, Placed, ResetInv, JogInv, [Next]_vars, came' \cap {"fault", "lateLine"} = {}
  PROVE  JogInv'
<1> USE DEF sys, stepper
<1>1. CASE HandleEvent
  BY <1>1, JogHandle
<1>2. CASE Suspend
  BY <1>2, JogSuspend
<1>3. CASE MainLoop \/ SyncAgain \/ SyncDone \/ EnterSuspend
  BY <1>3, JogMain
<1>4. CASE CheckDoor
  <2>1. Pending("critical")' <=> Pending("critical")
    BY <1>4, QuietStep DEF CheckDoor
  <2>2. Pending("fault")' <=> Pending("fault")
    BY <1>4, QuietStep DEF CheckDoor
  <2>3. Pending("restart")' <=> Pending("restart")
    BY <1>4, QuietStep DEF CheckDoor
  <2>4. at' = [at EXCEPT !.phase = "events"] /\ abort' = abort /\ blocks' = blocks /\ segments' = segments
    BY <1>4 DEF CheckDoor, Phase
  <2>5. CASE doorRequested
    <3>1. state' # "Critical" /\ ("jogCancel" \in suspend' => state' # "Idle")
      BY <1>4, <2>5 DEF CheckDoor, DoSafetyDoor, HoldComplete, JogInv, NotCritical
    <3>2. CancelNoted'
      <4>1. CASE state \in {"Alarm", "Sleep"}
        BY <1>4, <2>5, <4>1 DEF CheckDoor, DoSafetyDoor, JogInv, CancelNoted
      <4>2. CASE state \notin {"Alarm", "Sleep"}
        <5> DEFINE restoring == state = "SafetyDoor" /\ "jogCancel" \notin suspend /\ "initiateRestore" \in suspend
                   halted == IF state = "Idle" THEN HoldComplete
                             ELSE IF state = "Jog" /\ ~Stopping THEN suspend \cup {"jogCancel"}
                             ELSE IF restoring THEN Restarted(restoring /\ "executeSysMotion" \in control)
                             ELSE suspend
        <5>1. /\ suspend' = halted \cup {"safetyDoorAjar"}
              /\ "jogCancel" \in halted => state' = state
          BY <1>4, <2>5, <4>2 DEF CheckDoor, DoSafetyDoor
        <5>2. ASSUME NEW m
              PROVE  Restarted(m) \subseteq suspend \cup {"restartRetract"}
          BY DEF Restarted
        <5>3. "jogCancel" \in halted => "jogCancel" \in suspend \/ state = "Jog"
          BY <5>2 DEF HoldComplete
        <5> HIDE DEF halted
        <5>4. QED
          BY <5>1, <5>3 DEF JogInv, CancelNoted
      <4>3. QED
        BY <4>1, <4>2
    <3>3. RestartFirst' /\ ParkedInLoop' /\ BackAfter'
      BY <2>3, <2>4 DEF JogInv, RestartFirst, ParkedInLoop, BackAfter, Types, Place
    <3>4. QED
      BY <2>1, <2>2, <3>1, <3>2, <3>3 DEF JogInv, NotCritical, CancelStale
  <2>6. CASE ~doorRequested
    BY <1>4, <2>1, <2>2, <2>3, <2>4, <2>6
       DEF CheckDoor, JogInv, NotCritical, CancelNoted, CancelStale, Still,
           RestartFirst, ParkedInLoop, BackAfter, Types, Place
  <2>7. QED
    BY <2>5, <2>6
<1>5. CASE EventsHandled
  <2>1. ~Pending("restart")' /\ ~Pending("critical")' /\ ~Pending("fault")' /\ ~Pending("restart")
    BY <1>5 DEF EventsHandled, Pending
  <2>2. QED
    BY <1>5, <2>1 DEF EventsHandled, JogInv, NotCritical, CancelNoted, CancelStale, Still,
                      RestartFirst, ParkedInLoop, BackAfter, Types, Place
<1>6. CASE PrepSegment
  <2>1. ~Still
    BY <1>6 DEF PrepSegment, CanPrep, Prepping, Still
  <2>2. state' = state /\ suspend' = suspend /\ abort' = abort /\ at' = at /\ events' = events
    BY <1>6 DEF PrepSegment
  <2>3. QED
    BY <2>1, <2>2, QuietStep DEF JogInv, NotCritical, CancelNoted, CancelStale, RestartFirst, ParkedInLoop, BackAfter
<1>7. CASE PrepDone
  <2>1. /\ state' = state /\ suspend' = suspend /\ abort' = abort /\ control' = control /\ events' = events
        /\ blocks' = blocks /\ segments' = segments /\ plBlock' = plBlock
        /\ at' = [at EXCEPT !.phase = at.then, !.then = "out"] /\ at.phase = "prep"
    BY <1>7 DEF PrepDone, Phase
  <2>2. QED
    BY <2>1, QuietStep DEF JogInv, NotCritical, CancelNoted, CancelStale, Still, RestartFirst, ParkedInLoop, BackAfter,
                           Types, Place
<1>8. CASE StepInterrupt
  <2>1. \A e \in {"restart", "critical", "fault"} : Pending(e) <=> Pending(e)'
    BY <1>8, OthersAdd DEF StepInterrupt, StepSegment, StepperStops, Reported
  <2>2. /\ state' = state /\ suspend' = suspend /\ abort' = abort /\ control' = control /\ at' = at
        /\ blocks' = blocks /\ plBlock' = plBlock /\ (segments = <<>> => segments' = <<>>)
    BY <1>8 DEF StepInterrupt, StepSegment, StepperStops
  <2>3. QED
    BY <2>1, <2>2 DEF JogInv, NotCritical, CancelNoted, CancelStale, Still, RestartFirst, ParkedInLoop, BackAfter
<1>9. ASSUME NEW c \in Commands, Command(c)
      PROVE  JogInv'
  <2>1. /\ state' = state /\ suspend' = suspend /\ abort' = abort /\ control' = control /\ at' = at
        /\ blocks' = blocks /\ plBlock' = plBlock /\ segments' = segments
    BY <1>9 DEF Command
  <2>2. QED
    BY <1>9, <2>1, CommandAdds
       DEF JogInv, NotCritical, CancelNoted, CancelStale, Still, RestartFirst, ParkedInLoop, BackAfter
<1>10. CASE UNCHANGED vars
  BY <1>10, QuietStep
     DEF vars, JogInv, NotCritical, CancelNoted, CancelStale, Still, RestartFirst, ParkedInLoop, BackAfter
<1>11. QED
  BY <1>1, <1>2, <1>3, <1>4, <1>5, <1>6, <1>7, <1>8, <1>9, <1>10 DEF Next, ProtocolTask, RtSystem

\* The steps that forget a cancel throw the jog away, or find it gone.
LEMMA JogForgotten ==
  ASSUME Types, JogInv, [Next]_vars, "jogCancel" \in suspend, "jogCancel" \notin suspend'
  PROVE  blocks' = <<>> /\ segments' = <<>>
<1> USE DEF sys, stepper
<1>1. state = "Idle" => blocks = <<>> /\ segments = <<>>
  BY DEF JogInv, CancelStale, Still
<1>2. state \in {"Jog", "Sleep", "Alarm", "Idle"}
  BY DEF JogInv, CancelNoted
<1>3. CASE HandleEvent
  <2>1. CASE DoFeedHold \/ DoMotionCancel \/ DoSleep
    BY <1>1, <1>2, <2>1 DEF DoFeedHold, DoMotionCancel, DoSleep, Halt, HaltUnchanged
  <2>2. CASE DoCycleStart
    BY <1>1, <1>2, <2>2 DEF DoCycleStart
  <2>3. CASE DoCycleStop
    BY <1>2, <2>3 DEF DoCycleStop, Flush, StepperReset
  <2>4. CASE DoRestart
    BY <2>4 DEF DoRestart, StepperReset
  <2>5. CASE DoAlarm("Alarm") \/ DoAlarm("Critical") \/ DoFault \/ DoReset \/ DoDoorPin(TRUE) \/ DoDoorPin(FALSE)
             \/ RequestSafetyDoor
    BY <2>5 DEF DoAlarm, DoFault, DoReset, DoDoorPin, RequestSafetyDoor
  <2>6. QED
    BY <1>3, <2>1, <2>2, <2>3, <2>4, <2>5 DEF HandleEvent
<1>4. CASE CheckDoor
  BY <1>1, <1>2, <1>4 DEF CheckDoor, DoSafetyDoor
<1>5. CASE Suspend
  BY <1>5 DEF Suspend, LeaveSuspend, Park, FallAsleep, AtDoor, WaitSuspended, ParkingMoves, WakeUp,
              PulledOut, Parked, Returned, Plunged, Retracted
<1>6. CASE EventsHandled \/ PrepSegment \/ PrepDone \/ EnterSuspend \/ MainLoop \/ SyncAgain \/ SyncDone
  BY <1>6 DEF EventsHandled, PrepSegment, PrepDone, EnterSuspend, MainLoop, SyncAgain, SyncDone
<1>7. CASE StepInterrupt \/ (\E c \in Commands : Command(c)) \/ UNCHANGED vars
  BY <1>7 DEF StepInterrupt, StepSegment, StepperStops, Command, vars
<1>8. QED
  BY <1>3, <1>4, <1>5, <1>6, <1>7 DEF Next, ProtocolTask, RtSystem

\* Unless a fault has come, no part of a jog that was cancelled is left when the
\* cancel is over: not when the door opened during the jog, not when the machine was
\* put to sleep, and not when a reset or an alarm came in between.
THEOREM CancelledJogsGo == Spec => JogCancelFlushes
<1> DEFINE Guarded == came \cap {"fault", "lateLine"} = {} => JogInv
<1>1. Init => Types /\ Placed /\ ResetInv /\ Guarded
  BY JogInit
<1>2. Types /\ Placed /\ ResetInv /\ Guarded /\ [Next]_vars => Types' /\ Placed' /\ ResetInv' /\ Guarded'
  BY TypesStep, PlacedStep, ResetStep, JogStep, CameStays
<1>3. Types /\ Guarded /\ [Next]_vars =>
        [came' \cap {"fault", "lateLine"} = {} /\ "jogCancel" \in suspend /\ "jogCancel" \notin suspend'
           => blocks' = <<>> /\ segments' = <<>>]_vars
  BY JogForgotten, CameStays
<1> HIDE DEF Guarded
<1>4. QED
  BY <1>1, <1>2, <1>3, PTL DEF Spec, JogCancelFlushes

-----------------------------------------------------------------------------
(* The safety door, as long as neither a reset nor a fault has come: either   *)
(* of them leaves the door's state whatever the switch says.                 *)

Calm == ~abort /\ ~Pending("reset") /\ ~Pending("restart")

\* An open door is on its way to be noted, noted, or found while nothing may move.
DoorSeen ==
  ajar => doorRequested \/ Pending("safetyDoor") \/ "safetyDoorAjar" \in suspend \/ state \in {"Alarm", "Sleep"}

AjarAt == "safetyDoorAjar" \in suspend => state \in {"SafetyDoor", "Jog", "Alarm", "Sleep"}

DoorInv == Calm /\ DoorSeen /\ AjarAt

\* Where the machine may be retracted, and be retracting.
RetractedAt == "retractComplete" \in suspend => state \in {"SafetyDoor", "Sleep", "Alarm", "Idle"}
RetractingAt == at.park \in {"pullout", "retract"} => state \in {"SafetyDoor", "Sleep", "Alarm"}

SpindleStopped == at.park = "retract" => ~spindle

\* The move that ends with the start of the spindle belongs to a restore.
RestoreOnly ==
  state = "SafetyDoor" /\ "retractComplete" \in suspend /\ "initiateRestore" \notin suspend =>
    ~spindle /\ at.park # "return"

ParkInv == RetractedAt /\ RetractingAt /\ SpindleStopped /\ RestoreOnly

\* What is left to be handled.
LEMMA CalmHandle ==
  ASSUME Types, JogInv, DoorInv, HandleEvent
  PROVE  /\ Calm'
         /\ Head(events) \notin {"critical", "fault", "reset", "restart"}
         /\ spindle' = spindle /\ at'.park = at.park
         /\ Head(events) # "safetyDoor" /\ Pending("safetyDoor") => Pending("safetyDoor")'
         /\ Head(events) # "cycleStop" /\ Pending("cycleStop") => Pending("cycleStop")'
<1>1. events # <<>> /\ at.phase = "events"
  BY DEF HandleEvent
<1>2. Head(events) \notin {"critical", "fault", "reset", "restart"}
  <2>1. 1 \in 1 .. Len(events) /\ events[1] = Head(events)
    BY <1>1 DEF Types
  <2>2. QED
    BY <2>1 DEF JogInv, NotCritical, DoorInv, Calm, Pending
<1>3. Take(<<>>) \/ Take(<<"safetyDoor">>)
  BY <1>2 DEF HandleEvent, DoFeedHold, DoMotionCancel, DoSleep, DoCycleStart, DoCycleStop, DoAlarm,
              DoDoorPin, RequestSafetyDoor
<1>4. /\ <<>> \in Seq(Event) /\ <<"safetyDoor">> \in Seq(Event)
      /\ {"reset", "restart", "safetyDoor", "cycleStop"} \subseteq Event
  BY DEF Event
<1>5. PICK sent \in Seq(Event) : Take(sent) /\ \A i \in 1 .. Len(sent) : sent[i] \notin {"reset", "restart"}
  <2>1. /\ \A i \in 1 .. Len(<<>>) : <<>>[i] \notin {"reset", "restart"}
        /\ \A i \in 1 .. Len(<<"safetyDoor">>) : <<"safetyDoor">>[i] \notin {"reset", "restart"}
    OBVIOUS
  <2>2. QED
    BY <1>3, <1>4, <2>1
<1>6. ~Pending("reset")' /\ ~Pending("restart")'
  <2>1. ~Pending("reset") /\ ~Pending("restart")
    BY DEF DoorInv, Calm
  <2>2. QED
    BY <1>1, <1>4, <1>5, <2>1, TakeStep
<1>7. /\ Head(events) # "safetyDoor" /\ Pending("safetyDoor") => Pending("safetyDoor")'
      /\ Head(events) # "cycleStop" /\ Pending("cycleStop") => Pending("cycleStop")'
  BY <1>1, <1>4, <1>5, TakeStep
<1>8. abort' = abort /\ spindle' = spindle
  BY <1>2 DEF HandleEvent, DoFeedHold, DoMotionCancel, DoSleep, DoCycleStart, DoCycleStop, DoAlarm,
              DoDoorPin, RequestSafetyDoor, HaltUnchanged, power, sys
<1>9. at' = at \/ at' = [at EXCEPT !.phase = "prep", !.then = "events"]
  BY <1>2 DEF HandleEvent, DoFeedHold, DoMotionCancel, DoSleep, DoCycleStart, DoCycleStop, DoAlarm,
              DoDoorPin, RequestSafetyDoor, InitiateCycle
<1>10. at'.park = at.park
  BY <1>9 DEF Types, Place
<1>11. QED
  BY <1>2, <1>6, <1>7, <1>8, <1>10 DEF DoorInv, Calm

LEMMA DoorHandle ==
  ASSUME Types, JogInv, DoorInv, HandleEvent
  PROVE  DoorInv'
<1>1. CASE DoDoorPin(TRUE)
  <2>1. Pending("safetyDoor")'
    <3>1. events \in Seq(Event) /\ events # <<>> /\ events' = Tail(events) \o <<"safetyDoor">>
      BY <1>1 DEF Types, HandleEvent, DoDoorPin, Take
    <3>2. Len(Tail(events)) + 1 \in 1 .. Len(events') /\ events'[Len(Tail(events)) + 1] = "safetyDoor"
      BY <3>1
    <3>3. QED
      BY <3>2 DEF Pending
  <2>2. QED
    BY <1>1, <2>1, CalmHandle DEF DoDoorPin, sys, DoorInv, DoorSeen, AjarAt
<1>2. CASE DoDoorPin(FALSE)
  BY <1>2, CalmHandle DEF DoDoorPin, sys, DoorInv, DoorSeen, AjarAt
<1>3. CASE RequestSafetyDoor
  BY <1>3, CalmHandle DEF RequestSafetyDoor, sys, DoorInv, DoorSeen, AjarAt
<1>4. ASSUME Head(events) # "safetyDoor", ajar' = ajar, doorRequested' = doorRequested,
             "safetyDoorAjar" \in suspend => "safetyDoorAjar" \in suspend' \/ state' \in {"Alarm", "Sleep"},
             state \in {"Alarm", "Sleep"} => state' \in {"Alarm", "Sleep"},
             AjarAt'
      PROVE  DoorInv'
  BY <1>4, CalmHandle DEF DoorInv, DoorSeen
<1>5. CASE Head(events) \in {"feedHold", "motionCancel", "sleep", "cycleStart", "cycleStop", "alarm"}
  <2>1. ajar' = ajar /\ doorRequested' = doorRequested
    BY <1>5 DEF HandleEvent, DoFeedHold, DoMotionCancel, DoSleep, DoCycleStart, DoCycleStop, DoAlarm, door
  <2>2. state \in {"Alarm", "Sleep"} => state' \in {"Alarm", "Sleep"}
    BY <1>5 DEF HandleEvent, DoFeedHold, DoMotionCancel, DoSleep, DoCycleStart, DoCycleStop, DoAlarm
  <2>3. /\ AjarAt'
        /\ "safetyDoorAjar" \in suspend => "safetyDoorAjar" \in suspend' \/ state' \in {"Alarm", "Sleep"}
    <3> USE DEF DoorInv, AjarAt
    <3>1. CASE DoFeedHold
      BY <3>1 DEF DoFeedHold, Halt, HoldComplete
    <3>2. CASE DoMotionCancel
      BY <3>2 DEF DoMotionCancel, Halt, HoldComplete
    <3>3. CASE DoSleep
      BY <3>3 DEF DoSleep
    <3>4. CASE DoCycleStart
      BY <3>4 DEF DoCycleStart, InitiateCycle
    <3>5. CASE DoCycleStop
      BY <3>5 DEF DoCycleStop, HoldComplete
    <3>6. CASE DoAlarm("Alarm")
      BY <3>6 DEF DoAlarm
    <3>7. QED
      BY <1>5, <3>1, <3>2, <3>3, <3>4, <3>5, <3>6 DEF HandleEvent
  <2>4. QED
    BY <1>4, <1>5, <2>1, <2>2, <2>3
<1>6. QED
  BY <1>1, <1>2, <1>3, <1>5, CalmHandle DEF HandleEvent

LEMMA ParkHandle ==
  ASSUME Types, JogInv, DoorInv, ParkInv, HandleEvent
  PROVE  ParkInv'
<1> USE CalmHandle DEF ParkInv, RetractedAt, RetractingAt, SpindleStopped, RestoreOnly
<1>1. CASE DoFeedHold
  BY <1>1 DEF DoFeedHold, Halt, HoldComplete
<1>2. CASE DoMotionCancel
  BY <1>2 DEF DoMotionCancel, Halt, HoldComplete
<1>3. CASE DoSleep
  BY <1>3 DEF DoSleep
<1>4. CASE DoCycleStart
  BY <1>4 DEF DoCycleStart, InitiateCycle
<1>5. CASE DoCycleStop
  BY <1>5 DEF DoCycleStop, HoldComplete, DoorInv, AjarAt
<1>6. CASE DoAlarm("Alarm")
  BY <1>6 DEF DoAlarm
<1>7. CASE DoDoorPin(TRUE) \/ DoDoorPin(FALSE) \/ RequestSafetyDoor
  BY <1>7 DEF DoDoorPin, RequestSafetyDoor, sys
<1>8. QED
  BY <1>1, <1>2, <1>3, <1>4, <1>5, <1>6, <1>7 DEF HandleEvent

LEMMA DoorChecked ==
  ASSUME Types, JogInv, DoorInv, ParkInv, CheckDoor
  PROVE  DoorInv' /\ ParkInv'
<1>1. /\ abort' = abort /\ ajar' = ajar /\ events' = events /\ spindle' = spindle
      /\ at' = [at EXCEPT !.phase = "events"]
  BY DEF CheckDoor, Phase, power
<1>2. Calm' /\ (Pending("safetyDoor")' <=> Pending("safetyDoor"))
  BY <1>1, QuietStep DEF DoorInv, Calm
<1>3. at'.park = at.park
  BY <1>1 DEF Types, Place
<1>4. CASE ~doorRequested \/ state \in {"Alarm", "Sleep"}
  <2>1. state' = state /\ suspend' = suspend
    BY <1>4 DEF CheckDoor, DoSafetyDoor
  <2>2. doorRequested => state \in {"Alarm", "Sleep"}
    BY <1>4
  <2>3. QED
    BY <1>1, <1>2, <1>3, <2>1, <2>2
       DEF DoorInv, DoorSeen, AjarAt, ParkInv, RetractedAt, RetractingAt, SpindleStopped, RestoreOnly
<1>5. CASE doorRequested /\ state \notin {"Alarm", "Sleep"}
  <2> DEFINE restoring == state = "SafetyDoor" /\ "jogCancel" \notin suspend /\ "initiateRestore" \in suspend
             halted == IF state = "Idle" THEN HoldComplete
                       ELSE IF state = "Jog" /\ ~Stopping THEN suspend \cup {"jogCancel"}
                       ELSE IF restoring THEN Restarted(restoring /\ "executeSysMotion" \in control)
                       ELSE suspend
  <2>1. /\ suspend' = halted \cup {"safetyDoorAjar"}
        /\ state' = IF "jogCancel" \in halted THEN state ELSE "SafetyDoor"
    BY <1>5 DEF CheckDoor, DoSafetyDoor
  <2>2. ASSUME NEW m
        PROVE  Restarted(m) \subseteq (suspend \cup {"restartRetract"}) \ {"retractComplete"}
    BY DEF Restarted
  <2>3. /\ "jogCancel" \in halted => state = "Jog"
        /\ "retractComplete" \in halted => /\ "retractComplete" \in suspend /\ state # "Idle"
                                           /\ "initiateRestore" \in halted <=> "initiateRestore" \in suspend
    BY <1>5, <2>2 DEF HoldComplete, JogInv, CancelNoted
  <2> HIDE DEF halted
  <2>4. state' \in {"Jog", "SafetyDoor"}
    BY <2>1, <2>3
  <2>5. DoorInv'
    BY <1>2, <2>1, <2>4 DEF DoorInv, DoorSeen, AjarAt
  <2>6. RetractedAt' /\ RetractingAt' /\ SpindleStopped'
    BY <1>1, <1>3, <1>5, <2>1, <2>3, <2>4 DEF ParkInv, RetractedAt, RetractingAt, SpindleStopped
  <2>7. RestoreOnly'
    BY <1>1, <1>3, <1>5, <2>1, <2>3, <2>4 DEF ParkInv, RetractedAt, RestoreOnly
  <2>8. QED
    BY <2>5, <2>6, <2>7 DEF ParkInv
<1>6. QED
  BY <1>4, <1>5

LEMMA DoorSuspend ==
  ASSUME Types, JogInv, DoorInv, ParkInv, Suspend
  PROVE  DoorInv' /\ ParkInv'
<1> USE DEF sys, door, stepper, power
<1>1. events' = events \/ events' = Append(events, "cycleStart")
  BY DEF Suspend, LeaveSuspend, Park, FallAsleep, AtDoor, WaitSuspended, ParkingMoves, WakeUp,
         PulledOut, Parked, Returned, Plunged, Resume, CycleStartSent
<1>2. /\ ~Pending("reset") => ~Pending("reset")'
      /\ ~Pending("restart") => ~Pending("restart")'
      /\ Pending("safetyDoor") => Pending("safetyDoor")'
  BY <1>1, SendStep, QuietStep DEF Event
<1>3. abort' = abort /\ ajar' = ajar /\ doorRequested' = doorRequested
  BY DEF Suspend, LeaveSuspend, Park, FallAsleep, AtDoor, WaitSuspended, ParkingMoves, WakeUp,
         PulledOut, Parked, Returned, Plunged
<1>4. Calm'
  BY <1>2, <1>3 DEF DoorInv, Calm
<1>5. CASE LeaveSuspend \/ FallAsleep \/ WaitSuspended \/ ParkingMoves \/ WakeUp
  <2>1. state' = state /\ suspend' = suspend /\ (spindle' = spindle \/ ~spindle')
    BY <1>5 DEF LeaveSuspend, FallAsleep, WaitSuspended, ParkingMoves, WakeUp
  <2>2. at'.park \in {at.park, "none", "asleep"}
    BY <1>5 DEF LeaveSuspend, FallAsleep, WaitSuspended, ParkingMoves, WakeUp, Phase, LoopAgain, Types, Place
  <2>3. QED
    BY <1>2, <1>3, <1>4, <2>1, <2>2
       DEF DoorInv, DoorSeen, AjarAt, ParkInv, RetractedAt, RetractingAt, SpindleStopped, RestoreOnly
<1>6. CASE Park
  <2>1. state' = state /\ state \in {"SafetyDoor", "Sleep"}
    BY <1>6 DEF Park, AtRest
  <2>2. CASE canPark
    <3>1. suspend' = suspend /\ spindle' = spindle /\ MoveTo("pullout", FALSE)
      BY <1>6, <2>2 DEF Park
    <3>2. at'.park = "pullout"
      BY <3>1 DEF MoveTo, Types, Place
    <3>3. QED
      BY <1>2, <1>3, <1>4, <2>1, <3>1, <3>2
         DEF DoorInv, DoorSeen, AjarAt, ParkInv, RetractedAt, RetractingAt, SpindleStopped, RestoreOnly
  <2>3. CASE ~canPark
    <3>1. Retracted /\ ~spindle' /\ LoopAgain
      BY <1>6, <2>3 DEF Park
    <3>2. at'.park = "none"
      BY <3>1 DEF LoopAgain, Types, Place
    <3>3. QED
      BY <1>2, <1>3, <1>4, <2>1, <3>1, <3>2
         DEF DoorInv, DoorSeen, AjarAt, ParkInv, RetractedAt, RetractingAt, SpindleStopped, RestoreOnly, Retracted
  <2>4. QED
    BY <2>2, <2>3
<1>7. CASE AtDoor
  <2> DEFINE noted == IF ajar THEN suspend ELSE suspend \ {"safetyDoorAjar"}
  <2>1. state' = state /\ suspend' = noted /\ spindle' = spindle /\ state = "SafetyDoor"
    BY <1>7 DEF AtDoor
  <2>2. "initiateRestore" \notin noted => LoopAgain
    BY <1>7 DEF AtDoor
  <2>3. at'.park \in {"none", "return"} /\ (LoopAgain => at'.park = "none")
    BY <1>7 DEF AtDoor, MoveTo, LoopAgain, Types, Place
  <2>4. QED
    BY <1>2, <1>3, <1>4, <2>1, <2>2, <2>3
       DEF DoorInv, DoorSeen, AjarAt, ParkInv, RetractedAt, RetractingAt, SpindleStopped, RestoreOnly
<1>8. CASE PulledOut
  <2>1. state' = state /\ suspend' = suspend /\ ~spindle' /\ at.park = "pullout" /\ MoveTo("retract", FALSE)
    BY <1>8 DEF PulledOut
  <2>2. at'.park = "retract"
    BY <2>1 DEF MoveTo, Types, Place
  <2>3. QED
    BY <1>2, <1>3, <1>4, <2>1, <2>2
       DEF DoorInv, DoorSeen, AjarAt, ParkInv, RetractedAt, RetractingAt, SpindleStopped, RestoreOnly
<1>9. CASE Parked
  <2>1. state' = state /\ spindle' = spindle /\ at.park = "retract" /\ Retracted /\ LoopAgain
    BY <1>9 DEF Parked
  <2>2. at'.park = "none"
    BY <2>1 DEF LoopAgain, Types, Place
  <2>3. QED
    BY <1>2, <1>3, <1>4, <2>1, <2>2
       DEF DoorInv, DoorSeen, AjarAt, ParkInv, RetractedAt, RetractingAt, SpindleStopped, RestoreOnly, Retracted
<1>10. CASE Returned \/ Plunged
  <2>1. /\ suspend' = suspend
        /\ \/ state' = state
           \/ state = "SafetyDoor" /\ state' = "Idle" /\ "safetyDoorAjar" \notin suspend
    BY <1>10 DEF Returned, Plunged, Resume, MayResume
  <2>2. at'.park \in {"none", "plunge"}
    BY <1>10 DEF Returned, Plunged, MoveTo, LoopAgain, Types, Place
  <2>3. at.park = "return" \/ spindle' = spindle
    BY <1>10 DEF Returned, Plunged
  <2>4. QED
    BY <1>2, <1>3, <1>4, <2>1, <2>2, <2>3
       DEF DoorInv, DoorSeen, AjarAt, ParkInv, RetractedAt, RetractingAt, SpindleStopped, RestoreOnly
<1>11. QED
  BY <1>5, <1>6, <1>7, <1>8, <1>9, <1>10 DEF Suspend

\* Only an unlock, with the door closed, leaves Alarm in the main loop.
LEMMA DoorMain ==
  ASSUME Types, JogInv, DoorInv, ParkInv, MainLoop \/ SyncAgain \/ SyncDone \/ EnterSuspend
  PROVE  DoorInv' /\ ParkInv'
<1> USE DEF sys, door, stepper, power
<1>1. ~at.loop /\ at.park = "none"
  BY DEF MainLoop, SyncAgain, SyncDone, EnterSuspend, Returns, JogInv, ParkedInLoop
<1>2. at'.park = "none"
  BY <1>1 DEF MainLoop, SyncAgain, SyncDone, EnterSuspend, Phase, Types, Place
<1>3. events' = events \/ events' = Append(events, "cycleStart")
  BY DEF MainLoop, SyncAgain, SyncDone, EnterSuspend, AutoCycleStart
<1>4. /\ ~Pending("reset") => ~Pending("reset")'
      /\ ~Pending("restart") => ~Pending("restart")'
      /\ Pending("safetyDoor") => Pending("safetyDoor")'
  BY <1>3, SendStep, QuietStep DEF Event
<1>5. ~abort' /\ ajar' = ajar /\ doorRequested' = doorRequested /\ suspend' = suspend
  <2>1. ~abort
    BY DEF DoorInv, Calm
  <2>2. CASE MainLoop
    BY <2>2 DEF MainLoop
  <2>3. CASE SyncAgain \/ SyncDone \/ EnterSuspend
    <3>1. abort' = abort /\ ajar' = ajar /\ doorRequested' = doorRequested /\ suspend' = suspend
      BY <2>3 DEF SyncAgain, SyncDone, EnterSuspend
    <3>2. QED
      BY <2>1, <3>1
  <2>4. QED
    BY <2>2, <2>3
<1>6. Calm'
  BY <1>4, <1>5 DEF DoorInv, Calm
<1>7. CASE MainLoop
  <2>1. at.phase = "back" => suspend = {}
    BY DEF JogInv, BackAfter, DoorInv, Calm
  <2>2. suspend = {}
    BY <1>7, <2>1 DEF MainLoop, Returns
  <2>3. spindle' = spindle /\ (state' = state \/ (state = "Alarm" /\ state' = "Idle" /\ ~ajar))
    BY <1>7 DEF MainLoop
  <2>4. QED
    BY <1>2, <1>4, <1>5, <1>6, <2>2, <2>3
       DEF DoorInv, DoorSeen, AjarAt, ParkInv, RetractedAt, RetractingAt, SpindleStopped, RestoreOnly
<1>8. CASE SyncAgain \/ EnterSuspend
  <2>1. state' = state /\ spindle' = spindle
    BY <1>8 DEF SyncAgain, EnterSuspend
  <2>2. QED
    BY <1>1, <1>2, <1>4, <1>5, <1>6, <2>1
       DEF DoorInv, DoorSeen, AjarAt, ParkInv, RetractedAt, RetractingAt, SpindleStopped, RestoreOnly
<1>9. CASE SyncDone
  <2>1. suspend = {} /\ state' = state
    BY <1>9 DEF SyncDone, Returns, JogInv, BackAfter, DoorInv, Calm
  <2>2. QED
    BY <1>2, <1>4, <1>5, <1>6, <2>1
       DEF DoorInv, DoorSeen, AjarAt, ParkInv, RetractedAt, RetractingAt, SpindleStopped, RestoreOnly
<1>10. QED
  BY <1>7, <1>8, <1>9

LEMMA DoorStep ==
  ASSUME Types, JogInv, DoorInv, ParkInv, [Next]_vars, came' \cap {"reset", "fault"} = {}
  PROVE  DoorInv' /\ ParkInv'
<1> USE DEF sys, door, stepper, power
<1>1. CASE HandleEvent
  BY <1>1, DoorHandle, ParkHandle
<1>2. CASE CheckDoor
  BY <1>2, DoorChecked
<1>3. CASE Suspend
  BY <1>3, DoorSuspend
<1>4. CASE MainLoop \/ SyncAgain \/ SyncDone \/ EnterSuspend
  BY <1>4, DoorMain
<1>5. CASE EventsHandled \/ PrepSegment \/ PrepDone \/ UNCHANGED vars
  <2>1. /\ state' = state /\ suspend' = suspend /\ abort' = abort /\ spindle' = spindle
        /\ ajar' = ajar /\ doorRequested' = doorRequested /\ events' = events
    BY <1>5 DEF EventsHandled, PrepSegment, PrepDone, vars
  <2>2. at'.park = at.park
    BY <1>5 DEF EventsHandled, PrepSegment, PrepDone, vars, Phase, Types, Place
  <2>3. QED
    BY <2>1, <2>2, QuietStep
       DEF DoorInv, Calm, DoorSeen, AjarAt, ParkInv, RetractedAt, RetractingAt, SpindleStopped, RestoreOnly
<1>6. ASSUME StepInterrupt \/ \E c \in Commands : Command(c)
      PROVE  DoorInv' /\ ParkInv'
  <2>1. PICK c \in Event \ {"reset", "restart"} : events' = events \/ events' = Append(events, c)
    <3>1. CASE StepInterrupt
      <4>1. events' = events \/ events' = Append(events, "cycleStop")
        BY <3>1 DEF StepInterrupt, StepSegment, StepperStops, Reported
      <4>2. QED
        BY <4>1 DEF Event
    <3>2. ASSUME NEW d \in Commands, Command(d)
          PROVE  \E c \in Event \ {"reset", "restart"} : events' = events \/ events' = Append(events, c)
      <4>1. d \in Event \ {"reset", "restart"}
        BY <3>2, CommandIsEvent, RealtimeAssumption DEF Command, Disturbances
      <4>2. events' = Append(events, d)
        BY <3>2 DEF Command
      <4>3. QED
        BY <4>1, <4>2
    <3>3. QED
      BY <1>6, <3>1, <3>2
  <2>2. /\ ~Pending("reset") => ~Pending("reset")'
        /\ ~Pending("restart") => ~Pending("restart")'
        /\ Pending("safetyDoor") => Pending("safetyDoor")'
    BY <2>1, SendStep, QuietStep DEF Event
  <2>3. /\ state' = state /\ suspend' = suspend /\ abort' = abort /\ spindle' = spindle
        /\ ajar' = ajar /\ doorRequested' = doorRequested /\ at' = at
    BY <1>6 DEF StepInterrupt, StepSegment, StepperStops, Command
  <2>4. QED
    BY <2>2, <2>3
       DEF DoorInv, Calm, DoorSeen, AjarAt, ParkInv, RetractedAt, RetractingAt, SpindleStopped, RestoreOnly
<1>7. QED
  BY <1>1, <1>2, <1>3, <1>4, <1>5, <1>6 DEF Next, ProtocolTask, RtSystem

-----------------------------------------------------------------------------
(* Holds and the stepper, while neither a reset nor a fault has come.         *)

\* The protocol task is about to wake the stepper up.
Starting == at.phase = "prep" /\ at.then # "out"

Running == awake \/ Pending("cycleStop")

StateType == state \in {"Idle", "Cycle", "Jog", "Hold", "SafetyDoor", "Sleep", "Alarm"}

MotionAlive == state \in {"Cycle", "Jog"} /\ ~Starting => Running

\* A hold without a motion is complete, and one with a motion decelerates.
HoldAtRest == state = "Hold" /\ ~Running => "holdComplete" \in suspend
HoldHolds == state = "Hold" => "holdComplete" \in suspend \/ "executeHold" \in control

\* A hold of a motion that is being cancelled need not be started.
CancelHolds == state = "Cycle" /\ Stopping => "executeHold" \in control

HoldInv == StateType /\ MotionAlive /\ HoldAtRest /\ HoldHolds /\ CancelHolds

LEMMA HoldHandle ==
  ASSUME Types, JogInv, DoorInv, HoldInv, HandleEvent
  PROVE  HoldInv'
<1>1. /\ at.phase = "events"
      /\ Head(events) \notin {"critical", "fault", "reset", "restart"}
  BY CalmHandle DEF HandleEvent
<1>2. Head(events) # "cycleStop" /\ Pending("cycleStop") => Pending("cycleStop")'
  BY CalmHandle
<1>3. "jogCancel" \in suspend => state # "Cycle"
  BY DEF JogInv, CancelNoted
<1>4. Head(events) # "cycleStop" => awake' = awake
  BY <1>1 DEF HandleEvent, DoFeedHold, DoMotionCancel, DoSleep, DoCycleStart, DoAlarm, DoDoorPin,
              RequestSafetyDoor, HaltUnchanged, stepper
<1>5. Head(events) # "cycleStop" /\ Running => Running'
  BY <1>2, <1>4 DEF Running
<1> USE DEF HoldInv, StateType, MotionAlive, HoldAtRest, HoldHolds, CancelHolds, Starting
<1>6. CASE DoFeedHold /\ Head(events) = "feedHold"
  BY <1>1, <1>3, <1>5, <1>6 DEF DoFeedHold, Halt, HoldComplete, StartHolding, Stopping
<1>7. CASE DoMotionCancel /\ Head(events) = "motionCancel"
  BY <1>1, <1>3, <1>5, <1>7 DEF DoMotionCancel, Halt, HoldComplete, StartHolding, Stopping
<1>8. CASE DoSleep
  BY <1>8 DEF DoSleep
<1>9. CASE DoCycleStart /\ Head(events) = "cycleStart"
  <2>1. CASE InitiateCycle
    <3>1. state' = "Idle" \/ (state' \in {"Jog", "Cycle"} /\ at' = [at EXCEPT !.phase = "prep", !.then = "events"])
      BY <2>1 DEF InitiateCycle
    <3>2. suspend' = {}
      BY <2>1 DEF InitiateCycle
    <3>3. QED
      BY <3>1, <3>2 DEF Types, Place, Stopping
  <2>2. CASE ~InitiateCycle
    <3>1. state' = state /\ control' = control /\ at' = at
      BY <1>9, <2>2 DEF DoCycleStart
    <3>2. suspend' = suspend \/ (state = "SafetyDoor" /\ suspend' = suspend \cup {"initiateRestore"})
      BY <1>9, <2>2 DEF DoCycleStart
    <3>3. QED
      BY <1>1, <1>5, <1>9, <3>1, <3>2 DEF Stopping
  <2>3. QED
    BY <2>1, <2>2
<1>10. CASE DoCycleStop
  <2>1. CASE state \in {"Idle", "Cycle", "Jog"}
    BY <1>10, <2>1 DEF DoCycleStop
  <2>2. CASE state = "Hold"
    <3>1. state' = "Hold" /\ "holdComplete" \in suspend'
      BY <1>10, <2>2 DEF DoCycleStop, HoldComplete, JogInv, CancelNoted
    <3>2. QED
      BY <3>1
  <2>3. CASE state \in {"SafetyDoor", "Sleep", "Alarm"}
    BY <1>10, <2>3 DEF DoCycleStop
  <2>4. QED
    BY <2>1, <2>2, <2>3
<1>11. CASE DoAlarm("Alarm")
  BY <1>11 DEF DoAlarm
<1>12. CASE Head(events) # "cycleStop" /\ (DoDoorPin(TRUE) \/ DoDoorPin(FALSE) \/ RequestSafetyDoor)
  <2>1. state' = state /\ suspend' = suspend /\ control' = control /\ at' = at
    BY <1>12 DEF DoDoorPin, RequestSafetyDoor, sys
  <2>2. QED
    BY <1>1, <1>5, <1>12, <2>1 DEF Stopping
<1>13. QED
  BY <1>1, <1>6, <1>7, <1>8, <1>9, <1>10, <1>11, <1>12 DEF HandleEvent

LEMMA HoldStep ==
  ASSUME Types, JogInv, DoorInv, ParkInv, HoldInv, [Next]_vars, came' \cap {"reset", "fault"} = {}
  PROVE  HoldInv'
<1> USE DEF sys, stepper
<1>1. CASE HandleEvent
  BY <1>1, HoldHandle
<1>2. ASSUME Running => Running', state' = state \/ state' = "Idle",
             state' = "Idle" \/ suspend' = suspend, "executeHold" \in control => "executeHold" \in control',
             Starting => Starting'
      PROVE  HoldInv'
  BY <1>2 DEF HoldInv, StateType, MotionAlive, HoldAtRest, HoldHolds, CancelHolds, Stopping
<1>3. CASE CheckDoor
  <2>1. Running' <=> Running
    BY <1>3, QuietStep DEF CheckDoor, Running
  <2>2. ~Starting /\ ~Starting'
    BY <1>3 DEF CheckDoor, Phase, Starting, Types, Place
  <2>3. \/ state' = state /\ suspend' = suspend /\ control' = control
        \/ state' = "SafetyDoor"
        \/ state' = state /\ state = "Jog"
    BY <1>3 DEF CheckDoor, DoSafetyDoor, HoldComplete, JogInv, CancelNoted, Restarted
  <2>4. QED
    BY <2>1, <2>2, <2>3 DEF HoldInv, StateType, MotionAlive, HoldAtRest, HoldHolds, CancelHolds, Stopping
<1>4. CASE EventsHandled \/ PrepSegment \/ UNCHANGED vars
  <2>1. state' = state /\ suspend' = suspend /\ awake' = awake /\ events' = events
    BY <1>4 DEF EventsHandled, PrepSegment, vars
  <2>2. "executeHold" \in control => "executeHold" \in control'
    BY <1>4 DEF EventsHandled, PrepSegment, vars
  <2>3. Starting => Starting'
    BY <1>4 DEF EventsHandled, PrepSegment, vars, Starting
  <2>4. QED
    BY <1>2, <2>1, <2>2, <2>3, QuietStep DEF Running
<1>5. CASE PrepDone
  <2>1. state' = state /\ suspend' = suspend /\ control' = control /\ events' = events
    BY <1>5 DEF PrepDone
  <2>2. (Starting => awake') /\ (awake => awake')
    BY <1>5 DEF PrepDone, Wakes, Starting
  <2>3. QED
    BY <2>1, <2>2, QuietStep
       DEF HoldInv, StateType, MotionAlive, HoldAtRest, HoldHolds, CancelHolds, Stopping, Running
<1>6. CASE Suspend
  <2>1. at.phase = "out"
    BY <1>6 DEF Suspend, LeaveSuspend, Park, FallAsleep, AtDoor, WaitSuspended, ParkingMoves, WakeUp,
                PulledOut, Parked, Returned, Plunged, Suspended, Moving
  <2>2. ~Starting
    BY <2>1 DEF Starting
  <2>3. events' = events \/ events' = Append(events, "cycleStart")
    BY <1>6 DEF Suspend, LeaveSuspend, Park, FallAsleep, AtDoor, WaitSuspended, ParkingMoves, WakeUp,
                PulledOut, Parked, Returned, Plunged, Resume, CycleStartSent
  <2>4. Pending("cycleStop") => Pending("cycleStop")'
    BY <2>3, SendStep, QuietStep DEF Event
  <2>5. state # "Sleep" => awake' = awake
    BY <1>6 DEF Suspend, LeaveSuspend, Park, FallAsleep, AtDoor, WaitSuspended, ParkingMoves, WakeUp,
                PulledOut, Parked, Returned, Plunged
  <2>6. state' = state \/ state' = "Idle"
    BY <1>6 DEF Suspend, LeaveSuspend, Park, FallAsleep, AtDoor, WaitSuspended, ParkingMoves, WakeUp,
                PulledOut, Parked, Returned, Plunged, Resume
  <2>7. state \in {"Cycle", "Hold", "Jog"} => suspend' = suspend
    <3>1. CASE Park \/ AtDoor
      BY <3>1 DEF Park, AtDoor, AtRest
    <3>2. CASE Parked
      BY <3>2 DEF Parked, ParkInv, RetractingAt
    <3>3. CASE PulledOut \/ Returned \/ Plunged \/ LeaveSuspend \/ FallAsleep \/ WaitSuspended \/ ParkingMoves \/ WakeUp
      BY <3>3 DEF PulledOut, Returned, Plunged, LeaveSuspend, FallAsleep, WaitSuspended, ParkingMoves, WakeUp
    <3>4. QED
      BY <1>6, <3>1, <3>2, <3>3 DEF Suspend
  <2>8. "executeHold" \in control => "executeHold" \in control'
    <3>1. control' = control \/ control' = (control \cup {"executeSysMotion"}) \ {"endMotion"}
      BY <1>6 DEF Suspend, LeaveSuspend, Park, FallAsleep, AtDoor, WaitSuspended, ParkingMoves, WakeUp,
                  PulledOut, Parked, Returned, Plunged, MoveTo
    <3>2. QED
      BY <3>1
  <2>9. QED
    BY <2>2, <2>4, <2>5, <2>6, <2>7, <2>8
       DEF HoldInv, StateType, MotionAlive, HoldAtRest, HoldHolds, CancelHolds, Stopping, Running
<1>7. CASE MainLoop \/ SyncAgain \/ SyncDone \/ EnterSuspend
  <2>1. events' = events \/ events' = Append(events, "cycleStart")
    BY <1>7 DEF MainLoop, SyncAgain, SyncDone, EnterSuspend, AutoCycleStart
  <2>2. Pending("cycleStop") => Pending("cycleStop")'
    BY <2>1, SendStep, QuietStep DEF Event
  <2>3. suspend' = suspend /\ control' = control /\ awake' = awake /\ (state' = state \/ state' = "Idle")
    BY <1>7 DEF MainLoop, SyncAgain, SyncDone, EnterSuspend
  <2>4. ~Starting
    BY <1>7 DEF MainLoop, SyncAgain, SyncDone, EnterSuspend, Returns, Starting
  <2>5. QED
    BY <1>2, <2>2, <2>3, <2>4 DEF Running
<1>8. CASE StepInterrupt
  <2>1. Running => Running'
    <3>1. CASE StepSegment
      BY <3>1, QuietStep DEF StepSegment, Running
    <3>2. CASE StepperStops
      <4>1. events \in Seq(Event) /\ events' = Append(events, "cycleStop")
        BY <3>2 DEF StepperStops, Reported, Types
      <4>2. Len(events) + 1 \in 1 .. Len(events') /\ events'[Len(events) + 1] = "cycleStop"
        BY <4>1
      <4>3. QED
        BY <4>2 DEF Running, Pending
    <3>3. QED
      BY <1>8, <3>1, <3>2 DEF StepInterrupt
  <2>2. state' = state /\ suspend' = suspend /\ control' = control /\ at' = at
    BY <1>8 DEF StepInterrupt, StepSegment, StepperStops
  <2>3. QED
    BY <1>2, <2>1, <2>2 DEF Starting
<1>9. ASSUME NEW c \in Commands, Command(c)
      PROVE  HoldInv'
  <2>1. Pending("cycleStop") => Pending("cycleStop")'
    BY <1>9, SendStep, CommandIsEvent DEF Command, Event
  <2>2. state' = state /\ suspend' = suspend /\ control' = control /\ awake' = awake /\ at' = at
    BY <1>9 DEF Command
  <2>3. QED
    BY <1>2, <2>1, <2>2 DEF Running, Starting
<1>10. QED
  BY <1>1, <1>3, <1>4, <1>5, <1>6, <1>7, <1>8, <1>9 DEF Next, ProtocolTask, RtSystem

\* All of that, and no line is late.
HoldsInv == JogInv /\ DoorInv /\ ParkInv /\ HoldInv /\ "lateLine" \notin came

LEMMA HoldsStep ==
  ASSUME Types, Placed, ResetInv, HoldsInv, [Next]_vars, came' \cap {"reset", "fault"} = {}
  PROVE  HoldsInv'
<1>1. "lateLine" \notin came'
  BY CameStays DEF HoldsInv, DoorInv, Calm
<1>2. QED
  BY <1>1, JogStep, DoorStep, HoldStep DEF HoldsInv

LEMMA HoldsKept ==
  Spec => [](Types /\ Placed /\ ResetInv /\ (Untouched({"reset", "fault"}) => HoldsInv))
<1> DEFINE Guarded == Untouched({"reset", "fault"}) => HoldsInv
<1>1. Init => Types /\ Placed /\ ResetInv /\ JogInv /\ "lateLine" \notin came
  BY JogInit DEF Init
<1>2. Init => DoorInv /\ ParkInv /\ HoldInv
  <2>1. Init => ~Pending("restart") /\ ~Pending("reset")
    BY DEF Init, Pending
  <2>2. Init => /\ state = "Idle" /\ suspend = {} /\ ~abort /\ ~ajar
                /\ at.park = "none" /\ at.phase = "out"
    BY DEF Init
  <2>3. QED
    BY <2>1, <2>2
       DEF DoorInv, Calm, DoorSeen, AjarAt, ParkInv, RetractedAt, RetractingAt, SpindleStopped, RestoreOnly,
           HoldInv, StateType, MotionAlive, HoldAtRest, HoldHolds, CancelHolds
<1>3. Types /\ Placed /\ ResetInv /\ Guarded /\ [Next]_vars => Types' /\ Placed' /\ ResetInv' /\ Guarded'
  BY TypesStep, PlacedStep, ResetStep, HoldsStep, CameStays DEF Untouched
<1>4. Init => Guarded
  BY <1>1, <1>2 DEF HoldsInv
<1> HIDE DEF Guarded
<1>5. Spec => [](Types /\ Placed /\ ResetInv /\ Guarded)
  BY <1>1, <1>3, <1>4, PTL DEF Spec
<1>6. QED
  BY <1>5 DEF Guarded

\* As long as no reset and no fault has come, nothing is run with the door open,
\* from the handling of its pin on: whatever is queued before the request, whatever
\* the state it finds, and however often the door is opened and closed.
THEOREM DoorStopsUse == Spec => []DoorBlocksUse
<1>1. (Untouched({"reset", "fault"}) => HoldsInv) => DoorBlocksUse
  BY DEF HoldsInv, DoorInv, DoorSeen, DoorBlocksUse
<1>2. QED
  BY <1>1, HoldsKept, PTL

\* Nor does the spindle turn behind it once the machine is retracted, although a
\* restore may be at any of its moves when the door is opened again.
THEOREM SpindleStaysOff == Spec => []SpindleOffAtDoor
<1>1. (Untouched({"reset", "fault"}) => HoldsInv) => SpindleOffAtDoor
  BY DEF HoldsInv, ParkInv, RestoreOnly, SpindleOffAtDoor
<1>2. QED
  BY <1>1, HoldsKept, PTL

\* Nor does a machine in Cycle or Jog wait for a stepper that is not running,
\* alarms and unlocks included.
THEOREM EngineStaysAlive == Spec => []EngineAlive
<1>1. (Untouched({"reset", "fault"}) => HoldsInv) => EngineAlive
  BY DEF HoldsInv, HoldInv, MotionAlive, EngineAlive, Starting, Running
<1>2. QED
  BY <1>1, HoldsKept, PTL

\* And a hold is never "an inescapable dead end for ~".
THEOREM HoldsEscapable == Spec => []HoldEscapable
<1>1. (Untouched({"reset", "fault"}) => HoldsInv) => HoldEscapable
  BY DEF HoldsInv, HoldInv, HoldAtRest, HoldEscapable, HoldResumes, Running
<1>2. QED
  BY <1>1, HoldsKept, PTL

-----------------------------------------------------------------------------
(* Rest, with no alarm either: an alarm does not stop the stepper, and a     *)
(* sleep in Alarm calls the hold complete.                                   *)

OneStop(q) == \A i, j \in 1 .. Len(q) : q[i] = "cycleStop" /\ q[j] = "cycleStop" => i = j

LEMMA OneStopTake ==
  ASSUME NEW q \in Seq(Event), q # <<>>, OneStop(q), NEW sent \in Seq(Event),
         \A i \in 1 .. Len(sent) : sent[i] # "cycleStop"
  PROVE  /\ OneStop(Tail(q) \o sent)
         /\ Head(q) = "cycleStop" => \A i \in 1 .. Len(Tail(q) \o sent) : (Tail(q) \o sent)[i] # "cycleStop"
<1> DEFINE r == Tail(q) \o sent
<1>1. Tail(q) \in Seq(Event) /\ Len(Tail(q)) = Len(q) - 1 /\ Len(q) \in Nat /\ Len(sent) \in Nat
  OBVIOUS
<1>2. ASSUME NEW i \in 1 .. Len(r), r[i] = "cycleStop"
      PROVE  i + 1 \in 1 .. Len(q) /\ q[i + 1] = "cycleStop"
  <2>1. i <= Len(Tail(q))
    <3>1. i > Len(Tail(q)) => i - Len(Tail(q)) \in 1 .. Len(sent) /\ sent[i - Len(Tail(q))] = r[i]
      BY <1>1
    <3>2. QED
      BY <1>1, <1>2, <3>1
  <2>2. r[i] = Tail(q)[i] /\ Tail(q)[i] = q[i + 1]
    BY <1>1, <2>1
  <2>3. QED
    BY <1>1, <1>2, <2>1, <2>2
<1>3. OneStop(r)
  <2>1. SUFFICES ASSUME NEW i \in 1 .. Len(r), NEW j \in 1 .. Len(r), r[i] = "cycleStop", r[j] = "cycleStop"
                 PROVE  i = j
    BY DEF OneStop
  <2>2. /\ i + 1 \in 1 .. Len(q) /\ q[i + 1] = "cycleStop"
        /\ j + 1 \in 1 .. Len(q) /\ q[j + 1] = "cycleStop"
    BY <1>2, <2>1
  <2> HIDE DEF r
  <2>3. i + 1 = j + 1
    BY <2>2 DEF OneStop
  <2>4. QED
    BY <2>3
<1>4. ASSUME Head(q) = "cycleStop", NEW i \in 1 .. Len(r), r[i] = "cycleStop"
      PROVE  FALSE
  <2>1. i + 1 \in 1 .. Len(q) /\ q[i + 1] = "cycleStop"
    BY <1>2, <1>4
  <2>2. 1 \in 1 .. Len(q) /\ q[1] = "cycleStop"
    BY <1>1, <1>4
  <2> HIDE DEF r
  <2>3. i + 1 = 1
    BY <2>1, <2>2 DEF OneStop
  <2>4. QED
    BY <2>3
<1>5. QED
  BY <1>3, <1>4

LEMMA OneStopAppend ==
  ASSUME NEW q \in Seq(Event), NEW c \in Event, OneStop(q),
         c = "cycleStop" => ~\E i \in 1 .. Len(q) : q[i] = "cycleStop"
  PROVE  OneStop(Append(q, c))
<1>1. /\ Len(Append(q, c)) = Len(q) + 1 /\ Len(q) \in Nat
      /\ Append(q, c)[Len(q) + 1] = c
      /\ \A i \in 1 .. Len(q) : Append(q, c)[i] = q[i]
  OBVIOUS
<1>2. QED
  BY <1>1 DEF OneStop

NoAlarm == state # "Alarm" /\ ~Pending("alarm")

\* The stepper reports once that it has stopped, and is not woken before that is handled.
ReportedOnce == OneStop(events) /\ ~(awake /\ Pending("cycleStop"))
StartsFromRest == Starting => ~Running
StartsMotion ==
  Starting => \/ at.then = "events" /\ state \in {"Cycle", "Jog"}
              \/ at.then = "door" /\ "executeSysMotion" \in control

IdleRests == state = "Idle" => ~Running
HoldRests == "holdComplete" \in suspend /\ "executeSysMotion" \notin control => ~Running

Unheld ==
  /\ state \in {"Cycle", "Jog"} => "holdComplete" \notin suspend
  /\ "holdComplete" \in suspend => "jogCancel" \notin suspend

\* A system motion belongs to one of parking's moves, which are made from rest.
ParkMove == at.park \in {"pullout", "retract", "return", "plunge"}
ParkMotion ==
  /\ "executeSysMotion" \in control => ParkMove
  /\ ParkMove => /\ state \in {"SafetyDoor", "Sleep"} /\ "jogCancel" \notin suspend
                 /\ "holdComplete" \in suspend \/ {"executeHold", "executeSysMotion"} \subseteq control

RestInv ==
  /\ NoAlarm /\ ReportedOnce /\ StartsFromRest /\ StartsMotion
  /\ IdleRests /\ HoldRests /\ Unheld /\ ParkMotion

\* What a handler does to the queue and the stepper.
LEMMA RestQueue ==
  ASSUME Types, JogInv, DoorInv, RestInv, HandleEvent
  PROVE  /\ at.phase = "events" /\ at'.park = at.park
         /\ Head(events) \notin {"critical", "fault", "reset", "restart", "alarm"}
         /\ ~Pending("alarm")' /\ ReportedOnce'
         /\ Head(events) = "cycleStop" => ~Running'
         /\ Running' => Running
<1>1. events # <<>> /\ at.phase = "events" /\ events \in Seq(Event)
  BY DEF HandleEvent, Types
<1>2. 1 \in 1 .. Len(events) /\ events[1] = Head(events)
  BY <1>1
<1>3. Head(events) \notin {"critical", "fault", "reset", "restart", "alarm"}
  BY <1>2, CalmHandle DEF RestInv, NoAlarm, Pending
<1>4. Take(<<>>) \/ Take(<<"safetyDoor">>)
  BY <1>3 DEF HandleEvent, DoFeedHold, DoMotionCancel, DoSleep, DoCycleStart, DoCycleStop,
              DoDoorPin, RequestSafetyDoor
<1>5. PICK sent \in Seq(Event) : Take(sent) /\ \A i \in 1 .. Len(sent) : sent[i] \notin {"alarm", "cycleStop"}
  <2>1. /\ \A i \in 1 .. Len(<<>>) : <<>>[i] \notin {"alarm", "cycleStop"}
        /\ \A i \in 1 .. Len(<<"safetyDoor">>) : <<"safetyDoor">>[i] \notin {"alarm", "cycleStop"}
    OBVIOUS
  <2>2. <<>> \in Seq(Event) /\ <<"safetyDoor">> \in Seq(Event)
    BY DEF Event
  <2>3. QED
    BY <1>4, <2>1, <2>2
<1>6. ~Pending("alarm")' /\ (Pending("cycleStop")' => Pending("cycleStop"))
  <2>1. ~Pending("alarm") /\ {"alarm", "cycleStop"} \subseteq Event
    BY DEF RestInv, NoAlarm, Event
  <2>2. QED
    BY <1>1, <1>5, <2>1, TakeStep
<1>7. OneStop(events') /\ (Head(events) = "cycleStop" => ~Pending("cycleStop")')
  <2>1. events' = Tail(events) \o sent /\ OneStop(events)
    BY <1>5 DEF Take, RestInv, ReportedOnce
  <2>2. QED
    BY <1>1, <1>5, <2>1, OneStopTake DEF Pending
<1>8. awake' = awake \/ ~awake'
  BY <1>3 DEF HandleEvent, DoFeedHold, DoMotionCancel, DoSleep, DoCycleStart, DoCycleStop,
              DoDoorPin, RequestSafetyDoor, HaltUnchanged, stepper, Flush, StepperReset
<1>9. Head(events) = "cycleStop" => ~awake
  BY <1>2 DEF RestInv, ReportedOnce, Pending
<1>10. QED
  BY <1>1, <1>3, <1>6, <1>7, <1>8, <1>9, CalmHandle DEF RestInv, ReportedOnce, Running

LEMMA RestHandle ==
  ASSUME Types, JogInv, DoorInv, HoldInv, RestInv, HandleEvent
  PROVE  RestInv'
<1>1. /\ at.phase = "events" /\ at'.park = at.park
      /\ Head(events) \notin {"critical", "fault", "reset", "restart", "alarm"}
      /\ ~Pending("alarm")' /\ ReportedOnce'
      /\ Head(events) = "cycleStop" => ~Running'
      /\ Running' => Running
  BY RestQueue
<1>2. ParkMove' <=> ParkMove
  BY <1>1 DEF ParkMove
<1>3. "jogCancel" \in suspend => state \in {"Jog", "Sleep", "Idle"}
  BY DEF JogInv, CancelNoted, RestInv, NoAlarm
<1>4. state \notin {"SafetyDoor", "Sleep"} => ~ParkMove /\ "executeSysMotion" \notin control
  BY DEF RestInv, ParkMotion
<1>5. ASSUME at' = at, state' # "Alarm", IdleRests', HoldRests', Unheld', ParkMotion'
      PROVE  RestInv'
  BY <1>1, <1>5 DEF RestInv, NoAlarm, StartsFromRest, StartsMotion, Starting
<1> USE DEF IdleRests, HoldRests, Unheld, ParkMotion
<1>6. CASE DoFeedHold
  <2>1. at' = at /\ state' # "Alarm"
    BY <1>6 DEF DoFeedHold, RestInv, NoAlarm
  <2>2. IdleRests'
    BY <1>1, <1>6 DEF DoFeedHold, RestInv
  <2>3. ParkMotion'
    BY <1>2, <1>4, <1>6 DEF DoFeedHold, RestInv, Halt, StartHolding
  <2>4. Unheld'
    BY <1>3, <1>6 DEF DoFeedHold, RestInv, Halt, HoldComplete
  <2>5. HoldRests'
    BY <1>1, <1>4, <1>6 DEF DoFeedHold, RestInv, Halt, HoldComplete, StartHolding
  <2>6. QED
    BY <1>5, <2>1, <2>2, <2>3, <2>4, <2>5
<1>7. CASE DoMotionCancel
  <2>1. at' = at /\ state' = state
    BY <1>7 DEF DoMotionCancel
  <2>2. ParkMotion'
    BY <1>2, <1>4, <1>7, <2>1 DEF DoMotionCancel, RestInv, Halt, StartHolding
  <2>3. Unheld'
    BY <1>3, <1>7 DEF DoMotionCancel, RestInv, Halt, HoldComplete
  <2>4. HoldRests'
    BY <1>1, <1>4, <1>7 DEF DoMotionCancel, RestInv, Halt, HoldComplete, StartHolding
  <2>5. QED
    BY <1>1, <1>5, <2>1, <2>2, <2>3, <2>4 DEF RestInv, NoAlarm
<1>8. CASE DoSleep
  <2>1. at' = at /\ state' = "Sleep"
    BY <1>8 DEF DoSleep
  <2>2. ParkMotion'
    BY <1>2, <1>4, <1>8, <2>1 DEF DoSleep, RestInv, NoAlarm, Halt, StartHolding
  <2>3. Unheld'
    BY <1>3, <1>8, <2>1 DEF DoSleep, RestInv, NoAlarm, Halt, HoldComplete
  <2>4. HoldRests'
    BY <1>1, <1>4, <1>8 DEF DoSleep, RestInv, NoAlarm, Halt, HoldComplete, StartHolding
  <2>5. QED
    BY <1>5, <2>1, <2>2, <2>3, <2>4
<1>9. CASE DoCycleStart
  <2>1. CASE state = "Idle" \/ (state = "Hold" /\ HoldResumes)
    <3>1. ~Running
      BY <1>4, <2>1 DEF RestInv, HoldResumes, HoldInv, HoldHolds
    <3>2. ~Running' /\ suspend' = {} /\ control' = {} /\ ~ParkMove'
      BY <1>1, <1>2, <1>4, <1>9, <2>1, <3>1 DEF DoCycleStart, InitiateCycle
    <3>3. \/ state' = "Idle" /\ at' = at
          \/ state' \in {"Cycle", "Jog"} /\ at' = [at EXCEPT !.phase = "prep", !.then = "events"]
      BY <1>9, <2>1 DEF DoCycleStart, InitiateCycle
    <3>4. Starting' => at'.then = "events" /\ state' \in {"Cycle", "Jog"}
      BY <1>1, <3>3 DEF Starting, Types, Place
    <3>5. QED
      BY <1>1, <3>2, <3>3, <3>4 DEF RestInv, NoAlarm, StartsFromRest, StartsMotion
  <2>2. CASE ~(state = "Idle" \/ (state = "Hold" /\ HoldResumes))
    <3>1. state' = state /\ control' = control /\ at' = at
      BY <1>9, <2>2 DEF DoCycleStart
    <3>2. suspend' = suspend \/ (state = "SafetyDoor" /\ suspend' = suspend \cup {"initiateRestore"})
      BY <1>9, <2>2 DEF DoCycleStart
    <3>3. IdleRests' /\ HoldRests' /\ Unheld' /\ ParkMotion'
      BY <1>1, <1>2, <3>1, <3>2 DEF RestInv
    <3>4. QED
      BY <1>5, <3>1, <3>3 DEF RestInv, NoAlarm
  <2>3. QED
    BY <2>1, <2>2
<1>10. CASE DoCycleStop /\ Head(events) = "cycleStop"
  <2>1. ~Running' /\ at' = at
    BY <1>1, <1>10 DEF DoCycleStop
  <2>2. CASE state \in {"Idle", "Cycle", "Jog"}
    <3>1. state' \in {"Idle", "SafetyDoor"} /\ "jogCancel" \notin suspend'
      BY <1>10, <2>2 DEF DoCycleStop, HoldComplete
    <3>2. "executeSysMotion" \notin control' /\ ~ParkMove'
      BY <1>2, <1>4, <1>10, <2>2 DEF DoCycleStop, Flush
    <3>3. QED
      BY <1>5, <2>1, <3>1, <3>2
  <2>3. CASE state \in {"Hold", "SafetyDoor", "Sleep"} /\ "jogCancel" \notin suspend
    <3>1. /\ state' = state /\ "executeSysMotion" \notin control'
          /\ suspend' = IF "executeHold" \in control THEN suspend \cup {"holdComplete"} ELSE suspend
      BY <1>10, <2>3 DEF DoCycleStop, MotionStopped, HoldComplete
    <3>2. ParkMotion'
      BY <1>2, <2>3, <3>1 DEF RestInv
    <3>3. QED
      BY <1>5, <2>1, <2>3, <3>1, <3>2
  <2>4. CASE state = "Sleep" /\ "jogCancel" \in suspend
    <3>1. state' = state /\ suspend' = suspend /\ control' = control
      BY <1>10, <2>4 DEF DoCycleStop
    <3>2. QED
      BY <1>2, <1>5, <2>1, <2>4, <3>1 DEF RestInv
  <2>5. QED
    BY <1>3, <2>2, <2>3, <2>4 DEF RestInv, NoAlarm, HoldInv, StateType
<1>11. CASE DoDoorPin(TRUE) \/ DoDoorPin(FALSE) \/ RequestSafetyDoor
  <2>1. state' = state /\ suspend' = suspend /\ control' = control /\ at' = at
    BY <1>11 DEF DoDoorPin, RequestSafetyDoor, sys
  <2>2. QED
    BY <1>1, <1>2, <1>5, <2>1 DEF RestInv, NoAlarm
<1>12. QED
  BY <1>1, <1>6, <1>7, <1>8, <1>9, <1>10, <1>11 DEF HandleEvent

LEMMA RestCheck ==
  ASSUME Types, JogInv, DoorInv, HoldInv, RestInv, CheckDoor
  PROVE  RestInv'
<1>1. /\ awake' = awake /\ events' = events /\ at' = [at EXCEPT !.phase = "events"]
  BY DEF CheckDoor, Phase
<1>2. /\ (Running' <=> Running) /\ (ParkMove' <=> ParkMove) /\ ~Starting'
      /\ ~Pending("alarm")' /\ ReportedOnce'
  <2>1. (Pending("cycleStop")' <=> Pending("cycleStop")) /\ (Pending("alarm")' <=> Pending("alarm"))
    BY <1>1, QuietStep
  <2>2. QED
    BY <1>1, <2>1 DEF Running, ParkMove, Starting, RestInv, NoAlarm, ReportedOnce, Types, Place
<1>3. ASSUME state' # "Alarm", IdleRests', HoldRests', Unheld', ParkMotion'
      PROVE  RestInv'
  BY <1>2, <1>3 DEF RestInv, NoAlarm, StartsFromRest, StartsMotion
<1> USE DEF IdleRests, HoldRests, Unheld, ParkMotion
<1>4. CASE ~doorRequested \/ state = "Sleep"
  <2>1. state' = state /\ suspend' = suspend /\ control' = control
    BY <1>4 DEF CheckDoor, DoSafetyDoor
  <2>2. QED
    BY <1>2, <1>3, <2>1 DEF RestInv, NoAlarm
<1>5. CASE doorRequested /\ state \in {"Idle", "Hold", "Cycle", "Jog"}
  <2> DEFINE halted == IF state = "Idle" THEN HoldComplete
                       ELSE IF state = "Jog" /\ ~Stopping THEN suspend \cup {"jogCancel"}
                       ELSE suspend
  <2>1. /\ suspend' = halted \cup {"safetyDoorAjar"}
        /\ state' = IF "jogCancel" \in halted THEN state ELSE "SafetyDoor"
        /\ control' = control \/ StartHolding
    BY <1>5 DEF CheckDoor, DoSafetyDoor
  <2>2. ~ParkMove /\ "executeSysMotion" \notin control
    BY <1>5 DEF RestInv
  <2>3. "executeSysMotion" \notin control' /\ state' \in {"Jog", "SafetyDoor"} /\ (state' = "Jog" => state = "Jog")
    <3>1. "executeSysMotion" \notin control'
      BY <1>5, <2>1, <2>2 DEF StartHolding
    <3>2. QED
      BY <1>5, <2>1, <3>1 DEF HoldComplete, JogInv, CancelNoted
  <2>4. /\ "holdComplete" \in suspend' => state = "Idle" \/ (state = "Hold" /\ "holdComplete" \in suspend)
        /\ "jogCancel" \in suspend' => state = "Jog"
    BY <1>5, <2>1 DEF HoldComplete, RestInv, JogInv, CancelNoted
  <2>5. QED
    BY <1>2, <1>3, <2>2, <2>3, <2>4 DEF RestInv
<1>6. CASE doorRequested /\ state = "SafetyDoor"
  <2>1. state' = "SafetyDoor" /\ "jogCancel" \notin suspend
    BY <1>6 DEF CheckDoor, DoSafetyDoor, JogInv, CancelNoted
  <2>2. CASE "initiateRestore" \in suspend /\ "executeSysMotion" \in control
    <3>1. control' = {"executeHold", "executeSysMotion"} /\ suspend' \subseteq suspend \cup {"restartRetract", "safetyDoorAjar"}
      BY <1>6, <2>1, <2>2 DEF CheckDoor, DoSafetyDoor, Restarted
    <3>2. QED
      BY <1>2, <1>3, <2>1, <2>2, <3>1 DEF RestInv
  <2>3. CASE ~("initiateRestore" \in suspend /\ "executeSysMotion" \in control)
    <3>1. /\ control' = control /\ "jogCancel" \notin suspend'
          /\ "holdComplete" \in suspend' <=> "holdComplete" \in suspend
      <4>1. Restarted(FALSE) = (suspend \ {"retractComplete", "initiateRestore"}) \cup {"restartRetract"}
        BY DEF Restarted
      <4>2. control' = control /\ (suspend' = suspend \cup {"safetyDoorAjar"} \/ suspend' = Restarted(FALSE) \cup {"safetyDoorAjar"})
        BY <1>6, <2>1, <2>3 DEF CheckDoor, DoSafetyDoor
      <4>3. QED
        BY <2>1, <4>1, <4>2
    <3>2. QED
      BY <1>2, <1>3, <2>1, <3>1 DEF RestInv
  <2>4. QED
    BY <2>2, <2>3
<1>7. QED
  BY <1>4, <1>5, <1>6 DEF RestInv, NoAlarm, HoldInv, StateType

LEMMA RestSuspend ==
  ASSUME Types, JogInv, DoorInv, HoldInv, RestInv, Suspend
  PROVE  RestInv'
<1> USE DEF sys, stepper, power
<1>1. at.phase = "out" /\ ~abort
  BY DEF Suspend, LeaveSuspend, Park, FallAsleep, AtDoor, WaitSuspended, ParkingMoves, WakeUp,
         PulledOut, Parked, Returned, Plunged, Suspended, Moving, DoorInv, Calm
<1>2. events' = events \/ events' = Append(events, "cycleStart")
  BY DEF Suspend, LeaveSuspend, Park, FallAsleep, AtDoor, WaitSuspended, ParkingMoves, WakeUp,
         PulledOut, Parked, Returned, Plunged, Resume, CycleStartSent
<1>3. OneStop(events') /\ ~Pending("alarm")' /\ (Pending("cycleStop")' <=> Pending("cycleStop"))
  <2>1. OneStop(events) /\ ~Pending("alarm") /\ events \in Seq(Event)
        /\ {"cycleStart", "cycleStop", "alarm"} \subseteq Event
    BY DEF RestInv, ReportedOnce, NoAlarm, Types, Event
  <2>2. CASE events' = events
    BY <2>1, <2>2, QuietStep
  <2>3. CASE events' = Append(events, "cycleStart")
    BY <2>1, <2>3, SendStep, OneStopAppend
  <2>4. QED
    BY <1>2, <2>2, <2>3
<1>4. awake' = awake \/ ~awake'
  BY DEF Suspend, LeaveSuspend, Park, FallAsleep, AtDoor, WaitSuspended, ParkingMoves, WakeUp,
         PulledOut, Parked, Returned, Plunged
<1>5. ReportedOnce' /\ (Running' => Running)
  BY <1>3, <1>4 DEF RestInv, ReportedOnce, Running
<1>6. ASSUME state' # "Alarm", ~Starting', IdleRests', HoldRests', Unheld', ParkMotion'
      PROVE  RestInv'
  BY <1>3, <1>5, <1>6 DEF RestInv, NoAlarm, StartsFromRest, StartsMotion
\* A move is begun from rest.
<1>7. ASSUME state' = state, "holdComplete" \in suspend' <=> "holdComplete" \in suspend,
             "jogCancel" \in suspend' => "jogCancel" \in suspend,
             state \in {"SafetyDoor", "Sleep"}, "holdComplete" \in suspend, "executeSysMotion" \notin control,
             NEW leg \in {"pullout", "retract", "return", "plunge"}, NEW r \in BOOLEAN, MoveTo(leg, r)
      PROVE  RestInv'
  <2>1. /\ at' = [at EXCEPT !.park = leg, !.restart = r, !.phase = "prep", !.then = "door"]
        /\ "executeSysMotion" \in control'
    BY <1>1, <1>7 DEF MoveTo, MoveBlocked
  <2>2. ~Running /\ "jogCancel" \notin suspend
    BY <1>7 DEF RestInv, HoldRests, Unheld
  <2>3. at'.park = leg /\ at'.phase = "prep" /\ at'.then = "door"
    BY <2>1 DEF Types, Place
  <2>4. QED
    BY <1>3, <1>5, <1>7, <2>1, <2>2, <2>3
       DEF RestInv, NoAlarm, StartsFromRest, StartsMotion, IdleRests, HoldRests, Unheld, ParkMotion, ParkMove
\* A move is over: the machine is at rest again.
<1>8. ASSUME Moving, MotionOver
      PROVE  /\ state \in {"SafetyDoor", "Sleep"} /\ "holdComplete" \in suspend
             /\ "executeSysMotion" \notin control /\ ~Running /\ "jogCancel" \notin suspend
  BY <1>1, <1>8 DEF Moving, MotionOver, RestInv, ParkMotion, ParkMove, HoldRests
<1> USE DEF IdleRests, HoldRests, Unheld, ParkMotion
<1>9. CASE LeaveSuspend \/ FallAsleep \/ WaitSuspended \/ ParkingMoves \/ WakeUp
  <2>1. state' = state /\ suspend' = suspend /\ control' = control
    BY <1>9 DEF LeaveSuspend, FallAsleep, WaitSuspended, ParkingMoves, WakeUp
  <2>2. ~Starting' /\ (ParkMove' <=> ParkMove)
    BY <1>9 DEF LeaveSuspend, FallAsleep, WaitSuspended, ParkingMoves, WakeUp, Phase, LoopAgain, Suspended, Moving,
                Starting, ParkMove, Types, Place
  <2>3. QED
    BY <1>5, <1>6, <2>1, <2>2 DEF RestInv, NoAlarm
<1>10. CASE Park \/ AtDoor
  <2>1. /\ state' = state /\ state \in {"SafetyDoor", "Sleep"} /\ "holdComplete" \in suspend
        /\ at.park = "none"
    BY <1>10 DEF Park, AtDoor, AtRest, Suspended
  <2>2. "executeSysMotion" \notin control /\ ~Running /\ "jogCancel" \notin suspend
    BY <2>1 DEF RestInv, ParkMove
  <2>3. "holdComplete" \in suspend' /\ "jogCancel" \notin suspend'
    <3>1. CASE Park
      <4>1. suspend' = suspend \/ Retracted
        BY <3>1 DEF Park
      <4>2. QED
        BY <2>1, <2>2, <4>1 DEF Retracted
    <3>2. CASE AtDoor
      BY <2>1, <2>2, <3>2 DEF AtDoor
    <3>3. QED
      BY <1>10, <3>1, <3>2
  <2>4. \/ \E leg \in {"pullout", "return"}, r \in BOOLEAN : MoveTo(leg, r)
        \/ LoopAgain /\ control' = control
        \/ at'.phase = "out" /\ at'.park = "return" /\ control' = control
    <3>1. CASE Park
      BY <3>1 DEF Park
    <3>2. CASE AtDoor
      <4> DEFINE noted == IF ajar THEN suspend ELSE suspend \ {"safetyDoorAjar"}
      <4>1. RestartFlag(noted) \in BOOLEAN
        BY DEF RestartFlag
      <4>2. \/ LoopAgain /\ control' = control
            \/ MoveTo("return", RestartFlag(noted))
            \/ at' = [at EXCEPT !.park = "return", !.restart = RestartFlag(noted)] /\ control' = control
        BY <3>2 DEF AtDoor
      <4> HIDE DEF noted
      <4>3. QED
        BY <1>1, <4>1, <4>2 DEF Types, Place
    <3>3. QED
      BY <1>10, <3>1, <3>2
  <2>5. CASE \E leg \in {"pullout", "return"}, r \in BOOLEAN : MoveTo(leg, r)
    BY <1>7, <2>1, <2>2, <2>3, <2>5
  <2>6. CASE LoopAgain /\ control' = control
    <3>1. ~Starting' /\ ~ParkMove'
      BY <2>6 DEF LoopAgain, Starting, ParkMove, Types, Place
    <3>2. QED
      BY <1>5, <1>6, <2>1, <2>2, <2>3, <2>6, <3>1
  <2>7. CASE at'.phase = "out" /\ at'.park = "return" /\ control' = control
    BY <1>5, <1>6, <2>1, <2>2, <2>3, <2>7 DEF Starting, ParkMove
  <2>8. QED
    BY <2>4, <2>5, <2>6, <2>7
<1>11. CASE PulledOut \/ Parked \/ Returned \/ Plunged
  <2>1. /\ state \in {"SafetyDoor", "Sleep"} /\ "holdComplete" \in suspend
        /\ "executeSysMotion" \notin control /\ ~Running /\ "jogCancel" \notin suspend
    BY <1>8, <1>11 DEF PulledOut, Parked, Returned, Plunged
  <2>2. "holdComplete" \in suspend' /\ "jogCancel" \notin suspend'
    <3>1. CASE Parked
      BY <2>1, <3>1 DEF Parked, Retracted
    <3>2. CASE PulledOut \/ Returned \/ Plunged
      BY <2>1, <3>2 DEF PulledOut, Returned, Plunged
    <3>3. QED
      BY <1>11, <3>1, <3>2
  <2>3. \/ \E leg \in {"retract", "plunge"}, r \in BOOLEAN : MoveTo(leg, r) /\ state' = state
        \/ LoopAgain /\ control' = control /\ state' \in {state, "Idle"}
    BY <1>11 DEF PulledOut, Parked, Returned, Plunged, Resume
  <2>4. CASE \E leg \in {"retract", "plunge"}, r \in BOOLEAN : MoveTo(leg, r) /\ state' = state
    BY <1>7, <2>1, <2>2, <2>4
  <2>5. CASE LoopAgain /\ control' = control /\ state' \in {state, "Idle"}
    <3>1. ~Starting' /\ ~ParkMove'
      BY <2>5 DEF LoopAgain, Starting, ParkMove, Types, Place
    <3>2. QED
      BY <1>5, <1>6, <2>1, <2>2, <2>5, <3>1
  <2>6. QED
    BY <2>3, <2>4, <2>5
<1>12. QED
  BY <1>9, <1>10, <1>11 DEF Suspend

LEMMA RestStep ==
  ASSUME Types, JogInv, DoorInv, HoldInv, RestInv, [Next]_vars, came' \cap Disturbances = {}
  PROVE  RestInv'
<1> USE DEF sys, stepper
<1>1. CASE HandleEvent
  BY <1>1, RestHandle
<1>2. CASE CheckDoor
  BY <1>2, RestCheck
<1>3. CASE Suspend
  BY <1>3, RestSuspend
<1>4. ASSUME NEW c \in Event \ {"alarm", "cycleStop"}, events' = events \/ events' = Append(events, c)
      PROVE  OneStop(events') /\ ~Pending("alarm")' /\ (Pending("cycleStop")' <=> Pending("cycleStop"))
  <2>1. OneStop(events) /\ ~Pending("alarm") /\ events \in Seq(Event) /\ {"cycleStop", "alarm"} \subseteq Event
    BY DEF RestInv, ReportedOnce, NoAlarm, Types, Event
  <2>2. CASE events' = events
    BY <2>1, <2>2, QuietStep
  <2>3. CASE events' = Append(events, c)
    BY <1>4, <2>1, <2>3, SendStep, OneStopAppend
  <2>4. QED
    BY <1>4, <2>2, <2>3
\* Steps that leave the machine's state and the stepper as they are.
<1>5. ASSUME state' = state, suspend' = suspend, awake' = awake, ParkMove' <=> ParkMove, Starting' => Starting /\ at' = at,
             \A b \in {"executeHold", "executeSysMotion"} : b \in control' <=> b \in control,
             OneStop(events'), ~Pending("alarm")', Pending("cycleStop")' <=> Pending("cycleStop")
      PROVE  RestInv'
  <2>1. Running' <=> Running
    BY <1>5 DEF Running
  <2>2. "executeHold" \in control' <=> "executeHold" \in control
    BY <1>5
  <2>3. "executeSysMotion" \in control' <=> "executeSysMotion" \in control
    BY <1>5
  <2>4. NoAlarm' /\ ReportedOnce'
    BY <1>5 DEF RestInv, NoAlarm, ReportedOnce
  <2>5. StartsFromRest' /\ StartsMotion'
    BY <1>5, <2>1, <2>3 DEF RestInv, StartsFromRest, StartsMotion
  <2>6. IdleRests' /\ HoldRests' /\ Unheld' /\ ParkMotion'
    BY <1>5, <2>1, <2>2, <2>3 DEF RestInv, IdleRests, HoldRests, Unheld, ParkMotion
  <2>7. QED
    BY <2>4, <2>5, <2>6 DEF RestInv
<1>6. CASE EventsHandled \/ PrepSegment \/ UNCHANGED vars
  <2>1. /\ state' = state /\ suspend' = suspend /\ awake' = awake /\ events' = events
        /\ control' = control \/ control' = control \cup {"endMotion"}
    BY <1>6 DEF EventsHandled, PrepSegment, vars
  <2>2. (ParkMove' <=> ParkMove) /\ (Starting' => Starting /\ at' = at)
    BY <1>6 DEF EventsHandled, PrepSegment, vars, ParkMove, Starting, Types, Place
  <2>3. \A b \in {"executeHold", "executeSysMotion"} : b \in control' <=> b \in control
    BY <2>1
  <2>4. OneStop(events') /\ ~Pending("alarm")' /\ (Pending("cycleStop")' <=> Pending("cycleStop"))
    BY <1>4, <2>1 DEF Event
  <2>5. QED
    BY <1>5, <2>1, <2>2, <2>3, <2>4
<1>7. CASE PrepDone
  <2>1. /\ state' = state /\ suspend' = suspend /\ control' = control /\ events' = events
        /\ at' = [at EXCEPT !.phase = at.then, !.then = "out"] /\ at.phase = "prep"
        /\ awake' = (awake \/ at.then # "out")
    BY <1>7 DEF PrepDone, Wakes, Phase
  <2>2. ~Starting' /\ (ParkMove' <=> ParkMove)
    BY <2>1 DEF Starting, ParkMove, Types, Place
  <2>3. OneStop(events') /\ ~Pending("alarm")' /\ (Pending("cycleStop")' <=> Pending("cycleStop"))
    BY <1>4, <2>1 DEF Event
  <2>4. CASE Starting
    <3>1. ~Running
      BY <2>4 DEF RestInv, StartsFromRest
    <3>2. \/ state \in {"Cycle", "Jog"} /\ "holdComplete" \notin suspend
          \/ state \in {"SafetyDoor", "Sleep"} /\ "executeSysMotion" \in control
      BY <2>4 DEF RestInv, StartsMotion, Unheld, ParkMotion
    <3>3. QED
      BY <2>1, <2>2, <2>3, <3>1, <3>2
         DEF RestInv, NoAlarm, ReportedOnce, StartsFromRest, StartsMotion, IdleRests, HoldRests, Unheld, ParkMotion,
             Running
  <2>5. CASE ~Starting
    <3>1. awake' = awake
      BY <2>1, <2>5 DEF Starting, Types
    <3>2. QED
      BY <1>5, <2>1, <2>2, <2>3, <3>1
  <2>6. QED
    BY <2>4, <2>5
<1>8. CASE MainLoop \/ SyncAgain \/ SyncDone \/ EnterSuspend
  <2>1. /\ state' = state /\ suspend' = suspend /\ control' = control /\ awake' = awake
        /\ events' = events \/ events' = Append(events, "cycleStart")
    BY <1>8 DEF MainLoop, SyncAgain, SyncDone, EnterSuspend, AutoCycleStart, RestInv, NoAlarm
  <2>2. (ParkMove' <=> ParkMove) /\ ~Starting'
    BY <1>8 DEF MainLoop, SyncAgain, SyncDone, EnterSuspend, Phase, ParkMove, Starting, Types, Place
  <2>3. OneStop(events') /\ ~Pending("alarm")' /\ (Pending("cycleStop")' <=> Pending("cycleStop"))
    BY <1>4, <2>1 DEF Event
  <2>4. QED
    BY <1>5, <2>1, <2>2, <2>3
<1>9. CASE StepSegment
  <2>1. /\ state' = state /\ suspend' = suspend /\ control' = control /\ awake' = awake /\ events' = events /\ at' = at
    BY <1>9 DEF StepSegment
  <2>2. (ParkMove' <=> ParkMove) /\ (Starting' => Starting)
    BY <2>1 DEF ParkMove, Starting
  <2>3. OneStop(events') /\ ~Pending("alarm")' /\ (Pending("cycleStop")' <=> Pending("cycleStop"))
    BY <1>4, <2>1 DEF Event
  <2>4. QED
    BY <1>5, <2>1, <2>2, <2>3
<1>10. CASE StepperStops
  <2>1. /\ state' = state /\ suspend' = suspend /\ control' = control /\ at' = at
        /\ awake /\ ~awake' /\ events' = Append(events, "cycleStop")
    BY <1>10 DEF StepperStops, Reported
  <2>2. Running /\ ~Pending("cycleStop")
    BY <2>1 DEF Running, RestInv, ReportedOnce
  <2>3. OneStop(events') /\ ~Pending("alarm")'
    <3>1. OneStop(events) /\ ~Pending("alarm") /\ events \in Seq(Event) /\ {"cycleStop", "alarm"} \subseteq Event
      BY DEF RestInv, ReportedOnce, NoAlarm, Types, Event
    <3>2. OneStop(events')
      BY <2>1, <2>2, <3>1, OneStopAppend DEF Pending
    <3>3. QED
      BY <2>1, <3>1, <3>2, SendStep
  <2>4. (ParkMove' <=> ParkMove) /\ ~Starting'
    BY <2>1, <2>2 DEF ParkMove, Starting, RestInv, StartsFromRest
  <2>5. QED
    BY <2>1, <2>2, <2>3, <2>4
       DEF RestInv, NoAlarm, ReportedOnce, StartsFromRest, StartsMotion, IdleRests, HoldRests, Unheld, ParkMotion
<1>11. ASSUME NEW c \in Commands, Command(c)
       PROVE  RestInv'
  <2>1. c \in Event \ {"alarm", "cycleStop"}
    BY <1>11, CommandIsEvent, RealtimeAssumption DEF Command, Disturbances
  <2>2. /\ state' = state /\ suspend' = suspend /\ control' = control /\ awake' = awake /\ at' = at
        /\ events' = Append(events, c)
    BY <1>11 DEF Command
  <2>3. (ParkMove' <=> ParkMove) /\ (Starting' => Starting)
    BY <2>2 DEF ParkMove, Starting
  <2>4. OneStop(events') /\ ~Pending("alarm")' /\ (Pending("cycleStop")' <=> Pending("cycleStop"))
    BY <1>4, <2>1, <2>2
  <2>5. QED
    BY <1>5, <2>2, <2>3, <2>4
<1>12. QED
  BY <1>1, <1>2, <1>3, <1>6, <1>7, <1>8, <1>9, <1>10, <1>11 DEF Next, ProtocolTask, RtSystem, StepInterrupt

\* As long as no reset, fault or alarm has come, a hold that counts as complete
\* finds the stepper off, whatever was queued before the stepper's report: parking
\* may trust it.
THEOREM RestsWhenComplete == Spec => []RestedWhenComplete
<1> DEFINE Guarded == Untouched(Disturbances) => RestInv
           Before == Types /\ (Untouched({"reset", "fault"}) => HoldsInv)
<1>1. Init => RestInv
  <2>1. Init => ~Pending("alarm") /\ ~Pending("cycleStop") /\ OneStop(events)
    BY DEF Init, Pending, OneStop
  <2>2. Init => /\ state = "Idle" /\ suspend = {} /\ control = {} /\ ~awake
                /\ at.park = "none" /\ at.phase = "out"
    BY DEF Init
  <2>3. QED
    BY <2>1, <2>2
       DEF RestInv, NoAlarm, ReportedOnce, StartsFromRest, StartsMotion, IdleRests, HoldRests, Unheld, ParkMotion,
           ParkMove, Starting, Running
<1>2. Spec => []Before
  BY HoldsKept, PTL
<1>3. Before /\ Guarded /\ [Next]_vars => Guarded'
  <2>1. SUFFICES ASSUME Before, Guarded, [Next]_vars, Untouched(Disturbances)'
                 PROVE  RestInv'
    OBVIOUS
  <2>2. came' \cap Disturbances = {} /\ Untouched(Disturbances) /\ Untouched({"reset", "fault"})
    BY <2>1, CameStays DEF Untouched, Disturbances
  <2>3. QED
    BY <2>1, <2>2, RestStep DEF HoldsInv
<1>4. Guarded => RestedWhenComplete
  BY DEF RestInv, HoldRests, RestedWhenComplete, Running
<1>5. Init => Guarded
  BY <1>1
<1> HIDE DEF Guarded, Before
<1>6. QED
  BY <1>2, <1>3, <1>4, <1>5, PTL DEF Spec
=============================================================================
