------------------------------- MODULE Lines -------------------------------
(* How lines get from channels to execution: the channel registry with its  *)
(* reference counts, kill queue and reaper (Channel.cpp, Serial.cpp), the   *)
(* job stack (Job.cpp), and the one-deep queue through which the polling    *)
(* task hands lines to the protocol task (Protocol.cpp, execute_line() of   *)
(* ProcessSettings.cpp).  Three actors interleave: the two tasks, and the   *)
(* clients with the web server's task that sees them come and go.           *)
EXTENDS Naturals, FiniteSets, SequencesExt

CONSTANTS
    Clients,     \* channels of senders
    Files,       \* channels of files being run; also bounds the nesting
    None,
    Senders,     \* the clients that send lines
    Kinds,       \* the kinds of lines there are
    Faults,      \* events that come from outside: "alarm", "reset"
    FileLines,   \* bound on the lines of a file
    Window,      \* bound on the unanswered lines of a client
    KillDepth,   \* length of the kill queue
    EventDepth   \* bound on the events waiting when a fault arrives

Channels == Clients \cup Files

ASSUME LinesAssumption ==
    /\ None \notin Channels
    /\ Clients \cap Files = {}
    /\ Senders \subseteq Clients
    /\ Kinds \subseteq {"gcode", "bad", "query", "run", "unlock"}
    /\ Faults \subseteq {"alarm", "reset"}
    /\ FileLines \in Nat /\ Window \in Nat
    /\ KillDepth \in Nat /\ EventDepth \in Nat

VARIABLES
    live,        \* channels whose object exists
    online,      \* clients still connected
    closing,     \* _closing
    refs,        \* _processing_refs
    mail,        \* channels with messages in message_queue (_queued_log_refs)
    left,        \* lines received and not read; lines left in a file
    channelq,    \* AllChannels::_channelq
    last,        \* AllChannels::_lastChannel
    killQueue,   \* AllChannels::_killQueue
    zombies,     \* AllChannels::_zombies
    job,         \* the job stack, by the channels of its sources
    leader,      \* Job::leader
    cmd,         \* cmd_queue
    poll,        \* where the polling task is, with the line it has read
    proto,       \* where the protocol task is, with the line it executes
    unwind,      \* unwind_cause is set
    abort,       \* sys.abort()
    machine,     \* the state, as far as lines are accepted in it
    events       \* the event queue

objectVars == <<live, online, closing, left>>
registryVars == <<channelq, last, killQueue, zombies>>
jobVars == <<job, leader>>
machineVars == <<unwind, abort, machine, events>>
vars == <<objectVars, registryVars, jobVars, machineVars,
          refs, mail, cmd, poll, proto>>

Empty == [channel |-> None, line |-> None]
Polling(at) == [at |-> at, channel |-> None, line |-> None]
Resting(at) == [at |-> at, channel |-> None, out |-> None, line |-> None]

ChannelTypes ==
    /\ live \subseteq Channels /\ online \subseteq Clients
    /\ closing \in [Channels -> BOOLEAN]
    /\ refs \in [Channels -> Nat]
    /\ mail \subseteq Channels
    /\ left \in [Channels -> Nat]
RegistryTypes ==
    /\ channelq \in Seq(Clients) /\ last \in Clients \cup {None}
    /\ killQueue \in Seq(Channels) /\ zombies \subseteq Channels
    /\ job \in Seq(Files) /\ leader \in Channels \cup {None}
TaskTypes ==
    /\ cmd \in [channel : Channels \cup {None}, line : Kinds \cup {None}]
    /\ poll \in [at : {"top", "job", "abort", "feed", "offer", "eof", "failed",
                       "input", "client"},
                 channel : Channels \cup {None}, line : Kinds \cup {None}]
    /\ proto \in [at : {"receive", "execute", "wait", "ack", "pass"},
                  channel : Channels \cup {None},
                  out : Channels \cup {None}, line : Kinds \cup {None}]
MachineTypes ==
    /\ unwind \in BOOLEAN /\ abort \in BOOLEAN
    /\ machine \in {"Idle", "Alarm"}
    /\ events \in Seq({"alarm", "reset", "restart"})
TypeOK == ChannelTypes /\ RegistryTypes /\ TaskTypes /\ MachineTypes

Init ==
    /\ live = {} /\ online = {}
    /\ closing = [c \in Channels |-> FALSE]
    /\ refs = [c \in Channels |-> 0]
    /\ mail = {}
    /\ left = [c \in Channels |-> 0]
    /\ channelq = <<>> /\ last = None
    /\ killQueue = <<>> /\ zombies = {}
    /\ job = <<>> /\ leader = None
    /\ cmd = Empty
    /\ poll = Polling("top")
    /\ proto = Resting("receive")
    /\ unwind = FALSE /\ abort = FALSE
    /\ machine = "Idle"
    /\ events = <<>>

-----------------------------------------------------------------------------
(* References and the registry.                                             *)

(* refs after try_acquire_processing_ref() and release_processing_ref(). *)
Acquired(c) == [refs EXCEPT ![c] = @ + 1]
Released(c) == [refs EXCEPT ![c] = @ - 1]

(* What try_acquire_log_ref() and try_acquire_processing_ref() ask.  What a  *)
(* call on a deleted channel would do is not modelled.                       *)
Open(c) == c \in live /\ ~closing[c]

MailTo(c) == IF Open(c) THEN mail \cup {c} ELSE mail

JobActive == job # <<>>

(* The kill queue after AllChannels::kill() of each of cs in turn.  Those for *)
(* which there is no room are leaked.                                        *)
Killed(queue, cs) ==
    LET room == KillDepth - Len(queue)
    IN  queue \o SubSeq(cs, 1, IF Len(cs) < room THEN Len(cs) ELSE room)

(* AllChannels::deregistration() of each of dead: the registry without them. *)
Without(queue, dead) ==
    LET kept[n \in 0..Len(queue)] ==
            IF n = 0 THEN <<>>
            ELSE IF queue[n] \in dead THEN kept[n - 1]
            ELSE Append(kept[n - 1], queue[n])
    IN  kept[Len(queue)]

(* Mistaken: only the references of messages are waited for. *)
UnreferencedByMail(buried) == {c \in buried : c \notin mail}

(* The channels reap_channels() finds without references of either kind. *)
Unreferenced(buried) == {c \in buried : refs[c] = 0 /\ c \notin mail}

(* AllChannels::poll() up to reading: what was killed is closed and taken    *)
(* out of the registry, and zombies that nobody refers to are deleted.       *)
Bury ==
    LET dead == ToSet(killQueue)
        gone == Unreferenced(zombies \cup dead)
    IN  /\ killQueue' = <<>>
        /\ zombies' = (zombies \cup dead) \ gone
        /\ live' = live \ gone
        /\ closing' = [c \in Channels |-> (closing[c] \/ c \in dead) /\ c \notin gone]
        /\ channelq' = Without(channelq, dead)

(* _lastChannel after it was deregistered. *)
Remembered == IF last \in ToSet(killQueue) THEN None ELSE last

-----------------------------------------------------------------------------
(* The job stack.                                                           *)

(* Job::pop() down to depth d: the channels popped are closed and killed,    *)
(* and the leader is let go with the last of them.                           *)
PopTo(d) ==
    LET popped == Reverse(SubSeq(job, d + 1, Len(job)))
    IN  /\ job' = SubSeq(job, 1, d)
        /\ closing' = [c \in Channels |-> closing[c] \/ c \in ToSet(popped)]
        /\ killQueue' = Killed(killQueue, popped)
        /\ IF d = 0 /\ leader # None
           THEN refs' = Released(leader) /\ leader' = None
           ELSE UNCHANGED <<refs, leader>>

(* Job::nest() of an opened file, for the channel out. *)
Nest(f, n, out) ==
    /\ live' = live \cup {f}
    /\ left' = [left EXCEPT ![f] = n]
    /\ job' = Append(job, f)
    /\ leader' = IF job = <<>> /\ Open(out) THEN out ELSE leader

(* Job::leader_channel(): a leader that is closing is let go first. *)
LeaderLost == leader # None /\ closing[leader]
LeaderChannel == IF JobActive /\ ~LeaderLost THEN leader ELSE None

-----------------------------------------------------------------------------
(* The polling task: poll_once().                                           *)

(* pollChannels() without a line, which its counter often skips, and         *)
(* drain_output().                                                           *)
PollChannels ==
    /\ poll.at = "top"
    /\ \/ /\ Bury
          /\ left' = [c \in Channels |-> IF c \in live' THEN left[c] ELSE 0]
          /\ last' = Remembered
       \/ UNCHANGED <<live, closing, left, registryVars>>
    /\ mail' = {}
    /\ poll' = Polling("job")
    /\ UNCHANGED <<online, jobVars, machineVars, refs, cmd, proto>>

(* Without a job every line goes to the queue, so nothing is read while it   *)
(* is full; a job is aborted after an alarm or a reset.                      *)
PollJob ==
    /\ poll.at = "job"
    /\ \/ /\ ~JobActive
          /\ unwind' = FALSE
          /\ poll' = Polling(IF cmd = Empty THEN "input" ELSE "top")
       \/ /\ JobActive
          /\ poll' = Polling(IF machine = "Alarm" \/ unwind THEN "abort" ELSE "feed")
          /\ UNCHANGED unwind
    /\ UNCHANGED <<objectVars, registryVars, jobVars, abort, machine, events,
                   refs, mail, cmd, proto>>

PollAbort ==
    /\ poll.at = "abort"
    /\ PopTo(0)
    /\ unwind' = FALSE
    /\ poll' = Polling("top")
    /\ UNCHANGED <<live, online, left, channelq, last, zombies,
                   abort, machine, events, mail, cmd, proto>>

(* Mistaken: a line of the file may still be in flight. *)
MayFeedEarly == cmd = Empty /\ JobActive
(* Mistaken: the end of a file is not noticed. *)
MayFeedLines == cmd = Empty /\ JobActive /\ refs[Last(job)] = 0 /\ left[Last(job)] > 0

(* The innermost file may be read only when none of its lines is in flight.  *)
MayFeed == cmd = Empty /\ JobActive /\ refs[Last(job)] = 0

PollFeed ==
    /\ poll.at = "feed"
    /\ \/ /\ ~MayFeed
          /\ poll' = Polling("input")
          /\ UNCHANGED left
       \/ /\ MayFeed
          /\ left[Last(job)] > 0
          /\ left' = [left EXCEPT ![Last(job)] = @ - 1]
          /\ \E k \in Kinds :
                poll' = [at |-> "offer", channel |-> Last(job), line |-> k]
       \/ /\ MayFeed
          /\ poll' = Polling(IF left[Last(job)] = 0 THEN "eof" ELSE "failed")
          /\ UNCHANGED left
    /\ UNCHANGED <<live, online, closing, registryVars, jobVars, machineVars,
                   refs, mail, cmd, proto>>

(* execute_line() for the file's line: it is queued if the file is still the *)
(* innermost one, or there is no job at all.  If not, it is dropped, or run   *)
(* on the spot if it only reports, to a file, which shows nobody.            *)
PollOffer ==
    /\ poll.at = "offer"
    /\ \/ /\ ~closing[poll.channel]
          /\ JobActive => Last(job) = poll.channel
          /\ cmd' = [channel |-> poll.channel, line |-> poll.line]
          /\ refs' = Acquired(poll.channel)
       \/ /\ closing[poll.channel] \/ (JobActive /\ Last(job) # poll.channel)
          /\ UNCHANGED <<cmd, refs>>
    /\ poll' = Polling("input")
    /\ UNCHANGED <<objectVars, registryVars, jobVars, machineVars,
                   mail, proto>>

(* Job::unnest() *)
PollEof ==
    /\ poll.at = "eof"
    /\ PopTo(IF JobActive THEN Len(job) - 1 ELSE 0)
    /\ poll' = Polling("input")
    /\ UNCHANGED <<live, online, left, channelq, last, zombies, machineVars,
                   mail, cmd, proto>>

(* A file that cannot be read: the leader is told and the job aborted. *)
PollFailed ==
    /\ poll.at = "failed"
    /\ PopTo(0)
    /\ mail' = IF LeaderChannel = None THEN mail ELSE MailTo(leader)
    /\ poll' = Polling("input")
    /\ UNCHANGED <<live, online, left, channelq, last, zombies, machineVars,
                   cmd, proto>>

(* Mistaken: a line is reported when there is none. *)
HasLineAlways(c) == ~closing'[c]

(* pollChannels() with a line: the channel that had the last turn is asked   *)
(* after all others.                                                         *)
HasLine(c) == left[c] > 0 /\ ~closing'[c]
NextTurn ==
    LET others == {i \in DOMAIN channelq' :
                      channelq'[i] # Remembered /\ HasLine(channelq'[i])}
    IN  IF others # {} THEN channelq'[Min(others)]
        ELSE IF Remembered # None /\ HasLine(Remembered) THEN Remembered ELSE None

PollInput ==
    /\ poll.at = "input"
    /\ Bury
    /\ last' = NextTurn
    /\ LET c == NextTurn
           kept == [d \in Channels |-> IF d \in live' THEN left[d] ELSE 0]
       IN  IF c = None
           THEN /\ poll' = Polling("top")
                /\ left' = kept
                /\ UNCHANGED refs
           ELSE /\ \E k \in Kinds : poll' = [at |-> "client", channel |-> c, line |-> k]
                /\ left' = [kept EXCEPT ![c] = @ - 1]
                /\ refs' = Acquired(c)
    /\ UNCHANGED <<online, jobVars, machineVars, mail, cmd, proto>>

(* Mistaken: that a job runs is not asked. *)
KeptOutIfFull == cmd # Empty
KeptOut == JobActive \/ cmd # Empty

(* execute_line() for a client's line: queued when no job runs, else run on  *)
(* the spot or refused.                                                      *)
PollClient ==
    /\ poll.at = "client"
    /\ \/ /\ ~KeptOut
          /\ cmd' = [channel |-> poll.channel, line |-> poll.line]
          /\ UNCHANGED <<refs, mail>>
       \/ /\ KeptOut
          /\ mail' = MailTo(poll.channel)
          /\ refs' = Released(poll.channel)
          /\ UNCHANGED cmd
    /\ poll' = Polling("top")
    /\ UNCHANGED <<objectVars, registryVars, jobVars, machineVars, proto>>

PollingTask ==
    \/ PollChannels \/ PollJob \/ PollAbort \/ PollFeed \/ PollOffer
    \/ PollEof \/ PollFailed \/ PollInput \/ PollClient

-----------------------------------------------------------------------------
(* The protocol task: protocol_main_loop().                                 *)

(* A line is taken from the queue, if there is one; its output goes to the   *)
(* job's leader, or to whom the line came from.                              *)
Receive ==
    /\ proto.at = "receive"
    /\ \/ /\ cmd = Empty
          /\ proto' = Resting("pass")
          /\ UNCHANGED <<refs, leader>>
       \/ /\ cmd # Empty
          /\ ~closing[cmd.channel]
          /\ IF LeaderLost
             THEN refs' = Released(leader) /\ leader' = None
             ELSE UNCHANGED <<refs, leader>>
          /\ proto' = [at |-> "execute", channel |-> cmd.channel, line |-> cmd.line,
                       out |-> IF LeaderChannel = None THEN cmd.channel ELSE LeaderChannel]
    /\ cmd' = Empty
    /\ UNCHANGED <<objectVars, registryVars, job, machineVars, mail, poll>>

(* Mistaken: the reference is not given back. *)
DropLineHeld ==
    /\ proto.at = "receive"
    /\ cmd # Empty
    /\ closing[cmd.channel]
    /\ proto' = Resting("pass")
    /\ cmd' = Empty
    /\ UNCHANGED <<objectVars, registryVars, jobVars, machineVars, refs, mail, poll>>

(* The line of a channel that is closing is dropped. *)
DropLine ==
    /\ proto.at = "receive"
    /\ cmd # Empty
    /\ closing[cmd.channel]
    /\ refs' = Released(cmd.channel)
    /\ proto' = Resting("pass")
    /\ cmd' = Empty
    /\ UNCHANGED <<objectVars, registryVars, jobVars, machineVars, mail, poll>>

Executing(kinds) == proto.at = "execute" /\ proto.line \in kinds
Executed == proto' = [proto EXCEPT !.at = "ack"]

(* A line that reports something, or one refused in this state. *)
ExecuteReport ==
    /\ \/ Executing({"query"})
       \/ Executing({"gcode", "bad", "run"}) /\ machine = "Alarm"
    /\ mail' = MailTo(proto.out)
    /\ Executed
    /\ UNCHANGED <<objectVars, registryVars, jobVars, machineVars,
                   refs, cmd, poll>>

(* G-code that is carried out.  While it waits, events are handled. *)
ExecuteGcode ==
    /\ Executing({"gcode"})
    /\ machine # "Alarm"
    /\ proto' = [proto EXCEPT !.at = "wait"]
    /\ UNCHANGED <<objectVars, registryVars, jobVars, machineVars,
                   refs, mail, cmd, poll>>

WaitOver ==
    /\ proto.at = "wait"
    /\ Executed
    /\ UNCHANGED <<objectVars, registryVars, jobVars, machineVars,
                   refs, mail, cmd, poll>>

(* An error in a job's G-code raises an alarm. *)
ExecuteBad ==
    /\ Executing({"bad"})
    /\ machine # "Alarm"
    /\ mail' = MailTo(proto.out)
    /\ events' = IF JobActive THEN Append(events, "alarm") ELSE events
    /\ Executed
    /\ UNCHANGED <<objectVars, registryVars, jobVars, unwind, abort, machine,
                   refs, cmd, poll>>

(* runFile(): the file is opened and becomes the innermost one of the job. *)
ExecuteRun ==
    /\ Executing({"run"})
    /\ machine # "Alarm"
    /\ \E f \in Files \ live, n \in 0..FileLines :
          /\ Nest(f, n, proto.out)
          /\ refs' = IF leader' = leader THEN refs ELSE Acquired(proto.out)
    /\ Executed
    /\ UNCHANGED <<online, closing, registryVars, machineVars,
                   mail, cmd, poll>>

(* The file cannot be opened. *)
ExecuteRunFails ==
    /\ Executing({"run"})
    /\ machine # "Alarm"
    /\ mail' = MailTo(proto.out)
    /\ Executed
    /\ UNCHANGED <<objectVars, registryVars, jobVars, machineVars,
                   refs, cmd, poll>>

(* disable_alarm_lock() *)
ExecuteUnlock ==
    /\ Executing({"unlock"})
    /\ machine' = "Idle"
    /\ Executed
    /\ UNCHANGED <<objectVars, registryVars, jobVars, unwind, abort, events,
                   refs, mail, cmd, poll>>

(* The line is acknowledged, unless it was aborted, and its channel let go. *)
Ack ==
    /\ proto.at = "ack"
    /\ mail' = IF abort THEN mail ELSE MailTo(proto.channel)
    /\ refs' = Released(proto.channel)
    /\ proto' = Resting("pass")
    /\ UNCHANGED <<objectVars, registryVars, jobVars, machineVars,
                   cmd, poll>>

(* protocol_handle_events(), at the end of a pass and while G-code waits. *)
HandleEvent ==
    /\ proto.at \in {"wait", "pass"}
    /\ events # <<>>
    /\ \/ /\ Head(events) = "alarm"
          /\ machine' = "Alarm"
          /\ events' = Tail(events)
          /\ UNCHANGED <<unwind, abort, left>>
       \/ /\ Head(events) = "reset"
          /\ machine' \in {machine, "Alarm"}
          /\ abort' = TRUE
          /\ unwind' = TRUE
          /\ events' = Append(Tail(events), "restart")
          /\ UNCHANGED <<left>>
       \/ /\ Head(events) = "restart"
          /\ left' = [c \in Channels |-> IF c \in ToSet(channelq) THEN 0 ELSE left[c]]
          /\ events' = Tail(events)
          /\ UNCHANGED <<machine, abort, unwind>>
    /\ UNCHANGED <<live, online, closing, registryVars, jobVars,
                   refs, mail, cmd, poll, proto>>

EndPass ==
    /\ proto.at = "pass"
    /\ events = <<>>
    /\ abort' = FALSE
    /\ proto' = Resting("receive")
    /\ UNCHANGED <<objectVars, registryVars, jobVars, unwind, machine, events,
                   refs, mail, cmd, poll>>

ProtocolTask ==
    \/ Receive \/ DropLine \/ ExecuteReport \/ ExecuteGcode \/ WaitOver
    \/ ExecuteBad \/ ExecuteRun \/ ExecuteRunFails \/ ExecuteUnlock \/ Ack \/ HandleEvent \/ EndPass

-----------------------------------------------------------------------------
(* Clients and the outside.                                                 *)

(* The lines of c that have been neither answered nor thrown away. *)
Unanswered(c) ==
    left[c] + Cardinality({place \in {"poll", "cmd", "proto"} :
                  \/ place = "poll" /\ poll.channel = c
                  \/ place = "cmd" /\ cmd.channel = c
                  \/ place = "proto" /\ proto.channel = c})

Connect(c) ==
    /\ c \notin live
    /\ live' = live \cup {c}
    /\ online' = online \cup {c}
    /\ channelq' = Append(channelq, c)
    /\ UNCHANGED <<closing, left, last, killQueue, zombies, jobVars, machineVars,
                   refs, mail, cmd, poll, proto>>

Send(c) ==
    /\ c \in online
    /\ Unanswered(c) < Window
    /\ left' = [left EXCEPT ![c] = @ + 1]
    /\ UNCHANGED <<live, online, closing, registryVars, jobVars, machineVars,
                   refs, mail, cmd, poll, proto>>

(* The client goes away.  A WebSocket's channel is closed and emptied at     *)
(* once; the others are only killed.                                         *)
Disconnect(c) ==
    /\ c \in online
    /\ online' = online \ {c}
    /\ killQueue' = Killed(killQueue, <<c>>)
    /\ \/ /\ closing' = [closing EXCEPT ![c] = TRUE]
          /\ left' = [left EXCEPT ![c] = 0]
       \/ UNCHANGED <<closing, left>>
    /\ UNCHANGED <<live, channelq, last, zombies, jobVars, machineVars,
                   refs, mail, cmd, poll, proto>>

Fault(e) ==
    /\ Len(events) < EventDepth
    /\ events' = Append(events, e)
    /\ UNCHANGED <<objectVars, registryVars, jobVars, unwind, abort, machine,
                   refs, mail, cmd, poll, proto>>

Outside ==
    \/ \E c \in Clients : Connect(c) \/ Disconnect(c)
    \/ \E c \in Senders : Send(c)
    \/ \E e \in Faults : Fault(e)

Next == PollingTask \/ ProtocolTask \/ Outside
Spec == Init /\ [][Next]_vars
(* Both tasks are endless loops with a delay, on cores of their own. *)
FairSpec == Spec /\ WF_vars(PollingTask) /\ WF_vars(ProtocolTask)

-----------------------------------------------------------------------------
(* Properties.                                                              *)

One(p) == IF p THEN 1 ELSE 0

(* _processing_refs (Channel.cpp:69) counts exactly those who hold on to the *)
(* channel: the queued line, the line being executed, the client's line in   *)
(* the hands of the polling task, and the job it leads.  One release too few *)
(* leaks the channel, one too many deletes it under a holder.                *)
RefsHeld ==
    \A c \in Channels :
        refs[c] = One(cmd.channel = c) + One(proto.channel = c) + One(leader = c)
                + One(poll.at = "client" /\ poll.channel = c)

(* No pointer either task follows is to a channel that has been deleted      *)
(* (reap_channels(), Serial.cpp:78).  Where a line's output goes is left out:*)
(* that channel may be deleted under the line (README).                      *)
HeldChannelsLive ==
    /\ {cmd.channel, proto.channel, poll.channel, leader, last} \ {None} \subseteq live
    /\ mail \cup zombies \cup ToSet(killQueue) \cup ToSet(channelq) \cup ToSet(job)
           \subseteq live

(* While a job runs, the lines executed are those of its innermost file      *)
(* (ProcessSettings.cpp:1369): "this classification cannot race a            *)
(* nest/unnest", and others are refused.                                     *)
JobOwnsMachine ==
    Executing(Kinds) /\ JobActive => proto.channel = Last(job)

(* A channel that was killed is deleted some time later. *)
Reaped ==
    \A c \in Channels :
        c \in ToSet(killQueue) \cup zombies ~> c \notin live

(* A job comes to an end: it is never left on the stack unread. *)
JobEnds == JobActive ~> ~JobActive

(* The job stack and the hand-off implement calls of files: see Interpreter. *)
Calls == INSTANCE Interpreter WITH
    stack <- job,
    todo <- [f \in Files |->
                IF f \in ToSet(job)
                THEN left[f] + One(poll.channel = f) + One(cmd.channel = f)
                ELSE 0],
    calling <- IF ~Executing({"run"}) THEN "nobody"
               ELSE IF proto.channel \in Clients THEN "client"
               ELSE IF proto.channel \in ToSet(job) THEN "file" ELSE "nobody"
RunsAsCalls == Calls!Spec
=============================================================================
