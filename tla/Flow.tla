-------------------------------- MODULE Flow --------------------------------
(***************************************************************************)
(* Flow control (Flowcontrol.cpp) over the job stack (Job.cpp): every line *)
(* of a program is handed to the interpreter in turn, a stack of contexts  *)
(* says which block is open and whether lines are skipped, and a loop goes *)
(* round by setting the position of its file back.                         *)
(*                                                                         *)
(* One line is taken and executed at a time: the next one is not read      *)
(* while one is in flight (Lines.tla).  A line is [op, label, file]: "work"*)
(* is any line of G-code, "call" one that runs another file or macro.  The *)
(* value of an expression is any value.  An entry of the context whose     *)
(* file has been deleted has the file Gone; what a seek in it does is      *)
(* undefined, and here nothing.                                            *)
(*                                                                         *)
(* A second version just above an operator is a mistake the properties are *)
(* to catch: it stands for no code.                                        *)
(***************************************************************************)
EXTENDS Integers, SequencesExt

CONSTANTS
  Programs,   \* the files and macros
  Macros,     \* those of them that are macros
  MaxRepeat,  \* bound: the count of a repeat
  Leftovers   \* assumption: may a job begin with blocks an aborted one left open?

ASSUME FlowAssumption ==
  /\ \A m \in Macros : Len(m) > 0
  /\ MaxRepeat \in Nat \ {0}
  /\ Leftovers \in BOOLEAN

VARIABLES
  job,      \* the job stack, the innermost file last: its text and its position
  context,  \* context: the open blocks, the innermost one last
  did,      \* history, while not strayed: the line done last that does something, its expression's value
  alarm,    \* the state is Alarm
  refused,  \* history: a line of the job was answered with FlowControlSyntaxError
  strayed   \* history: the context has lost the block that the job's lines are in

vars == <<job, context, did, alarm, refused, strayed>>

Gone == 0
Nil == [line |-> 0, value |-> 0]
File == Len(job)
Source == Last(job)
Line == Source.prog[Source.pos]
Loops == {"do", "while", "repeat"}

TopOp == IF context = <<>> THEN "none" ELSE Last(context).op
Skipping == context # <<>> /\ Last(context).skip
Mine(op) == TopOp \in op /\ Last(context).label = Line.label

Take(op) ==
  /\ job # <<>> /\ ~alarm
  /\ Source.pos <= Len(Source.prog) /\ Line.op = op

\* The position is already past the line that is executed.
GoOn == job' = [job EXCEPT ![File].pos = @ + 1]
Seek(e) ==
  IF e.file = Gone \/ job[e.file].prog \in Macros
  THEN GoOn
  ELSE job' = [job EXCEPT ![File].pos = @ + 1, ![e.file].pos = e.pos]

Does(v) == did' = IF strayed THEN did ELSE [line |-> Source.pos, value |-> v]
Push(op, v, repeats) ==
  context' = Append(context,
    [label |-> Line.label, op |-> op, file |-> File, pos |-> IF v > 0 THEN Source.pos + 1 ELSE 0,
     repeats |-> repeats, skip |-> v = 0, handled |-> op = "if" /\ v > 0, brk |-> FALSE])
Pull == context' = Front(context)
SetTop(e) == context' = Append(Front(context), e)
Nothing == GoOn /\ UNCHANGED <<context, did, alarm, refused, strayed>>

\* A line in error clears the context and stops its job.
Fail == context' = <<>> /\ alarm' = TRUE
SyntaxError == Fail /\ refused' = TRUE /\ GoOn /\ UNCHANGED <<did, strayed>>

----------------------------------------------------------------------------
(* The commands.                                                           *)

Work ==
  /\ Take("work")
  /\ IF Skipping THEN Nothing
     ELSE GoOn /\ Does(1) /\ UNCHANGED <<context, alarm, refused, strayed>>

Call ==
  /\ Take("call")
  /\ IF Skipping THEN Nothing
     ELSE /\ job' = Append([job EXCEPT ![File].pos = @ + 1], [prog |-> Line.file, pos |-> 1])
          /\ Does(1)
          /\ UNCHANGED <<context, alarm, refused, strayed>>

If ==
  /\ Take("if")
  /\ IF Skipping THEN Nothing
     ELSE /\ \E v \in {0, 1} : Does(v) /\ Push("if", v, 0)
          /\ GoOn /\ UNCHANGED <<alarm, refused, strayed>>

TestedUnhandled(e) ==
  \E v \in {0, 1} : Does(v) /\ SetTop([e EXCEPT !.skip = v = 0, !.op = "elseif"])
Tested(e) ==
  \E v \in {0, 1} :
    /\ Does(v)
    /\ SetTop(IF v = 1 THEN [e EXCEPT !.skip = FALSE, !.op = "elseif", !.handled = TRUE]
                       ELSE [e EXCEPT !.skip = TRUE])

ElseIf ==
  /\ Take("elseif")
  /\ IF TopOp \notin {"if", "elseif"}
     THEN IF Skipping THEN Nothing ELSE SyntaxError
     ELSE /\ IF Mine({"if", "elseif"})
             THEN IF Last(context).handled
                  THEN SetTop([Last(context) EXCEPT !.skip = TRUE]) /\ UNCHANGED did
                  ELSE Tested(Last(context))
             ELSE UNCHANGED <<context, did>>
          /\ GoOn /\ UNCHANGED <<alarm, refused, strayed>>

Else ==
  /\ Take("else")
  /\ IF TopOp \notin {"if", "elseif"}
     THEN IF Skipping THEN Nothing ELSE SyntaxError
     ELSE /\ IF Mine({"if", "elseif"})
             THEN LET e == Last(context)
                  IN SetTop([e EXCEPT !.skip = e.handled, !.op = IF e.handled THEN @ ELSE "else"])
             ELSE UNCHANGED context
          /\ GoOn /\ UNCHANGED <<did, alarm, refused, strayed>>

\* The end of a block of one of these kinds.
ClosesAny(ops) == IF TopOp \in ops THEN Pull ELSE UNCHANGED context
Closes(ops) == IF Mine(ops) THEN Pull ELSE UNCHANGED context

EndIf ==
  /\ Take("endif")
  /\ IF TopOp \notin {"if", "elseif", "else"}
     THEN IF Skipping THEN Nothing ELSE SyntaxError
     ELSE Closes({"if", "elseif", "else"}) /\ GoOn /\ UNCHANGED <<did, alarm, refused, strayed>>

Do ==
  /\ Take("do")
  /\ IF Skipping THEN Nothing
     ELSE Push("do", 1, 0) /\ GoOn /\ UNCHANGED <<did, alarm, refused, strayed>>

\* Directly in a do, a while of another label is taken for the end of a do that is not its own.
While ==
  /\ Take("while")
  /\ IF context # <<>> /\ Last(context).brk
     THEN Closes({"do"}) /\ GoOn /\ UNCHANGED <<did, strayed>>
     ELSE IF Skipping THEN GoOn /\ UNCHANGED <<context, did, strayed>>
     ELSE IF TopOp = "do" /\ ~Mine({"do"})
     THEN GoOn /\ strayed' = TRUE /\ UNCHANGED <<context, did>>
     ELSE /\ \E v \in {0, 1} :
               /\ Does(v)
               /\ CASE TopOp # "do" -> Push("while", v, 0) /\ GoOn
                    [] TopOp = "do" -> IF v = 1 THEN Seek(Last(context)) /\ UNCHANGED context
                                                ELSE Pull /\ GoOn
          /\ UNCHANGED strayed
  /\ UNCHANGED <<alarm, refused>>

\* The condition of a while again, and another round if it holds.
WhileRound(e) ==
  \E v \in {0, 1} : Does(v) /\ IF v = 1 THEN Seek(e) /\ UNCHANGED context ELSE Pull /\ GoOn

EndWhile ==
  /\ Take("endwhile")
  /\ IF TopOp # "while"
     THEN IF Skipping THEN Nothing ELSE SyntaxError
     ELSE /\ IF Mine({"while"})
             THEN IF Skipping THEN Pull /\ GoOn /\ UNCHANGED did ELSE WhileRound(Last(context))
             ELSE GoOn /\ UNCHANGED <<context, did>>
          /\ UNCHANGED <<alarm, refused, strayed>>

Repeat ==
  /\ Take("repeat")
  /\ IF Skipping THEN Nothing
     ELSE /\ \E n \in 0 .. MaxRepeat : Does(n) /\ Push("repeat", n, n)
          /\ GoOn /\ UNCHANGED <<alarm, refused, strayed>>

\* One round less is left, or the loop is over.
RepeatRound(e) ==
  IF e.repeats > 1 THEN SetTop([e EXCEPT !.repeats = @ - 1]) /\ Seek(e) ELSE Pull /\ GoOn

EndRepeat ==
  /\ Take("endrepeat")
  /\ IF TopOp # "repeat"
     THEN IF Skipping THEN Nothing ELSE SyntaxError
     ELSE /\ IF Mine({"repeat"}) THEN RepeatRound(Last(context)) ELSE GoOn /\ UNCHANGED context
          /\ UNCHANGED <<did, alarm, refused, strayed>>

\* The blocks down to the one called label.
Unwound(label) ==
  LET named == {i \in DOMAIN context : context[i].label = label}
  IN IF named = {} THEN <<>> ELSE SubSeq(context, 1, Max(named))

Broken(e) == [e EXCEPT !.repeats = 0, !.brk = TRUE, !.skip = TRUE, !.handled = TRUE]

Break ==
  /\ Take("break")
  /\ IF Skipping THEN Nothing
     ELSE LET blocks == Unwound(Line.label)
          IN IF blocks # <<>> /\ Last(blocks).op \in Loops
             THEN /\ context' = Append(Front(blocks), Broken(Last(blocks)))
                  /\ GoOn /\ UNCHANGED <<did, alarm, refused, strayed>>
             ELSE SyntaxError

\* The next round of the loop the line names, whose blocks are unwound.  When there is none, the
\* loop is forgotten and the lines go on inside it.
NextRound(blocks) ==
  LET e == Last(blocks)
      again == /\ context' = Append(Front(blocks), [e EXCEPT !.repeats = IF e.op = "repeat" THEN @ - 1 ELSE @])
               /\ Seek(e) /\ UNCHANGED strayed
      over == context' = Front(blocks) /\ GoOn /\ strayed' = TRUE /\ UNCHANGED did
  IN CASE e.op = "repeat" -> IF e.repeats > 1 THEN again /\ UNCHANGED did ELSE over
       [] e.op = "do" -> again /\ UNCHANGED did
       [] e.op = "while" -> (again /\ Does(1)) \/ over

Continue ==
  /\ Take("continue")
  /\ IF Skipping THEN Nothing
     ELSE LET blocks == Unwound(Line.label)
          IN IF blocks # <<>> /\ Last(blocks).op \in Loops
             THEN NextRound(blocks) /\ UNCHANGED <<alarm, refused>>
             ELSE SyntaxError

RaiseAlarm ==
  /\ Take("alarm")
  /\ IF Skipping THEN Nothing
     ELSE alarm' = TRUE /\ GoOn /\ Does(1) /\ UNCHANGED <<context, refused, strayed>>

RaiseError ==
  /\ Take("error")
  /\ IF Skipping THEN Nothing
     ELSE Fail /\ GoOn /\ Does(1) /\ UNCHANGED <<refused, strayed>>

----------------------------------------------------------------------------
(* The job stack, and what stops it.                                       *)

\* The entries of the files that are deleted.
Orphaned(files) ==
  [i \in DOMAIN context |-> [context[i] EXCEPT !.file = IF @ \in files THEN Gone ELSE @]]

\* What was noted of a job that is over.
Forget ==
  /\ refused' = (refused /\ job' # <<>>)
  /\ strayed' = (strayed /\ job' # <<>>)

EndOfFile ==
  /\ job # <<>> /\ ~alarm
  /\ Source.pos > Len(Source.prog)
  /\ job' = Front(job)
  /\ context' = Orphaned({File})
  /\ Forget
  /\ UNCHANGED <<did, alarm>>

Start ==
  /\ job = <<>> /\ ~alarm
  /\ Leftovers \/ context = <<>>
  /\ \E prog \in Programs : job' = <<[prog |-> prog, pos |-> 1]>>
  /\ did' = Nil
  /\ UNCHANGED <<context, alarm, refused, strayed>>

Alarm == ~alarm /\ alarm' = TRUE /\ UNCHANGED <<job, context, did, refused, strayed>>

\* The polling task finds the alarm: Job::abort().
Abort ==
  /\ alarm /\ job # <<>>
  /\ job' = <<>>
  /\ context' = Orphaned(DOMAIN job)
  /\ Forget
  /\ UNCHANGED <<did, alarm>>

\* A reset: the job is unwound and the interpreter begins anew.
Reset ==
  /\ job' = <<>>
  /\ context' = <<>>
  /\ alarm' = FALSE
  /\ Forget
  /\ UNCHANGED did

\* $X, which like every line is skipped while lines are.
Unlock ==
  /\ alarm /\ job = <<>>
  /\ alarm' = Skipping
  /\ UNCHANGED <<job, context, did, refused, strayed>>

----------------------------------------------------------------------------
Init ==
  /\ job = <<>> /\ context = <<>>
  /\ did = Nil
  /\ alarm = FALSE /\ refused = FALSE /\ strayed = FALSE

Next ==
  \/ Work \/ Call \/ If \/ ElseIf \/ Else \/ EndIf \/ Do \/ While \/ EndWhile \/ Repeat \/ EndRepeat
  \/ Break \/ Continue \/ RaiseAlarm \/ RaiseError
  \/ EndOfFile \/ Start \/ Alarm \/ Abort \/ Reset \/ Unlock

Spec == Init /\ [][Next]_vars

----------------------------------------------------------------------------
(* Properties.                                                             *)

Structure == INSTANCE Blocks WITH calls <- <<>>

\* Where file i is as far as the program is concerned: lines that are skipped are not there.
Effective(i) ==
  LET prog == job[i].prog
      pos == job[i].pos
      e == Last(context)
  IN CASE i < File \/ ~Skipping -> Structure!Reached(prog, pos)
       [] i = File /\ Skipping /\ e.op \in Loops -> Structure!Past(prog, pos, e.label)
       [] i = File /\ Skipping /\ e.op \notin Loops /\ e.handled -> Structure!EndIf(prog, pos, e.label)
       [] OTHER -> Structure!Otherwise(prog, pos, e.label)

\* The rounds that are left of the counted loops of file i.
RoundsLeft(i) ==
  LET counted == SelectSeq(context, LAMBDA e : e.file = i /\ e.op = "repeat" /\ ~e.skip)
  IN [k \in DOMAIN counted |-> counted[k].repeats]

Program == INSTANCE Blocks WITH
  alarm <- alarm \/ strayed,
  calls <- IF alarm \/ strayed THEN <<>>
           ELSE [i \in DOMAIN job |-> [prog |-> job[i].prog, at |-> Effective(i), left |-> RoundsLeft(i)]]

(* Skipping lines and seeking back in files runs a program as the blocks it is written in            *)
(* (flowcontrol).  A program is followed up to the first of two places, if it comes to one: a        *)
(* continue in the last round of its loop and a while directly in a do, which strayed notes.  A job  *)
(* begins with no block open (Leftovers).                                                            *)
RunsAsBlocks == Program!Spec

(* No line of a program whose blocks are properly nested is refused (FlowControlSyntaxError), but    *)
(* after a continue in the last round of its loop or a while directly in a do.                       *)
RefusedOnlyAstray == refused => strayed

(* No line of a program whose blocks are properly nested is refused, as LinuxCNC refuses none, whose *)
(* flow control this is to be.                                                                       *)
WellFormedAccepted == ~refused

=============================================================================
