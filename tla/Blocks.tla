------------------------------- MODULE Blocks -------------------------------
(***************************************************************************)
(* What flow control promises a program: its lines are run as the nested   *)
(* blocks it is written in.  A condition that fails leads to the next      *)
(* branch of its own block, a branch that was run leads past the block, a  *)
(* loop goes round as often as its count or its condition says, break and  *)
(* continue leave the blocks inside the loop they name, and a file that is *)
(* called runs to its end before the caller goes on.                       *)
(*                                                                         *)
(* A program is a sequence of lines [op, label, file].  The blocks that    *)
(* enclose a line have different labels; blocks that follow one another    *)
(* may share one.                                                          *)
(***************************************************************************)
EXTENDS Naturals, SequencesExt

CONSTANT MaxRepeat   \* bound: the count of a repeat

VARIABLES
  calls,  \* the programs that run, the innermost one last: the line each is at, rounds left
  did,    \* the line done last that does something, with the value of its expression
  alarm   \* an alarm has ended the job

vars == <<calls, did, alarm>>

----------------------------------------------------------------------------
(* The blocks of a program.                                                *)

Marks(prog, p, label) == prog[p].label = label /\ prog[p].op \notin {"break", "continue"}

\* A while is the end of a do, or the beginning of a loop of its own.
EndsDo(prog, p) ==
  /\ prog[p].op = "while"
  /\ LET before == {q \in 1 .. p - 1 : Marks(prog, q, prog[p].label)}
     IN before # {} /\ prog[Max(before)].op = "do"

Begins(prog, p) == prog[p].op \in {"do", "repeat", "while"} /\ ~EndsDo(prog, p)
Ends(prog, p) == prog[p].op \in {"endrepeat", "endwhile"} \/ EndsDo(prog, p)

\* The branch that follows line p in its block, and the end of that block.
Branch(prog, p, label) ==
  Min({q \in p .. Len(prog) : prog[q].label = label /\ prog[q].op \in {"elseif", "else", "endif"}})
EndIf(prog, p, label) ==
  Min({q \in p .. Len(prog) : prog[q].label = label /\ prog[q].op = "endif"})

\* The loop called label around line p.
Top(prog, p, label) == Max({q \in 1 .. p : prog[q].label = label /\ Begins(prog, q)})
End(prog, p, label) == Min({q \in p .. Len(prog) : prog[q].label = label /\ Ends(prog, q)})

\* A line that is reached from the line before it: a branch ends where the next one begins.
Reached(prog, p) ==
  IF p <= Len(prog) /\ prog[p].op \in {"elseif", "else"} THEN EndIf(prog, p, prog[p].label) ELSE p

\* Where a condition that fails leads to.
Otherwise(prog, p, label) ==
  LET b == Branch(prog, p, label)
  IN IF prog[b].op = "else" THEN Reached(prog, b + 1) ELSE b

\* The line after the loop.
Past(prog, p, label) == Reached(prog, End(prog, p, label) + 1)

\* How many counted loops line p is in.
Counted(prog, p) ==
  Cardinality({q \in 1 .. p - 1 : prog[q].op = "repeat" /\ p <= End(prog, q + 1, prog[q].label)})

----------------------------------------------------------------------------
Nil == [line |-> 0, value |-> 0]
Init == calls = <<>> /\ did = Nil /\ alarm = FALSE

Go(c, p, left) == calls' = Append(Front(calls), [c EXCEPT !.at = p, !.left = left])
GoOn(c) == Go(c, Reached(c.prog, c.at + 1), c.left)
Does(c, v) == did' = [line |-> c.at, value |-> v]

\* The next round of the loop called l, or the line after it.
Round(c, l, again) ==
  LET top == Top(c.prog, c.at, l)
  IN Go(c, IF again THEN top + 1 ELSE Past(c.prog, c.at, l), SubSeq(c.left, 1, Counted(c.prog, top)))
CountedRound(c, l) ==
  LET top == Top(c.prog, c.at, l)
      n == Counted(c.prog, top) + 1
  IN IF c.left[n] > 1
     THEN Go(c, top + 1, [SubSeq(c.left, 1, n) EXCEPT ![n] = @ - 1])
     ELSE Round(c, l, FALSE)

Work(c) == GoOn(c) /\ Does(c, 1) /\ UNCHANGED alarm
Mark(c) == GoOn(c) /\ UNCHANGED <<did, alarm>>

Test(c, l) ==
  /\ \E v \in {0, 1} :
       /\ Does(c, v)
       /\ IF v = 1 THEN GoOn(c) ELSE Go(c, Otherwise(c.prog, c.at + 1, l), c.left)
  /\ UNCHANGED alarm

LoopTest(c, l) == (\E v \in {0, 1} : Does(c, v) /\ Round(c, l, v = 1)) /\ UNCHANGED alarm

WhileBegins(c, l) ==
  /\ \E v \in {0, 1} :
       /\ Does(c, v)
       /\ IF v = 1 THEN GoOn(c) ELSE Go(c, Past(c.prog, c.at + 1, l), c.left)
  /\ UNCHANGED alarm

Repeat(c, l) ==
  /\ \E n \in 0 .. MaxRepeat :
       /\ Does(c, n)
       /\ IF n > 0 THEN Go(c, c.at + 1, Append(c.left, n))
                   ELSE Go(c, Past(c.prog, c.at + 1, l), c.left)
  /\ UNCHANGED alarm

EndRepeat(c, l) == CountedRound(c, l) /\ UNCHANGED <<did, alarm>>

Break(c, l) == Round(c, l, FALSE) /\ UNCHANGED <<did, alarm>>

Continue(c, l) ==
  /\ LET op == c.prog[Top(c.prog, c.at, l)].op
     IN CASE op = "repeat" -> CountedRound(c, l) /\ UNCHANGED did
          [] op = "do" -> Round(c, l, TRUE) /\ UNCHANGED did
          [] op = "while" -> \E v \in {0, 1} : Does(c, v) /\ Round(c, l, v = 1)
  /\ UNCHANGED alarm

Call(c, file) ==
  /\ calls' = Front(calls) \o <<[c EXCEPT !.at = Reached(c.prog, c.at + 1)],
                                [prog |-> file, at |-> 1, left |-> <<>>]>>
  /\ Does(c, 1) /\ UNCHANGED alarm

\* The program asks for an alarm.
Raise(c) == Does(c, 1) /\ alarm' = TRUE /\ calls' = <<>>

Execute(c, line) ==
  CASE line.op = "work" -> Work(c)
    [] line.op \in {"endif", "do"} -> Mark(c)
    [] line.op \in {"if", "elseif"} -> Test(c, line.label)
    [] line.op = "while" -> IF EndsDo(c.prog, c.at) THEN LoopTest(c, line.label)
                                                    ELSE WhileBegins(c, line.label)
    [] line.op = "endwhile" -> LoopTest(c, line.label)
    [] line.op = "repeat" -> Repeat(c, line.label)
    [] line.op = "endrepeat" -> EndRepeat(c, line.label)
    [] line.op = "break" -> Break(c, line.label)
    [] line.op = "continue" -> Continue(c, line.label)
    [] line.op = "call" -> Call(c, line.file)
    [] line.op \in {"alarm", "error"} -> Raise(c)

Return == calls' = Front(calls) /\ UNCHANGED <<did, alarm>>

\* The next line of the innermost program.
Step ==
  /\ calls # <<>> /\ ~alarm
  /\ LET c == Last(calls)
     IN IF c.at <= Len(c.prog) THEN Execute(c, c.prog[c.at]) ELSE Return

Alarm == alarm' = TRUE /\ calls' = <<>> /\ UNCHANGED did
Recover == calls' = <<>> /\ alarm' = FALSE /\ UNCHANGED did

\* Any program is started at its first line.
Start ==
  /\ calls = <<>> /\ ~alarm
  /\ Len(calls') = 1 /\ calls'[1].at = 1 /\ calls'[1].left = <<>>
  /\ did' = Nil
  /\ UNCHANGED alarm

Next == Step \/ Alarm \/ Recover \/ Start

Spec == Init /\ [][Next]_vars
=============================================================================
