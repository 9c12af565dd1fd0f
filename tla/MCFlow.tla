------------------------------- MODULE MCFlow -------------------------------
(* The programs of up to MaxLines lines whose blocks are nested, labels being the depth; what is *)
(* called is one of two small ones.                                                              *)
EXTENDS Flow

CONSTANTS MaxLines, MaxDepth

L(op, label) == [op |-> op, label |-> label, file |-> <<>>]
Work1 == <<L("work", 0)>>
Macro1 == Work1 \o <<L("if", 1), L("error", 0), L("else", 1), L("alarm", 0), L("endif", 1)>>
File1 ==
  <<L("repeat", 1), L("if", 2), L("break", 1), L("endif", 2),
    [op |-> "call", label |-> 0, file |-> Macro1], L("endrepeat", 1)>>

Simple(loops) ==
  {Work1, <<[op |-> "call", label |-> 0, file |-> File1]>>}
  \cup {<<L(op, l)>> : op \in {"break", "continue"}, l \in loops}

LoopEnds == {<<"repeat", "endrepeat">>, <<"do", "while">>, <<"while", "endwhile">>}

RECURSIVE Body(_, _, _), Statement(_, _, _)

\* Statements of n lines, d blocks deep, in loops with these labels.
Statement(n, d, loops) ==
  LET in(k, l) == Body(k, d + 1, l)
      a == L("if", d + 1)
      z == <<L("endif", d + 1)>>
  IN IF n = 1 THEN Simple(loops)
     ELSE IF d = MaxDepth THEN {}
     ELSE {<<a>> \o b \o z : b \in in(n - 2, loops)}
          \cup UNION {{<<a>> \o b \o <<L("else", d + 1)>> \o c \o z :
                         b \in in(k, loops), c \in in(n - 3 - k, loops)} : k \in 1 .. n - 4}
          \cup UNION {{<<a>> \o b \o <<L("elseif", d + 1)>> \o c \o <<L("else", d + 1)>> \o Work1 \o z :
                         b \in in(k, loops), c \in in(n - 5 - k, loops)} : k \in 1 .. n - 6}
          \cup UNION {{<<L(o[1], d + 1)>> \o b \o <<L(o[2], d + 1)>> :
                         b \in in(n - 2, loops \cup {d + 1})} : o \in LoopEnds}

\* One of two statements that follow one another is a block.
Body(n, d, loops) ==
  IF n <= 0 THEN {}
  ELSE Statement(n, d, loops)
       \cup UNION {{s \o b : s \in Statement(k, d, loops),
                           b \in {c \in Body(n - k, d, loops) :
                                    k > 1 \/ c[1].op \notin {"work", "call", "break", "continue"}}} :
                   k \in 1 .. n - 1}

Nested == UNION {Body(n, 0, {}) : n \in 1 .. MaxLines}
SmallMacros == {Macro1}
=============================================================================
