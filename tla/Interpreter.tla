---------------------------- MODULE Interpreter ----------------------------
(* What the job stack and the hand-off of lines promise a program: its files *)
(* are run as a stack of calls.  A line is taken from the innermost file     *)
(* only, a call is made before the caller goes on, a file returns when its   *)
(* last line has been taken, and nothing runs once the job is aborted.       *)
EXTENDS Naturals, SequencesExt

CONSTANTS Files, FileLines

VARIABLES
    stack,    \* the files being run, the innermost one last
    todo,     \* how many lines of each are still to be taken
    calling   \* who asked for a file that is not on the stack yet

vars == <<stack, todo, calling>>

Init ==
    /\ stack = <<>>
    /\ todo = [f \in Files |-> 0]
    /\ calling = "nobody"

(* A client asks for a file to be run. *)
Request ==
    /\ stack = <<>>
    /\ calling = "nobody"
    /\ calling' = "client"
    /\ UNCHANGED <<stack, todo>>

(* The innermost file's next line is taken; it may be a call. *)
Step ==
    /\ stack # <<>>
    /\ calling = "nobody"
    /\ todo[Last(stack)] > 0
    /\ todo' = [todo EXCEPT ![Last(stack)] = @ - 1]
    /\ calling' \in {"nobody", "file"}
    /\ UNCHANGED stack

Call(f, n) ==
    /\ calling # "nobody"
    /\ f \notin ToSet(stack)
    /\ stack' = Append(stack, f)
    /\ todo' = [todo EXCEPT ![f] = n]
    /\ calling' = "nobody"

(* The file cannot be opened. *)
Refuse ==
    /\ calling # "nobody"
    /\ calling' = "nobody"
    /\ UNCHANGED <<stack, todo>>

Return ==
    /\ stack # <<>>
    /\ calling = "nobody"
    /\ todo[Last(stack)] = 0
    /\ stack' = Front(stack)
    /\ UNCHANGED <<todo, calling>>

Abort ==
    /\ stack # <<>>
    /\ stack' = <<>>
    /\ todo' = [f \in Files |-> 0]
    /\ calling' = "nobody"

Next ==
    \/ Request \/ Step \/ Refuse \/ Return \/ Abort
    \/ \E f \in Files, n \in 0..FileLines : Call(f, n)

Spec == Init /\ [][Next]_vars
=============================================================================
