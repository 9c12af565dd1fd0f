----------------------------- MODULE MCRealtime -----------------------------
(* Command and line sets for TLC.  Fewer segments of room than there are to a *)
(* motion make the stepper run dry in the middle of a motion as well as at    *)
(* its end.  A command that the others do not wait for weighs more, and the   *)
(* more commands, the fewer the lines.                                        *)
EXTENDS Realtime

Holding == {"feedHold", "cycleStart", "doorOpens", "doorCloses"}
AllCommands == Holding \cup {"sleep", "motionCancel", "reset", "alarm", "fault"}
WeightOf == [c \in AllCommands |-> IF c = "feedHold" THEN 2 ELSE IF c \in Holding THEN 1 ELSE 3]
AllBounds == {<<4, 1>>, <<2, 2>>}

AllLines == {"feed", "jog", "spindleOn", "unlock"}
=============================================================================
