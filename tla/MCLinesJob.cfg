CONSTANTS
    None = None
    c1 = c1  f1 = f1  f2 = f2
    Clients = {c1}
    Files = {f1, f2}
    Senders = {c1}
    Kinds = {"gcode", "bad", "run", "unlock", "query"}
    Faults = {}
    FileLines = 1
    Window = 1
    KillDepth = 2
    EventDepth = 1
SPECIFICATION FairSpec
INVARIANT JobOwnsMachine
PROPERTIES RunsAsCalls Reaped JobEnds
