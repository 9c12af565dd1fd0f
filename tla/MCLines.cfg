CONSTANTS
    None = None
    c1 = c1  f1 = f1  f2 = f2
    Clients = {c1}
    Files = {f1, f2}
    Senders = {c1}
    Kinds = {"run"}
    Faults = {"reset"}
    FileLines = 1
    Window = 2
    KillDepth = 2
    EventDepth = 1
SPECIFICATION Spec
INVARIANTS TypeOK RefsHeld HeldChannelsLive
