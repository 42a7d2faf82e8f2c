SPECIFICATION Spec
CONSTANTS
    Games = {cherry, bare}
    Turns = {t1, t2}
    None = None
    Blank = Blank
    MaxVersion = 2
    OnDisk = {1}
    MaxRequests = 2
    MAX_PROMPTS = 1
    MAX_QUIET_TURNS = 1
    MayFail = {"fetch"}
INVARIANT
    SavesStayApart
