\* trigger(first=True) over two daemons, as in _testSendRcv.
CONSTANTS
    None = None
    Daemons = {d1, d2}
    Texts = {a, b}
    Timeouts = {1}
    KILL_DELAY = 1
    MaxGen = 1
    MaxLines = 1
    MaxTrig = 2
    Ops = {"stop", "kill", "end", "exit"}
    Scopes = {TRUE, FALSE}
    SplitLines = FALSE
    Discipline = TRUE

SPECIFICATION Spec

INVARIANT NoSupervisorCrash
